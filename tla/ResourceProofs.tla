----------------------------- MODULE ResourceProofs ------------------------------
(* Proofs about what is counted and kept: the bytes and bindings of the GPU     *)
(* driver, the chunks of the object store, the bundles, grants and cached       *)
(* decisions of the policy kernel, for every number of each.                    *)
EXTENDS GpuResources, AiosFs, PolicyKernel, Integers, FiniteSetTheorems, TLAPS

--------------------------------------------------------------------------------
(* GPU bindings: a request past its authorization is authorized, or was crossed.   *)

GpuInv ==
    /\ DOMAIN gtask = GpuTasks
    /\ BoundIsAuthorized
    /\ AuthorizationEnds
    /\ \A t \in GpuTasks : gtask[t].at \in {"reserve", "insert"} =>
          gtask[t].binding.subject \in authorized \cup crossed

\* Who holds a binding is authorized unless a release crossed the request, and nobody
\* stays authorized without one (request_binding, release_binding).
THEOREM GpuAuthorization == GpuSpec => [](BoundIsAuthorized /\ AuthorizationEnds)
<1>1. GpuInit => GpuInv
  BY DEF GpuInit, GpuInv, BoundIsAuthorized, AuthorizationEnds, GpuIdle
<1>2. GpuInv /\ [GpuNext]_gpuVars => GpuInv'
  <2> SUFFICES ASSUME GpuInv, [GpuNext]_gpuVars PROVE GpuInv'
    BY Zenon
  <2> USE DEF GpuInv, BoundIsAuthorized, AuthorizationEnds, StillBound, GpuIdle, GoOn
  <2>1. ASSUME NEW t \in GpuTasks, NEW s \in GpuSubjects, NEW n \in VramSizes, CheckVram(t, s, n)
        PROVE GpuInv'
    BY <2>1, Zenon DEF CheckVram
  <2>2. ASSUME NEW t \in GpuTasks, AuthorizeSubject(t) PROVE GpuInv'
    BY <2>2 DEF AuthorizeSubject
  <2>3. ASSUME NEW t \in GpuTasks, ReserveVram(t) PROVE GpuInv'
    BY <2>3, SMTT(30) DEF ReserveVram
  <2>4. ASSUME NEW t \in GpuTasks, InsertBinding(t) PROVE GpuInv'
    BY <2>4, Zenon DEF InsertBinding
  <2>5. ASSUME NEW t \in GpuTasks, NEW b \in bound, FindBinding(t, b) PROVE GpuInv'
    BY <2>5, Zenon DEF FindBinding
  <2>6. ASSUME NEW t \in GpuTasks, ReleaseVram(t) PROVE GpuInv'
    BY <2>6 DEF ReleaseVram
  <2>7. ASSUME NEW t \in GpuTasks, RemoveBinding(t) PROVE GpuInv'
    BY <2>7, SMTT(30) DEF RemoveBinding
  <2>8. ASSUME NEW t \in GpuTasks, RevokeSubject(t) PROVE GpuInv'
    BY <2>8, Zenon DEF RevokeSubject
  <2>9. CASE UNCHANGED gpuVars
    BY <2>9, Zenon DEF gpuVars
  <2> QED BY <2>1, <2>2, <2>3, <2>4, <2>5, <2>6, <2>7, <2>8, <2>9, Zenon DEF GpuNext
<1>3. GpuInv => BoundIsAuthorized /\ AuthorizationEnds
  BY Zenon DEF GpuInv
<1> QED BY <1>1, <1>2, <1>3, PTL DEF GpuSpec

--------------------------------------------------------------------------------
(* The books of the GPU driver. Bytes are counted one by one, so that what a    *)
(* step adds to a sum is the size of a set it adds; the invariant says which    *)
(* call has which binding.                                                      *)

\* Where a call of request_binding, and one of release_binding, may be.
Asking == {"authorize", "reserve", "insert"}

Releasing == {"subtract", "remove", "revoke"}

BindingsAsked == [id : 1..requested, subject : GpuSubjects, bytes : VramSizes]

\* Every call is idle or has a binding that was asked for, and what is bound was asked for.
GpuTyped ==
    /\ requested \in Nat
    /\ reserved \in [GpuSubjects -> Nat]
    /\ DOMAIN gtask = GpuTasks
    /\ \A t \in GpuTasks :
         \/ gtask[t] = GpuIdle
         \/ /\ gtask[t] = [at |-> gtask[t].at, binding |-> gtask[t].binding]
            /\ gtask[t].at \in Asking \cup Releasing
            /\ gtask[t].binding \in BindingsAsked
    /\ bound \subseteq BindingsAsked

\* A binding that request_binding is still making is not stored, and no other call has it.
AskedOnce ==
    \A t \in GpuTasks : gtask[t].at \in Asking =>
        /\ gtask[t].binding \notin bound
        /\ \A u \in GpuTasks : gtask[u].binding = gtask[t].binding => u = t

\* Unless a binding was released twice at once: a release has its binding to itself, and the
\* binding is stored until the release removes it.
ReleasedOnce ==
    ~doubled => \A t \in GpuTasks :
        /\ gtask[t].at \in {"subtract", "remove"} => gtask[t].binding \in bound
        /\ gtask[t].at \in Releasing =>
             \A u \in GpuTasks : gtask[u].binding = gtask[t].binding => u = t

\* Only finitely many bytes are reserved, promised or accounted for.
Counted ==
    /\ IsFiniteSet(ReservedBytes) /\ IsFiniteSet(BytesIn(Promised))
    /\ \A s \in GpuSubjects : IsFiniteSet(BytesIn(Accounted(s)))

BooksShape == GpuTyped /\ AskedOnce /\ ReleasedOnce

\* The inductive invariant of the accounting.
BooksInv == BooksShape /\ Counted /\ AccountingExact /\ OvershootBounded

\* Bytes a + 1 to a + n of the holder x.
Block(x, a, n) == {x} \X (a + 1 .. a + n)

\* A run of n bytes of one holder counts n.
LEMMA BlockSize ==
    ASSUME NEW x, NEW a \in Nat, NEW n \in Nat
    PROVE  IsFiniteSet(Block(x, a, n)) /\ Cardinality(Block(x, a, n)) = n
<1>1. IsFiniteSet({x}) /\ Cardinality({x}) = 1
  BY FS_Singleton, Zenon
<1>2. IsFiniteSet(a + 1 .. a + n) /\ Cardinality(a + 1 .. a + n) = n
  BY FS_Interval
<1> DEFINE J == a + 1 .. a + n
<1> HIDE DEF J
<1>3. IsFiniteSet({x} \X J) /\ Cardinality({x} \X J) = Cardinality({x}) * Cardinality(J)
  BY <1>1, <1>2, FS_Product, Zenon DEF J
<1>4. Cardinality({x} \X J) = n
  BY <1>1, <1>2, <1>3 DEF J
<1> QED BY <1>3, <1>4, Zenon DEF J, Block

\* A binding that was not in a set adds its size to the sum of the set.
LEMMA SumAdd ==
    ASSUME NEW B, NEW b, b \notin B, b.bytes \in Nat, IsFiniteSet(BytesIn(B))
    PROVE  /\ IsFiniteSet(BytesIn(B \cup {b}))
           /\ BytesOf(B \cup {b}) = BytesOf(B) + b.bytes
<1> DEFINE own == Block(b, 0, b.bytes)
<1>1. IsFiniteSet(own) /\ Cardinality(own) = b.bytes
  BY BlockSize, Zenon
<1>2. BytesIn(B \cup {b}) = BytesIn(B) \cup own
  <2>1. own = {b} \X (1 .. b.bytes)
    BY DEF Block
  <2> QED BY <2>1, Zenon DEF BytesIn
<1>3. BytesIn(B) \cap own = {}
  BY DEF BytesIn, Block
<1>4. Cardinality(BytesIn(B) \cap own) = 0
  BY <1>3, FS_EmptySet, Zenon
<1>5. Cardinality(BytesIn(B)) \in Nat
  BY FS_CardinalityType, Zenon
<1> HIDE DEF own
<1>6. /\ IsFiniteSet(BytesIn(B) \cup own)
      /\ Cardinality(BytesIn(B) \cup own)
           = Cardinality(BytesIn(B)) + Cardinality(own) - Cardinality(BytesIn(B) \cap own)
  BY <1>1, FS_Union, Zenon
<1>7. Cardinality(BytesIn(B) \cup own) = Cardinality(BytesIn(B)) + b.bytes
  BY <1>1, <1>4, <1>5, <1>6
<1> QED BY <1>2, <1>6, <1>7, Zenon DEF BytesOf

\* A binding taken out of a set takes its size from the sum.
LEMMA SumRemove ==
    ASSUME NEW B, NEW b \in B, b.bytes \in Nat, IsFiniteSet(BytesIn(B))
    PROVE  /\ IsFiniteSet(BytesIn(B \ {b}))
           /\ BytesOf(B) = BytesOf(B \ {b}) + b.bytes
<1> DEFINE rest == B \ {b}
<1>1. BytesIn(rest) \in SUBSET BytesIn(B)
  BY Zenon DEF BytesIn
<1>2. IsFiniteSet(BytesIn(rest))
  BY <1>1, FS_Subset, Zenon
<1>3. b \notin rest /\ rest \cup {b} = B
  BY Zenon
<1> HIDE DEF rest
<1>4. BytesOf(rest \cup {b}) = BytesOf(rest) + b.bytes
  BY <1>2, <1>3, SumAdd, Zenon
<1> QED BY <1>2, <1>3, <1>4, Zenon DEF rest

\* The sum of the sizes of a set of bindings is a number.
LEMMA SumNat ==
    ASSUME NEW B, IsFiniteSet(BytesIn(B))
    PROVE  BytesOf(B) \in Nat
BY FS_CardinalityType, Zenon DEF BytesOf

\* bytes_reserved += n of one subject adds n to total_vram_used.
LEMMA TotalGrows ==
    ASSUME NEW s \in GpuSubjects, NEW n \in Nat, reserved \in [GpuSubjects -> Nat],
           IsFiniteSet(ReservedBytes), reserved' = [reserved EXCEPT ![s] = @ + n]
    PROVE  IsFiniteSet(ReservedBytes') /\ TotalVramUsed' = TotalVramUsed + n
<1> DEFINE more == Block(s, reserved[s], n)
<1>1. IsFiniteSet(more) /\ Cardinality(more) = n
  <2>1. reserved[s] \in Nat
    BY Zenon
  <2> QED BY <2>1, BlockSize, Zenon
<1>2. ReservedBytes' = ReservedBytes \cup more
  <2>1. \A r \in GpuSubjects \ {s} : {r} \X (1..reserved'[r]) = {r} \X (1..reserved[r])
    BY Zenon
  <2>2. {s} \X (1..reserved'[s]) = ({s} \X (1..reserved[s])) \cup more
    <3>1. 1..reserved'[s] = (1..reserved[s]) \cup (reserved[s] + 1 .. reserved[s] + n)
      OBVIOUS
    <3> QED BY <3>1, Zenon DEF Block
  <2> HIDE DEF more
  <2>3. \A x : x \in ReservedBytes' <=> x \in ReservedBytes \cup more
    BY <2>1, <2>2 DEF ReservedBytes
  <2> QED BY <2>3, Zenon
<1>3. ReservedBytes \cap more = {}
  BY DEF ReservedBytes, Block
<1>4. Cardinality(ReservedBytes \cap more) = 0
  BY <1>3, FS_EmptySet, Zenon
<1>5. Cardinality(ReservedBytes) \in Nat
  BY FS_CardinalityType, Zenon
<1> HIDE DEF more
<1> QED BY <1>1, <1>2, <1>4, <1>5, FS_Union DEF TotalVramUsed

\* Lowering bytes_reserved of one subject does not raise total_vram_used.
LEMMA TotalShrinks ==
    ASSUME NEW s \in GpuSubjects, NEW m \in Nat, reserved \in [GpuSubjects -> Nat],
           m <= reserved[s], IsFiniteSet(ReservedBytes), reserved' = [reserved EXCEPT ![s] = m]
    PROVE  IsFiniteSet(ReservedBytes') /\ TotalVramUsed' <= TotalVramUsed
<1>1. ReservedBytes' \in SUBSET ReservedBytes
  BY DEF ReservedBytes
<1> QED BY <1>1, FS_Subset, Zenon DEF TotalVramUsed

\* The largest size, and the overshoot computed from it, are numbers.
LEMMA LargestSize ==
    /\ Max(VramSizes) \in VramSizes /\ Max(VramSizes) \in Nat
    /\ \A n \in VramSizes : n \in Nat /\ n <= Max(VramSizes)
    /\ Cardinality(GpuTasks) \in Nat \ {0}
    /\ Overshoot \in Nat
<1>1. /\ Max(VramSizes) \in VramSizes
      /\ \A n \in VramSizes : Max(VramSizes) >= n
  BY GpuAssumption, Zenon DEF Max
<1>2. Cardinality(GpuTasks) \in Nat /\ Cardinality(GpuTasks) # 0
  BY GpuAssumption, FS_CardinalityType, FS_EmptySet, Zenon
<1>3. Max(VramSizes) \in Nat
  BY <1>1, GpuAssumption, Zenon
<1>4. \A k, m \in Nat : k * m \in Nat
  OBVIOUS
<1>5. Cardinality(GpuTasks) - 1 \in Nat
  BY <1>2
<1>6. Overshoot \in Nat
  BY <1>3, <1>4, <1>5, Zenon DEF Overshoot
<1> QED BY <1>1, <1>2, <1>3, <1>6, GpuAssumption, Zenon

\* While a call is idle the others have promised at most the overshoot: each of them
\* holds one request, of at most the largest size.
LEMMA PromisedBound ==
    ASSUME GpuTyped, NEW t \in GpuTasks, gtask[t] = GpuIdle
    PROVE  BytesOf(Promised) <= Overshoot
<1> DEFINE R == GpuTasks \ {t}
           room == R \X (1..Max(VramSizes))
           owner(b) == CHOOSE u \in R : gtask[u].binding = b
           f == [x \in BytesIn(Promised) |-> <<owner(x[1]), x[2]>>]
<1>1. IsFiniteSet(R) /\ Cardinality(R) = Cardinality(GpuTasks) - 1
  BY GpuAssumption, FS_RemoveElement, Zenon
<1>2. IsFiniteSet(1..Max(VramSizes)) /\ Cardinality(1..Max(VramSizes)) = Max(VramSizes)
  <2>1. Max(VramSizes) \in Nat
    BY LargestSize, Zenon
  <2> QED BY <2>1, FS_Interval
<1>3. IsFiniteSet(room) /\ Cardinality(room) = Overshoot
  <2>1. IsFiniteSet(room) /\ Cardinality(room) = Cardinality(R) * Cardinality(1..Max(VramSizes))
    BY <1>1, <1>2, FS_Product, Zenon
  <2> QED BY <1>1, <1>2, <2>1, Zenon DEF Overshoot
<1>4. \A b \in Promised : owner(b) \in R /\ gtask[owner(b)].binding = b
  <2>1. \A b \in Promised : \E u \in R : gtask[u].binding = b
    BY DEF Promised, GpuIdle
  <2> QED BY <2>1, Zenon
<1>5. \A b \in Promised : b.bytes \in VramSizes
  BY DEF Promised, GpuTyped, GpuIdle, BindingsAsked
<1>6. \A x \in BytesIn(Promised) :
        /\ x = <<x[1], x[2]>> /\ x[1] \in Promised /\ x[2] \in 1..x[1].bytes
  BY DEF BytesIn
<1>7. \A x \in BytesIn(Promised) : x[2] \in 1..Max(VramSizes)
  BY <1>5, <1>6, LargestSize
<1>8. \A x \in BytesIn(Promised) : f[x] \in room
  BY <1>4, <1>6, <1>7
<1>9. \A x, y \in BytesIn(Promised) : f[x] = f[y] => x = y
  <2> SUFFICES ASSUME NEW x \in BytesIn(Promised), NEW y \in BytesIn(Promised), f[x] = f[y]
               PROVE  x = y
    BY Zenon
  <2>1. owner(x[1]) = owner(y[1]) /\ x[2] = y[2]
    <3> HIDE DEF owner
    <3> QED BY Zenon
  <2>2. x[1] = y[1]
    BY <2>1, <1>4, <1>6, Zenon
  <2> QED BY <2>1, <2>2, <1>6, Zenon
<1>10. f \in Injection(BytesIn(Promised), room)
  <2> f \in [BytesIn(Promised) -> room]
    BY <1>8, Zenon
  <2> HIDE DEF f
  <2> QED BY <1>9, Zenon DEF Injection, IsInjective
<1>11. Cardinality(BytesIn(Promised)) <= Cardinality(room)
  <2> HIDE DEF f, room
  <2> QED BY <1>3, <1>10, FS_Injection, Zenon
<1> QED BY <1>3, <1>11, Zenon DEF BytesOf

\* Every step of request_binding and release_binding keeps GpuTyped.
LEMMA GpuTypedStep == GpuTyped /\ [GpuNext]_gpuVars => GpuTyped'
<1> SUFFICES ASSUME GpuTyped, [GpuNext]_gpuVars PROVE GpuTyped'
  BY Zenon
<1> USE GpuAssumption DEF GpuTyped, BindingsAsked, Asking, Releasing, GpuIdle, NoBinding, GoOn
<1>1. ASSUME NEW t \in GpuTasks, NEW s \in GpuSubjects, NEW n \in VramSizes, CheckVram(t, s, n)
      PROVE  GpuTyped'
  BY <1>1 DEF CheckVram
<1>2. ASSUME NEW t \in GpuTasks, NEW b \in bound, FindBinding(t, b) PROVE GpuTyped'
  BY <1>2, Zenon DEF FindBinding
<1>3. ASSUME NEW t \in GpuTasks, AuthorizeSubject(t) PROVE GpuTyped'
  BY <1>3 DEF AuthorizeSubject
<1>4. ASSUME NEW t \in GpuTasks, ReserveVram(t) PROVE GpuTyped'
  BY <1>4 DEF ReserveVram
<1>5. ASSUME NEW t \in GpuTasks, InsertBinding(t) PROVE GpuTyped'
  BY <1>5 DEF InsertBinding
<1>6. ASSUME NEW t \in GpuTasks, ReleaseVram(t) PROVE GpuTyped'
  BY <1>6 DEF ReleaseVram
<1>7. ASSUME NEW t \in GpuTasks, RemoveBinding(t) PROVE GpuTyped'
  BY <1>7 DEF RemoveBinding
<1>8. ASSUME NEW t \in GpuTasks, RevokeSubject(t) PROVE GpuTyped'
  BY <1>8, Zenon DEF RevokeSubject
<1>9. CASE UNCHANGED gpuVars
  BY <1>9, Zenon DEF gpuVars
<1> QED BY <1>1, <1>2, <1>3, <1>4, <1>5, <1>6, <1>7, <1>8, <1>9, Zenon DEF GpuNext

\* Ids are given out once, so that a binding stays with the call that makes it, and with
\* the call that releases it unless two do.
LEMMA OnceStep == BooksShape /\ [GpuNext]_gpuVars => AskedOnce' /\ ReleasedOnce'
<1> SUFFICES ASSUME BooksShape, [GpuNext]_gpuVars PROVE AskedOnce' /\ ReleasedOnce'
  BY Zenon
<1> USE DEF BooksShape, GpuTyped, AskedOnce, ReleasedOnce, BindingsAsked, Asking, Releasing, GpuIdle, NoBinding, GoOn
<1>1. ASSUME NEW t \in GpuTasks, NEW s \in GpuSubjects, NEW n \in VramSizes, CheckVram(t, s, n)
      PROVE  AskedOnce' /\ ReleasedOnce'
  BY <1>1 DEF CheckVram
<1>2. ASSUME NEW t \in GpuTasks, NEW b \in bound, FindBinding(t, b)
      PROVE  AskedOnce' /\ ReleasedOnce'
  <2>1. /\ gtask' = [gtask EXCEPT ![t] = [at |-> "subtract", binding |-> b]]
        /\ gtask[t] = GpuIdle /\ bound' = bound
    BY <1>2, Zenon DEF FindBinding
  <2>2. AskedOnce'
    <3> SUFFICES ASSUME NEW u \in GpuTasks, gtask'[u].at \in Asking
                 PROVE  /\ gtask'[u].binding \notin bound'
                        /\ \A v \in GpuTasks : gtask'[v].binding = gtask'[u].binding => v = u
      BY Zenon
    <3>1. u # t /\ gtask'[u] = gtask[u]
      BY <2>1, Zenon
    <3>2. b # gtask[u].binding
      BY <3>1, Zenon
    <3> QED BY <2>1, <3>1, <3>2, Zenon
  <2>3. ASSUME ~doubled' PROVE ~doubled /\ \A u \in GpuTasks : gtask[u].binding # b
    BY <1>2, <2>3, Zenon DEF FindBinding
  <2>4. ReleasedOnce'
    <3> SUFFICES ASSUME ~doubled', NEW u \in GpuTasks
                 PROVE  /\ gtask'[u].at \in {"subtract", "remove"} => gtask'[u].binding \in bound'
                        /\ gtask'[u].at \in Releasing =>
                             \A v \in GpuTasks : gtask'[v].binding = gtask'[u].binding => v = u
      BY Zenon
    <3>1. ~doubled /\ \A v \in GpuTasks : gtask[v].binding # b
      BY <2>3, Zenon
    <3>2. CASE u = t
      BY <2>1, <3>1, <3>2, Zenon
    <3>3. CASE u # t
      BY <2>1, <3>1, <3>3, Zenon
    <3> QED BY <3>2, <3>3, Zenon
  <2> QED BY <2>2, <2>4, Zenon
<1>3. ASSUME NEW t \in GpuTasks, AuthorizeSubject(t) PROVE AskedOnce' /\ ReleasedOnce'
  BY <1>3 DEF AuthorizeSubject
<1>4. ASSUME NEW t \in GpuTasks, ReserveVram(t) PROVE AskedOnce' /\ ReleasedOnce'
  BY <1>4 DEF ReserveVram
<1>5. ASSUME NEW t \in GpuTasks, InsertBinding(t) PROVE AskedOnce' /\ ReleasedOnce'
  BY <1>5 DEF InsertBinding
<1>6. ASSUME NEW t \in GpuTasks, ReleaseVram(t) PROVE AskedOnce' /\ ReleasedOnce'
  BY <1>6 DEF ReleaseVram
<1>7. ASSUME NEW t \in GpuTasks, RemoveBinding(t) PROVE AskedOnce' /\ ReleasedOnce'
  BY <1>7 DEF RemoveBinding
<1>8. ASSUME NEW t \in GpuTasks, RevokeSubject(t) PROVE AskedOnce' /\ ReleasedOnce'
  BY <1>8 DEF RevokeSubject
<1>9. CASE UNCHANGED gpuVars
  BY <1>9, Zenon DEF gpuVars
<1> QED BY <1>1, <1>2, <1>3, <1>4, <1>5, <1>6, <1>7, <1>8, <1>9, Zenon DEF GpuNext

\* A step that neither promises, reserves nor gives back VRAM.
SameSets == Promised' = Promised /\ \A r \in GpuSubjects : Accounted(r)' = Accounted(r)

\* These steps neither promise, reserve nor give back VRAM.
LEMMA SetsKept ==
    ASSUME BooksShape, NEW t \in GpuTasks,
           \/ AuthorizeSubject(t) \/ InsertBinding(t) \/ RemoveBinding(t) \/ RevokeSubject(t)
           \/ \E b \in bound : FindBinding(t, b)
    PROVE  SameSets
<1> USE DEF BooksShape, GpuTyped, AskedOnce, GpuIdle, GoOn, Asking, Releasing, NoBinding
<1>1. CASE AuthorizeSubject(t)
  BY <1>1 DEF SameSets, AuthorizeSubject, Promised, Accounted
<1>2. CASE InsertBinding(t)
  <2>1. Promised' = Promised
    BY <1>2 DEF InsertBinding, Promised
  <2>2. ASSUME NEW r \in GpuSubjects PROVE Accounted(r)' = Accounted(r)
    BY <1>2 DEF InsertBinding, Accounted
  <2> QED BY <2>1, <2>2, Zenon DEF SameSets
<1>3. CASE RemoveBinding(t)
  <2>1. Promised' = Promised
    BY <1>3 DEF RemoveBinding, Promised
  <2>2. ASSUME NEW r \in GpuSubjects PROVE Accounted(r)' = Accounted(r)
    BY <1>3 DEF RemoveBinding, Accounted
  <2> QED BY <2>1, <2>2, Zenon DEF SameSets
<1>4. CASE RevokeSubject(t)
  <2>1. Promised' = Promised
    BY <1>4 DEF RevokeSubject, Promised
  <2>2. ASSUME NEW r \in GpuSubjects PROVE Accounted(r)' = Accounted(r)
    BY <1>4 DEF RevokeSubject, Accounted
  <2> QED BY <2>1, <2>2, Zenon DEF SameSets
<1>5. ASSUME NEW b \in bound, FindBinding(t, b) PROVE SameSets
  <2>1. Promised' = Promised
    BY <1>5 DEF FindBinding, Promised
  <2>2. ASSUME NEW r \in GpuSubjects PROVE Accounted(r)' = Accounted(r)
    BY <1>5 DEF FindBinding, Accounted
  <2> QED BY <2>1, <2>2, Zenon DEF SameSets
<1> QED BY <1>1, <1>2, <1>3, <1>4, <1>5, Zenon

\* The check of request_binding promises the size of a new binding.
LEMMA AskedSets ==
    ASSUME BooksShape, NEW t \in GpuTasks, NEW s \in GpuSubjects, NEW n \in VramSizes, CheckVram(t, s, n)
    PROVE  LET b == [id |-> requested + 1, subject |-> s, bytes |-> n]
           IN  /\ Promised' = Promised \cup {b} /\ b \notin Promised
               /\ \A r \in GpuSubjects : Accounted(r)' = Accounted(r)
<1> USE DEF BooksShape, GpuTyped, AskedOnce, GpuIdle, Asking, Releasing, NoBinding, BindingsAsked
<1> DEFINE b == [id |-> requested + 1, subject |-> s, bytes |-> n]
<1>1. gtask' = [gtask EXCEPT ![t] = [at |-> "authorize", binding |-> b]]
  BY Zenon DEF CheckVram
<1>2. gtask[t] = GpuIdle /\ bound' = bound
  BY Zenon DEF CheckVram
<1>3. \A u \in GpuTasks : gtask[u].binding # b
  OBVIOUS
<1>4. b \notin Promised
  BY <1>3, Zenon DEF Promised
<1> HIDE DEF b
<1>5. Promised' = Promised \cup {b}
  BY <1>1, <1>2 DEF Promised
<1>6. ASSUME NEW r \in GpuSubjects PROVE Accounted(r)' = Accounted(r)
  BY <1>1, <1>2, <1>3 DEF Accounted
<1> QED BY <1>4, <1>5, <1>6, Zenon DEF b

\* The reservation turns a promise into an accounted binding.
LEMMA ReservedSets ==
    ASSUME BooksShape, NEW t \in GpuTasks, ReserveVram(t), NEW b, b = gtask[t].binding
    PROVE  /\ Promised' = Promised \ {b} /\ b \in Promised
           /\ Accounted(b.subject)' = Accounted(b.subject) \cup {b} /\ b \notin Accounted(b.subject)
           /\ \A r \in GpuSubjects \ {b.subject} : Accounted(r)' = Accounted(r)
<1> USE DEF BooksShape, GpuTyped, AskedOnce, GpuIdle, Asking, Releasing, NoBinding, GoOn
<1>1. gtask' = [gtask EXCEPT ![t].at = "insert"] /\ gtask[t].at = "reserve" /\ bound' = bound
  BY Zenon DEF ReserveVram
<1>2. b \notin bound /\ \A u \in GpuTasks : gtask[u].binding = b => u = t
  BY <1>1, Zenon
<1>3. Promised' = Promised \ {b} /\ b \in Promised
  BY <1>1, <1>2 DEF Promised
<1>4. b \notin Accounted(b.subject)
  BY <1>1, <1>2, Zenon DEF Accounted
<1>5. Accounted(b.subject)' = Accounted(b.subject) \cup {b}
  BY <1>1, <1>2 DEF Accounted
<1>6. ASSUME NEW r \in GpuSubjects \ {b.subject} PROVE Accounted(r)' = Accounted(r)
  BY <1>1, <1>2 DEF Accounted
<1> QED BY <1>3, <1>4, <1>5, <1>6, Zenon

\* The subtraction of release_binding takes its binding off the accounted ones.
LEMMA ReleasedSets ==
    ASSUME BooksShape, NEW t \in GpuTasks, ReleaseVram(t), NEW b, b = gtask[t].binding
    PROVE  /\ Promised' = Promised
           /\ Accounted(b.subject)' = Accounted(b.subject) \ {b}
           /\ ~doubled => b \in Accounted(b.subject)
           /\ \A r \in GpuSubjects \ {b.subject} : Accounted(r)' = Accounted(r)
<1> USE DEF BooksShape, GpuTyped, GpuIdle, Asking, Releasing, NoBinding, GoOn
<1>1. gtask' = [gtask EXCEPT ![t].at = "remove"] /\ gtask[t].at = "subtract" /\ bound' = bound
  BY Zenon DEF ReleaseVram
<1>2. Promised' = Promised
  BY <1>1, ZenonT(60) DEF Promised
<1>3. ~doubled => b \in Accounted(b.subject)
  BY <1>1, Zenon DEF ReleasedOnce, Accounted
<1>4. Accounted(b.subject)' = Accounted(b.subject) \ {b}
  BY <1>1 DEF Accounted
<1>5. ASSUME NEW r \in GpuSubjects \ {b.subject} PROVE Accounted(r)' = Accounted(r)
  BY <1>1, ZenonT(60) DEF Accounted
<1> QED BY <1>2, <1>3, <1>4, <1>5, Zenon

Books == Counted /\ AccountingExact /\ OvershootBounded

\* A step that changes no set and no reservation keeps the books.
LEMMA BooksKept ==
    ASSUME Books, SameSets, doubled => doubled', IsFiniteSet(ReservedBytes'),
           TotalVramUsed' <= TotalVramUsed, reserved' = reserved
    PROVE  Books'
<1> USE DEF Books, SameSets
<1>1. Counted'
  BY Zenon DEF Counted
<1>2. AccountingExact'
  BY Zenon DEF AccountingExact, BytesOf
<1>3. OvershootBounded'
  <2>1. BytesOf(Promised)' = BytesOf(Promised)
    BY Zenon DEF BytesOf
  <2>2. /\ TotalVramUsed \in Nat /\ TotalVramUsed' \in Nat
        /\ BytesOf(Promised) \in Nat /\ Overshoot \in Nat
    BY FS_CardinalityType, SumNat, LargestSize, Zenon DEF Counted, TotalVramUsed
  <2> QED BY <2>1, <2>2, GpuAssumption DEF OvershootBounded
<1> QED BY <1>1, <1>2, <1>3, Zenon

\* Every step of request_binding and release_binding keeps the books.
LEMMA BooksStep == BooksInv /\ [GpuNext]_gpuVars => Books'
<1> SUFFICES ASSUME BooksInv, [GpuNext]_gpuVars PROVE Books'
  BY Zenon
<1>0. BooksShape /\ Books
  BY Zenon DEF BooksInv, Books
<1>a. reserved' = reserved => ReservedBytes' = ReservedBytes
  BY Zenon DEF ReservedBytes
<1>b. /\ IsFiniteSet(ReservedBytes) /\ TotalVramUsed \in Nat
      /\ BytesOf(Promised) \in Nat /\ Overshoot \in Nat /\ VramTotal \in Nat
  BY <1>0, FS_CardinalityType, SumNat, LargestSize, GpuAssumption, Zenon DEF Books, Counted, TotalVramUsed
<1>c. SameSets /\ (doubled => doubled') /\ reserved' = reserved => Books'
  <2> SUFFICES ASSUME SameSets, doubled => doubled', reserved' = reserved PROVE Books'
    BY Zenon
  <2>1. IsFiniteSet(ReservedBytes') /\ TotalVramUsed' <= TotalVramUsed
    BY <1>a, <1>b DEF TotalVramUsed
  <2> QED BY <1>0, <2>1, BooksKept, Zenon
<1>1. ASSUME NEW t \in GpuTasks, NEW s \in GpuSubjects, NEW n \in VramSizes, CheckVram(t, s, n)
      PROVE  Books'
  <2> DEFINE b == [id |-> requested + 1, subject |-> s, bytes |-> n]
  <2>1. /\ Promised' = Promised \cup {b} /\ b \notin Promised
        /\ \A r \in GpuSubjects : Accounted(r)' = Accounted(r)
    BY <1>0, <1>1, AskedSets, Zenon
  <2>2. reserved' = reserved /\ doubled' = doubled /\ TotalVramUsed + n <= VramTotal /\ gtask[t] = GpuIdle
    BY <1>1, Zenon DEF CheckVram
  <2>3. b.bytes = n /\ n \in Nat
    BY LargestSize, Zenon
  <2> HIDE DEF b
  <2>4. IsFiniteSet(BytesIn(Promised')) /\ BytesOf(Promised') = BytesOf(Promised) + n
    BY <1>0, <2>1, <2>3, SumAdd, Zenon DEF Books, Counted
  <2>5. BytesOf(Promised) <= Overshoot
    BY <1>0, <2>2, PromisedBound, Zenon DEF BooksShape
  <2>6. Counted'
    BY <1>0, <1>a, <2>1, <2>2, <2>4, Zenon DEF Books, Counted
  <2>7. AccountingExact'
    BY <1>0, <2>1, <2>2, Zenon DEF Books, AccountingExact, BytesOf
  <2>8. OvershootBounded'
    <3>1. TotalVramUsed' = TotalVramUsed
      BY <1>a, <2>2, Zenon DEF TotalVramUsed
    <3>2. BytesOf(Promised)' = BytesOf(Promised) + n
      BY <2>4, Zenon DEF BytesOf, BytesIn
    <3> QED BY <1>b, <2>2, <2>3, <2>5, <3>1, <3>2 DEF OvershootBounded
  <2> QED BY <2>6, <2>7, <2>8, Zenon DEF Books
<1>2. ASSUME NEW t \in GpuTasks, NEW b \in bound, FindBinding(t, b) PROVE Books'
  <2>1. SameSets
    BY <1>0, <1>2, SetsKept, Zenon
  <2>2. reserved' = reserved /\ (doubled => doubled')
    BY <1>2, Zenon DEF FindBinding
  <2> QED BY <1>c, <2>1, <2>2, Zenon
<1>3. ASSUME NEW t \in GpuTasks, AuthorizeSubject(t) PROVE Books'
  <2>1. SameSets
    BY <1>0, <1>3, SetsKept, Zenon
  <2> QED BY <1>c, <1>3, <2>1, Zenon DEF AuthorizeSubject
<1>4. ASSUME NEW t \in GpuTasks, InsertBinding(t) PROVE Books'
  <2>1. SameSets
    BY <1>0, <1>4, SetsKept, Zenon
  <2> QED BY <1>c, <1>4, <2>1, Zenon DEF InsertBinding
<1>5. ASSUME NEW t \in GpuTasks, RemoveBinding(t) PROVE Books'
  <2>1. SameSets
    BY <1>0, <1>5, SetsKept, Zenon
  <2> QED BY <1>c, <1>5, <2>1, Zenon DEF RemoveBinding
<1>6. ASSUME NEW t \in GpuTasks, RevokeSubject(t) PROVE Books'
  <2>1. SameSets
    BY <1>0, <1>6, SetsKept, Zenon
  <2> QED BY <1>c, <1>6, <2>1, Zenon DEF RevokeSubject
<1>7. ASSUME NEW t \in GpuTasks, ReserveVram(t) PROVE Books'
  <2>1. PICK b : b = gtask[t].binding
    BY Zenon
  <2>2. b.subject \in GpuSubjects /\ b.bytes \in VramSizes
    BY <1>0, <1>7, <2>1 DEF BooksShape, GpuTyped, BindingsAsked, ReserveVram, GpuIdle
  <2>3. b.bytes \in Nat
    BY <2>2, LargestSize, Zenon
  <2>4. /\ Promised' = Promised \ {b} /\ b \in Promised
        /\ Accounted(b.subject)' = Accounted(b.subject) \cup {b} /\ b \notin Accounted(b.subject)
        /\ \A r \in GpuSubjects \ {b.subject} : Accounted(r)' = Accounted(r)
    BY <1>0, <1>7, <2>1, ReservedSets, Zenon
  <2>5. reserved' = [reserved EXCEPT ![b.subject] = @ + b.bytes] /\ doubled' = doubled
    BY <1>7, <2>1, Zenon DEF ReserveVram
  <2>6. reserved \in [GpuSubjects -> Nat]
    BY <1>0, Zenon DEF BooksShape, GpuTyped
  <2>7. IsFiniteSet(ReservedBytes') /\ TotalVramUsed' = TotalVramUsed + b.bytes
    BY <1>b, <2>2, <2>3, <2>5, <2>6, TotalGrows, Zenon
  <2>8. IsFiniteSet(BytesIn(Promised')) /\ BytesOf(Promised) = BytesOf(Promised') + b.bytes
    BY <1>0, <2>3, <2>4, SumRemove, Zenon DEF Books, Counted
  <2>9. /\ IsFiniteSet(BytesIn(Accounted(b.subject)'))
        /\ BytesOf(Accounted(b.subject)') = BytesOf(Accounted(b.subject)) + b.bytes
    BY <1>0, <2>2, <2>3, <2>4, SumAdd, Zenon DEF Books, Counted
  <2>10. Counted'
    <3>1. ASSUME NEW r \in GpuSubjects PROVE IsFiniteSet(BytesIn(Accounted(r)'))
      BY <1>0, <2>4, <2>9, Zenon DEF Books, Counted
    <3> QED BY <2>7, <2>8, <3>1, Zenon DEF Counted, BytesIn
  <2>11. AccountingExact'
    <3> SUFFICES ASSUME ~doubled', NEW r \in GpuSubjects PROVE reserved'[r] = BytesOf(Accounted(r)')
      BY Zenon DEF AccountingExact, BytesOf, BytesIn
    <3>1. reserved[r] = BytesOf(Accounted(r))
      BY <1>0, <2>5, Zenon DEF Books, AccountingExact
    <3>2. CASE r = b.subject
      BY <2>2, <2>5, <2>6, <2>9, <3>1, <3>2, Zenon
    <3>3. CASE r # b.subject
      BY <2>2, <2>4, <2>5, <2>6, <3>1, <3>3, Zenon
    <3> QED BY <3>2, <3>3, Zenon
  <2>12. OvershootBounded'
    <3>1. BytesOf(Promised') \in Nat
      BY <2>8, SumNat, Zenon
    <3>2. TotalVramUsed' + BytesOf(Promised') = TotalVramUsed + BytesOf(Promised)
      BY <1>b, <2>3, <2>7, <2>8, <3>1
    <3>3. TotalVramUsed + BytesOf(Promised) <= VramTotal + Overshoot
      BY <1>0, Zenon DEF Books, OvershootBounded
    <3> QED BY <3>2, <3>3, Zenon DEF OvershootBounded, BytesOf, BytesIn
  <2> QED BY <2>10, <2>11, <2>12, Zenon DEF Books
<1>8. ASSUME NEW t \in GpuTasks, ReleaseVram(t) PROVE Books'
  <2>1. PICK b : b = gtask[t].binding
    BY Zenon
  <2>2. b.subject \in GpuSubjects /\ b.bytes \in VramSizes
    BY <1>0, <1>8, <2>1 DEF BooksShape, GpuTyped, BindingsAsked, ReleaseVram, GpuIdle
  <2>3. b.bytes \in Nat
    BY <2>2, LargestSize, Zenon
  <2>4. /\ Promised' = Promised
        /\ Accounted(b.subject)' = Accounted(b.subject) \ {b}
        /\ ~doubled => b \in Accounted(b.subject)
        /\ \A r \in GpuSubjects \ {b.subject} : Accounted(r)' = Accounted(r)
    BY <1>0, <1>8, <2>1, ReleasedSets, Zenon
  <2>5. reserved \in [GpuSubjects -> Nat] /\ doubled' = doubled
    BY <1>0, <1>8, Zenon DEF BooksShape, GpuTyped, ReleaseVram
  <2>6. PICK m \in Nat :
          /\ reserved' = [reserved EXCEPT ![b.subject] = m]
          /\ m <= reserved[b.subject]
          /\ reserved[b.subject] >= b.bytes => m = reserved[b.subject] - b.bytes
    <3> DEFINE k == IF reserved[b.subject] < b.bytes THEN 0 ELSE reserved[b.subject] - b.bytes
    <3>1. reserved' = [reserved EXCEPT ![b.subject] = k]
      BY <1>8, <2>1, Zenon DEF ReleaseVram
    <3>2. /\ k \in Nat /\ k <= reserved[b.subject]
          /\ reserved[b.subject] >= b.bytes => k = reserved[b.subject] - b.bytes
      BY <2>2, <2>3, <2>5
    <3> HIDE DEF k
    <3> QED BY <3>1, <3>2, Zenon
  <2>7. IsFiniteSet(ReservedBytes') /\ TotalVramUsed' <= TotalVramUsed
    BY <1>b, <2>2, <2>5, <2>6, TotalShrinks, Zenon
  <2>8. IsFiniteSet(BytesIn(Accounted(b.subject)'))
    <3>1. BytesIn(Accounted(b.subject)') \in SUBSET BytesIn(Accounted(b.subject))
      BY <2>4, Zenon DEF BytesIn
    <3> QED BY <1>0, <2>2, <3>1, FS_Subset, Zenon DEF Books, Counted
  <2>9. ~doubled => BytesOf(Accounted(b.subject)) = BytesOf(Accounted(b.subject)') + b.bytes
    BY <1>0, <2>2, <2>3, <2>4, SumRemove, Zenon DEF Books, Counted
  <2>10. Counted'
    <3>1. ASSUME NEW r \in GpuSubjects PROVE IsFiniteSet(BytesIn(Accounted(r)'))
      BY <1>0, <2>4, <2>8, Zenon DEF Books, Counted
    <3>2. IsFiniteSet(BytesIn(Promised'))
      BY <1>0, <2>4, Zenon DEF Books, Counted
    <3> QED BY <2>7, <3>1, <3>2, Zenon DEF Counted, BytesIn
  <2>11. AccountingExact'
    <3> SUFFICES ASSUME ~doubled', NEW r \in GpuSubjects PROVE reserved'[r] = BytesOf(Accounted(r)')
      BY Zenon DEF AccountingExact, BytesOf, BytesIn
    <3>1. ~doubled /\ reserved[r] = BytesOf(Accounted(r))
      BY <1>0, <2>5, Zenon DEF Books, AccountingExact
    <3>2. CASE r = b.subject
      <4>1. BytesOf(Accounted(b.subject)') \in Nat
        BY <2>8, SumNat, Zenon
      <4>2. reserved[r] = BytesOf(Accounted(r)') + b.bytes
        BY <2>9, <3>1, <3>2, Zenon
      <4>3. m = BytesOf(Accounted(r)')
        BY <2>3, <2>6, <3>2, <4>1, <4>2
      <4> QED BY <2>2, <2>5, <2>6, <3>2, <4>3, Zenon
    <3>3. CASE r # b.subject
      BY <2>2, <2>4, <2>5, <2>6, <3>1, <3>3, Zenon
    <3> QED BY <3>2, <3>3, Zenon
  <2>12. OvershootBounded'
    <3>1. BytesOf(Promised)' = BytesOf(Promised)
      BY <2>4, Zenon DEF BytesOf, BytesIn
    <3>2. TotalVramUsed' \in Nat
      BY <2>7, FS_CardinalityType, Zenon DEF TotalVramUsed
    <3> QED BY <1>0, <1>b, <2>7, <3>1, <3>2 DEF Books, OvershootBounded
  <2> QED BY <2>10, <2>11, <2>12, Zenon DEF Books
<1>9. CASE UNCHANGED gpuVars
  BY <1>c, <1>9, Zenon DEF gpuVars, SameSets, Promised, Accounted
<1> QED BY <1>1, <1>2, <1>3, <1>4, <1>5, <1>6, <1>7, <1>8, <1>9, Zenon DEF GpuNext

\* bytes_reserved of every subject is the sum of the sizes of the bindings it holds, unless
\* a binding was released by two calls at once, and what overlapping requests can reserve
\* beyond the device is bounded.
THEOREM BooksAreExact == GpuSpec => [](AccountingExact /\ OvershootBounded)
<1>1. GpuInit => BooksInv
  <2> SUFFICES ASSUME GpuInit PROVE BooksInv
    BY Zenon
  <2>1. BooksShape
    BY GpuAssumption, Zenon DEF GpuInit, BooksShape, GpuTyped, AskedOnce, ReleasedOnce, GpuIdle, Asking, Releasing
  <2>2. ReservedBytes = {} /\ Promised = {} /\ \A s \in GpuSubjects : Accounted(s) = {}
    BY DEF GpuInit, GpuIdle, ReservedBytes, Promised, Accounted
  <2>3. BytesIn({}) = {} /\ IsFiniteSet({}) /\ Cardinality({}) = 0
    BY FS_EmptySet, Zenon DEF BytesIn
  <2>4. Counted
    BY <2>2, <2>3, Zenon DEF Counted
  <2>5. AccountingExact
    BY <2>2, <2>3, Zenon DEF AccountingExact, BytesOf, GpuInit
  <2>6. OvershootBounded
    BY <2>2, <2>3, LargestSize, GpuAssumption DEF OvershootBounded, BytesOf, TotalVramUsed
  <2> QED BY <2>1, <2>4, <2>5, <2>6, Zenon DEF BooksInv
<1>2. BooksInv /\ [GpuNext]_gpuVars => BooksInv'
  BY GpuTypedStep, OnceStep, BooksStep, Zenon DEF BooksInv, BooksShape, Books
<1>3. BooksInv => AccountingExact /\ OvershootBounded
  BY Zenon DEF BooksInv
<1> QED BY <1>1, <1>2, <1>3, PTL DEF GpuSpec

\* The books of the GPU driver match the bindings it handed out, for any number of calls,
\* subjects and sizes: request_binding and release_binding with each lock taken on its own.
THEOREM BooksAreSound == GpuSpec => []BooksMatchBindings
<1>1. GpuSpec => [](BoundIsAuthorized /\ AuthorizationEnds)
  BY GpuAuthorization, Zenon
<1>2. GpuSpec => [](AccountingExact /\ OvershootBounded)
  BY BooksAreExact, Zenon
<1>3. AccountingExact /\ OvershootBounded /\ BoundIsAuthorized /\ AuthorizationEnds => BooksMatchBindings
  BY Zenon DEF BooksMatchBindings
<1> QED BY <1>1, <1>2, <1>3, PTL

--------------------------------------------------------------------------------
(* The object store, for every number of objects, versions and chunks: chunk    *)
(* counts are exact, so that the collector, working from a list that may be     *)
(* old, removes no chunk that a version still needs.                            *)

VersionRecord == [object : FsObjects, parents : SUBSET Nat, chunks : Seq(ChunkIds),
                  state : {"VERIFIED", "QUARANTINED", "RETIRED"}]

\* Versions, pointers and the collector's list refer to versions that exist; a pointer
\* and the parents of a version stay within the object.
FsShape ==
    /\ versions \in Seq(VersionRecord)
    /\ \A v \in 1..Len(versions) : \A p \in versions[v].parents :
          p \in 1..Len(versions) /\ p < v /\ versions[p].object = versions[v].object
    /\ current \in [FsObjects -> 0..Len(versions)]
    /\ \A o \in FsObjects : current[o] # 0 =>
          versions[current[o]].object = o /\ versions[current[o]].state # "QUARANTINED"
    /\ purged \subseteq 1..Len(versions)
    /\ gc.at = "versions" => gc.todo \subseteq 1..Len(versions)

\* The counts and the contents.
FsBooks ==
    /\ chunkRef \in [ChunkIds -> Nat]
    /\ \A c \in ChunkIds : IsFiniteSet(References(c)) /\ chunkRef[c] = Cardinality(References(c))
    /\ ContentKept

FsInv == FsShape /\ FsBooks

--------------------------------------------------------------------------------
\* The places of a chunk in a list are finite and counted by Occurrences, and so are
\* its references from one version (register_chunks counts repetitions).
LEMMA PlacesCounted ==
    ASSUME NEW c, NEW chunks \in Seq(ChunkIds), NEW v
    PROVE  /\ IsFiniteSet({v} \X Places(c, chunks))
           /\ Cardinality({v} \X Places(c, chunks)) = Occurrences(c, chunks)
           /\ Occurrences(c, chunks) \in Nat
<1>1. DOMAIN chunks = 1..Len(chunks) /\ Len(chunks) \in Nat
  OBVIOUS
<1>2. IsFiniteSet(1..Len(chunks))
  BY <1>1, FS_Interval
<1>3. Places(c, chunks) \in SUBSET (1..Len(chunks))
  BY <1>1, Zenon DEF Places
<1>4. IsFiniteSet(Places(c, chunks))
  BY <1>2, <1>3, FS_Subset, Zenon
<1>5. IsFiniteSet({v}) /\ Cardinality({v}) = 1
  BY FS_Singleton, Zenon
<1>6. Cardinality(Places(c, chunks)) \in Nat
  BY <1>4, FS_CardinalityType, Zenon
<1>7. Cardinality({v} \X Places(c, chunks)) = 1 * Cardinality(Places(c, chunks))
      /\ IsFiniteSet({v} \X Places(c, chunks))
  BY <1>4, <1>5, FS_Product, Zenon
<1> QED BY <1>6, <1>7 DEF Occurrences

\* A nonempty set of version numbers has a first element (the collector takes the
\* listed versions in order).
LEMMA FirstIsMember ==
    ASSUME NEW ids \in SUBSET Nat, ids # {}
    PROVE  First(ids) \in ids
<1>1. IsWellFoundedOn(OpToRel(<, Nat), Nat)
  BY NatLessThanWellFounded, Zenon
<1>2. PICK x \in ids : \A y \in ids : ~ (<<y, x>> \in OpToRel(<, Nat))
  BY <1>1, WFMin, Zenon
<1>3. \A y \in ids : y \in Nat /\ x \in Nat
  BY Zenon
<1>4. \A y \in ids : ~(y < x)
  BY <1>2, <1>3, Zenon DEF OpToRel
<1>5. \A y \in ids : x <= y
  BY <1>3, <1>4
<1> QED BY <1>5, Zenon DEF First

\* References depend on the chunks of the versions and on what was purged only.
LEMMA ReferencesSame ==
    ASSUME DOMAIN versions' = DOMAIN versions, purged' = purged, NEW c,
           \A v \in DOMAIN versions : versions'[v].chunks = versions[v].chunks
    PROVE  References(c)' = References(c)
BY DEF References, Places

\* So do the contents, together with the chunks stored.
LEMMA ContentSame ==
    ASSUME DOMAIN versions' = DOMAIN versions, purged \subseteq purged', stored \subseteq stored',
           \A v \in DOMAIN versions : versions'[v].chunks = versions[v].chunks,
           ContentKept
    PROVE  ContentKept'
BY Zenon DEF ContentKept, ChunksOf

\* A change of one version's state leaves its place, its chunks, parents and object.
LEMMA StateChanged ==
    ASSUME versions \in Seq(VersionRecord), NEW v \in 1..Len(versions),
           NEW st \in {"VERIFIED", "QUARANTINED", "RETIRED"},
           versions' = [versions EXCEPT ![v].state = st]
    PROVE  /\ versions' \in Seq(VersionRecord)
           /\ Len(versions') = Len(versions)
           /\ DOMAIN versions' = DOMAIN versions
           /\ versions'[v].state = st
           /\ \A w \in 1..Len(versions) : w # v => versions'[w] = versions[w]
           /\ \A w \in 1..Len(versions) : /\ versions'[w].chunks = versions[w].chunks
                                          /\ versions'[w].parents = versions[w].parents
                                          /\ versions'[w].object = versions[w].object
<1>1. versions[v] \in VersionRecord
  OBVIOUS
<1>2. [versions[v] EXCEPT !.state = st] \in VersionRecord
  BY <1>1, Zenon DEF VersionRecord
<1>3. versions' = [versions EXCEPT ![v] = [versions[v] EXCEPT !.state = st]]
  BY Zenon
<1>4. versions' \in Seq(VersionRecord) /\ Len(versions') = Len(versions) /\ DOMAIN versions' = DOMAIN versions
  BY <1>2, <1>3
<1>5. versions'[v] = [versions[v] EXCEPT !.state = st]
  BY <1>3
<1>6. \A w \in 1..Len(versions) : w # v => versions'[w] = versions[w]
  BY <1>3
<1>7. /\ versions'[v].state = st
      /\ versions'[v].chunks = versions[v].chunks
      /\ versions'[v].parents = versions[v].parents
      /\ versions'[v].object = versions[v].object
  BY <1>1, <1>5, ZenonT(60) DEF VersionRecord
<1> QED BY <1>4, <1>6, <1>7, Zenon

--------------------------------------------------------------------------------
\* write_object registers its chunks, so the counts stay exact, and points to the
\* version it wrote.
LEMMA WriteKeepsInv ==
    ASSUME FsInv, NEW o \in FsObjects, NEW parents \in SUBSET DOMAIN versions,
           NEW chunks \in ChunkLists, WriteObject(o, parents, chunks)
    PROVE  FsInv'
<1>1. PICK v, r : /\ v = Len(versions) + 1
                  /\ r = [object |-> o, parents |-> parents, chunks |-> chunks, state |-> "VERIFIED"]
  BY Zenon
<1>2. /\ versions' = Append(versions, r) /\ current' = [current EXCEPT ![o] = v]
      /\ chunkRef' = [c \in ChunkIds |-> chunkRef[c] + Occurrences(c, chunks)]
      /\ stored' = stored \cup {chunks[i] : i \in DOMAIN chunks}
      /\ purged' = purged /\ gc' = gc
      /\ \A p \in parents : versions[p].object = o
  BY <1>1, Zenon DEF WriteObject
<1>3. /\ versions \in Seq(VersionRecord) /\ Len(versions) \in Nat /\ DOMAIN versions = 1..Len(versions)
      /\ chunks \in Seq(ChunkIds)
  BY ChunkListsAreLists DEF FsInv, FsShape
<1>4. /\ r \in VersionRecord /\ r.object = o /\ r.parents = parents /\ r.chunks = chunks
      /\ r.state = "VERIFIED"
  BY <1>1, <1>3 DEF VersionRecord
<1>5. /\ versions' \in Seq(VersionRecord) /\ Len(versions') = v /\ versions'[v] = r
      /\ \A w \in 1..Len(versions) : versions'[w] = versions[w]
      /\ DOMAIN versions' = 1..v
  BY <1>1, <1>2, <1>3, <1>4
<1>6. FsShape'
  <2>1. ASSUME NEW w \in 1..Len(versions'), NEW p \in versions'[w].parents
        PROVE  p \in 1..Len(versions') /\ p < w /\ versions'[p].object = versions'[w].object
    <3>1. CASE w \in 1..Len(versions)
      <4>1. p \in 1..Len(versions) /\ p < w /\ versions[p].object = versions[w].object
        BY <1>5, <2>1, <3>1, Zenon DEF FsInv, FsShape
      <4>2. Len(versions') = Len(versions) + 1 /\ Len(versions) \in Nat
        BY <1>1, <1>3, <1>5, Zenon
      <4>3. p \in 1..Len(versions')
        BY <4>1, <4>2
      <4> QED BY <1>5, <3>1, <4>1, <4>3, Zenon
    <3>2. CASE w = v
      <4>1. p \in 1..Len(versions) /\ versions[p].object = o
        BY <1>2, <1>3, <1>4, <1>5, <2>1, <3>2, Zenon
      <4> QED BY <1>1, <1>3, <1>4, <1>5, <3>2, <4>1
    <3> QED BY <1>1, <1>3, <1>5, <3>1, <3>2
  <2>2. current' \in [FsObjects -> 0..Len(versions')]
    BY <1>1, <1>2, <1>3, <1>5 DEF FsInv, FsShape
  <2>3. ASSUME NEW q \in FsObjects, current'[q] # 0
        PROVE  versions'[current'[q]].object = q /\ versions'[current'[q]].state # "QUARANTINED"
    <3>1. CASE q = o
      <4>1. current'[q] = v
        BY <1>2, <3>1, Zenon DEF FsInv, FsShape
      <4> QED BY <1>4, <1>5, <3>1, <4>1, Zenon
    <3>2. CASE q # o
      <4>1. current'[q] = current[q] /\ current[q] \in 1..Len(versions)
        BY <1>2, <1>3, <2>3, <3>2 DEF FsInv, FsShape
      <4>2. versions[current[q]].object = q /\ versions[current[q]].state # "QUARANTINED"
        BY <2>3, <4>1, Zenon DEF FsInv, FsShape
      <4> QED BY <1>5, <4>1, <4>2, Zenon
    <3> QED BY <3>1, <3>2, Zenon
  <2>4. purged' \subseteq 1..Len(versions') /\ (gc'.at = "versions" => gc'.todo \subseteq 1..Len(versions'))
    BY <1>1, <1>2, <1>3, <1>5 DEF FsInv, FsShape
  <2> QED BY <1>5, <2>1, <2>2, <2>3, <2>4, Zenon DEF FsShape
<1>7. FsBooks'
  <2>0. v \notin purged /\ v \notin DOMAIN versions
    BY <1>1, <1>3 DEF FsInv, FsShape
  <2>1. ASSUME NEW c \in ChunkIds
        PROVE  /\ IsFiniteSet(References(c)')
               /\ chunkRef'[c] = Cardinality(References(c)')
               /\ chunkRef'[c] \in Nat
    <3>1. PICK new : new = {v} \X Places(c, chunks)
      BY Zenon
    <3>2. IsFiniteSet(new) /\ Cardinality(new) = Occurrences(c, chunks) /\ Occurrences(c, chunks) \in Nat
      BY <1>3, <3>1, PlacesCounted, ZenonT(40)
    <3>3. (DOMAIN versions') \ purged' = ((DOMAIN versions) \ purged) \cup {v}
      BY <1>1, <1>2, <1>3, <1>5, <2>0
    <3>4. \A w \in (DOMAIN versions) \ purged :
             {w} \X Places(c, versions'[w].chunks) = {w} \X Places(c, versions[w].chunks)
      BY <1>3, <1>5, Zenon
    <3>5. {v} \X Places(c, versions'[v].chunks) = new
      BY <1>4, <1>5, <3>1, Zenon
    <3>6. References(c)' = References(c) \cup new
      <4>1. \A x : x \in References(c)' <=>
                   \E w \in (DOMAIN versions') \ purged' : x \in {w} \X Places(c, versions'[w].chunks)
        BY ZenonT(40) DEF References, Places
      <4>2. \A x : x \in References(c) <=>
                   \E w \in (DOMAIN versions) \ purged : x \in {w} \X Places(c, versions[w].chunks)
        BY Zenon DEF References
      <4>3. \A x : x \in References(c)' <=> x \in References(c) \/ x \in new
        BY <3>3, <3>4, <3>5, <4>1, <4>2, Zenon
      <4> QED BY <4>3, Zenon
    <3>7. References(c) \cap new = {}
      BY <2>0, <3>1 DEF References
    <3>8. /\ IsFiniteSet(References(c) \cup new)
          /\ Cardinality(References(c) \cup new)
               = Cardinality(References(c)) + Cardinality(new) - Cardinality(References(c) \cap new)
      BY <3>2, FS_Union, Zenon DEF FsInv, FsBooks
    <3>9. Cardinality(References(c) \cap new) = 0
      BY <3>7, FS_EmptySet, Zenon
    <3>10. chunkRef[c] = Cardinality(References(c)) /\ chunkRef[c] \in Nat
      BY Zenon DEF FsInv, FsBooks
    <3> QED BY <1>2, <3>2, <3>6, <3>8, <3>9, <3>10
  <2>2. chunkRef' \in [ChunkIds -> Nat]
    BY <1>2, <2>1, ZenonT(40)
  <2>3. ContentKept'
    <3> SUFFICES ASSUME NEW w \in DOMAIN versions', w \notin purged', NEW x \in ChunksOf(w)'
                 PROVE  x \in stored'
      BY Zenon DEF ContentKept
    <3>1. CASE w = v
      BY <1>2, <1>4, <1>5, <3>1, Zenon DEF ChunksOf
    <3>2. CASE w \in 1..Len(versions)
      <4>1. versions'[w] = versions[w]
        BY <1>5, <3>2, Zenon
      <4>2. x \in ChunksOf(w)
        BY <4>1, Zenon DEF ChunksOf
      <4> QED BY <1>2, <1>3, <3>2, <4>2, Zenon DEF FsInv, FsBooks, ContentKept
    <3> QED BY <1>1, <1>3, <1>5, <3>1, <3>2
  <2> QED BY <2>1, <2>2, <2>3, Zenon DEF FsBooks
<1> QED BY <1>6, <1>7, Zenon DEF FsInv

--------------------------------------------------------------------------------
\* A step that keeps the chunks of every version, the counts, what was purged and
\* what is stored keeps the books.
LEMMA BooksSame ==
    ASSUME FsBooks, DOMAIN versions' = DOMAIN versions, UNCHANGED <<chunkRef, stored, purged>>,
           \A v \in DOMAIN versions : versions'[v].chunks = versions[v].chunks
    PROVE  FsBooks'
<1>1. \A c : References(c)' = References(c)
  BY ReferencesSame, Zenon
<1>2. ContentKept'
  BY ContentSame, Zenon DEF FsBooks
<1>3. chunkRef' \in [ChunkIds -> Nat]
  BY Zenon DEF FsBooks
<1>4. \A c \in ChunkIds : IsFiniteSet(References(c)') /\ chunkRef'[c] = Cardinality(References(c)')
  BY <1>1, Zenon DEF FsBooks
<1> QED BY <1>2, <1>3, <1>4, Zenon DEF FsBooks

\* A change of state keeps the shape when the pointers still avoid quarantined versions.
LEMMA ShapeKept ==
    ASSUME FsShape, NEW v \in 1..Len(versions), NEW st \in {"VERIFIED", "QUARANTINED", "RETIRED"},
           versions' = [versions EXCEPT ![v].state = st],
           current' \in [FsObjects -> 0..Len(versions)],
           \A o \in FsObjects : current'[o] # 0 =>
              versions'[current'[o]].object = o /\ versions'[current'[o]].state # "QUARANTINED",
           purged' \subseteq 1..Len(versions),
           gc'.at = "versions" => gc'.todo \subseteq 1..Len(versions)
    PROVE  FsShape'
<1>1. versions \in Seq(VersionRecord)
  BY Zenon DEF FsShape
<1>2. /\ versions' \in Seq(VersionRecord) /\ Len(versions') = Len(versions)
      /\ \A w \in 1..Len(versions) : /\ versions'[w].parents = versions[w].parents
                                     /\ versions'[w].object = versions[w].object
  BY <1>1, StateChanged, Zenon
<1>3. \A w \in 1..Len(versions') : \A p \in versions'[w].parents :
          p \in 1..Len(versions') /\ p < w /\ versions'[p].object = versions'[w].object
  BY <1>2 DEF FsShape
<1> QED BY <1>2, <1>3, Zenon DEF FsShape

\* apply_quarantine_entry leaves a current version for a verified parent.
LEMMA QuarantineKeepsInv ==
    ASSUME FsInv, NEW v \in DOMAIN versions, ApplyQuarantineEntry(v)
    PROVE  FsInv'
<1>1. /\ versions \in Seq(VersionRecord) /\ DOMAIN versions = 1..Len(versions) /\ Len(versions) \in Nat
      /\ v \in 1..Len(versions)
  BY DEF FsInv, FsShape
<1>2. PICK o : o = versions[v].object
  BY Zenon
<1>3. /\ versions' = [versions EXCEPT ![v].state = "QUARANTINED"]
      /\ \/ current[o] # v /\ UNCHANGED current
         \/ current[o] = v /\ \E p \in VerifiedParents(v) : current' = [current EXCEPT ![o] = p]
      /\ UNCHANGED <<chunkRef, stored, purged, gc>>
  BY <1>2, Zenon DEF ApplyQuarantineEntry
<1>4. /\ Len(versions') = Len(versions) /\ DOMAIN versions' = DOMAIN versions
      /\ \A w \in 1..Len(versions) : w # v => versions'[w] = versions[w]
      /\ \A w \in 1..Len(versions) : /\ versions'[w].chunks = versions[w].chunks
                                     /\ versions'[w].object = versions[w].object
  BY <1>1, <1>3, StateChanged, Zenon
<1>5. \A w \in 1..Len(versions) : versions[w].state # "QUARANTINED" /\ w # v => versions'[w].state # "QUARANTINED"
  BY <1>4, Zenon
<1>6. \A q \in FsObjects : current[q] # 0 =>
          /\ current[q] \in 1..Len(versions) /\ versions[current[q]].object = q
          /\ versions[current[q]].state # "QUARANTINED"
  BY <1>1 DEF FsInv, FsShape
<1>7. /\ current' \in [FsObjects -> 0..Len(versions)]
      /\ \A q \in FsObjects : current'[q] # 0 =>
            versions'[current'[q]].object = q /\ versions'[current'[q]].state # "QUARANTINED"
  <2>1. CASE current[o] # v /\ UNCHANGED current
    <3>1. \A q \in FsObjects : current[q] # v
      BY <1>1, <1>2, <1>6, <2>1
    <3>2. current' \in [FsObjects -> 0..Len(versions)]
      BY <2>1, Zenon DEF FsInv, FsShape
    <3> QED BY <1>4, <1>5, <1>6, <2>1, <3>1, <3>2, Zenon
  <2>2. ASSUME current[o] = v, NEW p \in VerifiedParents(v), current' = [current EXCEPT ![o] = p]
        PROVE  /\ current' \in [FsObjects -> 0..Len(versions)]
               /\ \A q \in FsObjects : current'[q] # 0 =>
                     versions'[current'[q]].object = q /\ versions'[current'[q]].state # "QUARANTINED"
    <3>1. p \in 1..Len(versions) /\ p < v /\ versions[p].object = o /\ versions[p].state = "VERIFIED"
      BY <1>1, <1>2, Zenon DEF VerifiedParents, FsInv, FsShape
    <3>2. p # v
      BY <1>1, <3>1
    <3>3. current' \in [FsObjects -> 0..Len(versions)]
      <4>1. p \in 0..Len(versions) /\ current \in [FsObjects -> 0..Len(versions)]
        BY <1>1, <3>1 DEF FsInv, FsShape
      <4> QED BY <2>2, <4>1, Zenon
    <3>4. ASSUME NEW q \in FsObjects, current'[q] # 0
          PROVE  versions'[current'[q]].object = q /\ versions'[current'[q]].state # "QUARANTINED"
      <4>1. CASE q = o
        BY <1>4, <1>5, <2>2, <3>1, <3>2, <4>1, Zenon DEF FsInv, FsShape
      <4>2. CASE q # o
        <5>1. current'[q] = current[q]
          BY <2>2, <4>2, Zenon DEF FsInv, FsShape
        <5>2. current[q] # v
          BY <1>2, <1>6, <3>4, <4>2, <5>1, Zenon
        <5> QED BY <1>4, <1>5, <1>6, <3>4, <5>1, <5>2, ZenonT(40)
      <4> QED BY <4>1, <4>2, Zenon
    <3> QED BY <3>3, <3>4, Zenon
  <2> QED BY <1>3, <2>1, <2>2, Zenon
<1>8. FsShape'
  BY <1>1, <1>3, <1>7, ShapeKept, Zenon DEF FsInv, FsShape
<1>9. FsBooks'
  BY <1>1, <1>3, <1>4, BooksSame, Zenon DEF FsInv
<1> QED BY <1>8, <1>9, Zenon DEF FsInv

\* A version that is released or retired is pointed to as before.
LEMMA RetireKeepsShape ==
    ASSUME FsShape, NEW v \in 1..Len(versions), NEW st \in {"VERIFIED", "RETIRED"},
           versions' = [versions EXCEPT ![v].state = st], current' = current,
           purged' \subseteq 1..Len(versions),
           gc'.at = "versions" => gc'.todo \subseteq 1..Len(versions)
    PROVE  FsShape'
<1>1. versions \in Seq(VersionRecord) /\ current \in [FsObjects -> 0..Len(versions)] /\ Len(versions) \in Nat
  BY DEF FsShape
<1>2. /\ versions'[v].state = st
      /\ \A w \in 1..Len(versions) : w # v => versions'[w] = versions[w]
      /\ \A w \in 1..Len(versions) : versions'[w].object = versions[w].object
  BY <1>1, StateChanged, Zenon
<1>3. ASSUME NEW o \in FsObjects, current[o] # 0
      PROVE  versions'[current[o]].object = o /\ versions'[current[o]].state # "QUARANTINED"
  <2>1. current[o] \in 1..Len(versions)
    BY <1>1, <1>3
  <2>2. versions[current[o]].object = o /\ versions[current[o]].state # "QUARANTINED"
    BY <1>3, Zenon DEF FsShape
  <2> QED BY <1>2, <2>1, <2>2, Zenon
<1> QED BY <1>1, <1>3, ShapeKept, Zenon

\* purge_version takes the references of one version off the counts, once.
LEMMA PurgeKeepsBooks ==
    ASSUME FsInv, NEW v \in 1..Len(versions), Purge(v), stored' = stored
    PROVE  FsBooks'
<1>1. /\ versions \in Seq(VersionRecord) /\ DOMAIN versions = 1..Len(versions)
      /\ versions[v].chunks \in Seq(ChunkIds)
  <2>1. versions \in Seq(VersionRecord)
    BY Zenon DEF FsInv, FsShape
  <2>2. versions[v] \in VersionRecord /\ DOMAIN versions = 1..Len(versions)
    BY <2>1
  <2> QED BY <2>1, <2>2, Zenon DEF VersionRecord
<1>2. /\ DOMAIN versions' = DOMAIN versions
      /\ \A w \in DOMAIN versions : versions'[w].chunks = versions[w].chunks
  BY <1>1, StateChanged, Zenon DEF Purge
<1>3. v \notin purged /\ purged' = purged \cup {v}
  BY Zenon DEF Purge
<1>4. ASSUME NEW c \in ChunkIds
      PROVE  /\ IsFiniteSet(References(c)')
             /\ chunkRef'[c] = Cardinality(References(c)')
             /\ chunkRef'[c] \in Nat
  <2>1. PICK old, n : old = {v} \X Places(c, versions[v].chunks) /\ n = Occurrences(c, versions[v].chunks)
    BY Zenon
  <2>2. IsFiniteSet(old) /\ Cardinality(old) = n /\ n \in Nat
    BY <1>1, <2>1, PlacesCounted, Zenon
  <2>3. (DOMAIN versions') \ purged' = ((DOMAIN versions) \ purged) \ {v}
    BY <1>2, <1>3, Zenon
  <2>4. \A x : x \in References(c)' <=>
               \E w \in (DOMAIN versions') \ purged' : x \in {w} \X Places(c, versions'[w].chunks)
    BY ZenonT(30) DEF References, Places
  <2>5. \A x : x \in References(c) <=>
               \E w \in (DOMAIN versions) \ purged : x \in {w} \X Places(c, versions[w].chunks)
    BY Zenon DEF References
  <2>6. \A w \in DOMAIN versions : w # v => ({w} \X Places(c, versions[w].chunks)) \cap old = {}
    BY <2>1, Zenon
  <2>7. References(c)' = References(c) \ old
    <3>1. \A x : x \in References(c)' => x \in References(c) /\ x \notin old
      BY <1>2, <2>3, <2>4, <2>5, <2>6, Zenon
    <3>2. \A x : x \in References(c) /\ x \notin old => x \in References(c)'
      BY <1>2, <2>1, <2>3, <2>4, <2>5, Zenon
    <3> QED BY <3>1, <3>2, Zenon
  <2>8. References(c) \cap old = old
    BY <1>1, <1>3, <2>1, <2>5, Zenon
  <2>9. IsFiniteSet(References(c)) /\ chunkRef[c] = Cardinality(References(c)) /\ chunkRef[c] \in Nat
    BY Zenon DEF FsInv, FsBooks
  <2>10. IsFiniteSet(References(c) \ old) /\ Cardinality(References(c) \ old) = chunkRef[c] - n
    <3>1. PICK refs : refs = References(c)
      BY Zenon
    <3>2. IsFiniteSet(refs) /\ refs \cap old = old
      BY <2>8, <2>9, <3>1, Zenon
    <3>3. IsFiniteSet(refs \ old) /\ Cardinality(refs \ old) = Cardinality(refs) - Cardinality(refs \cap old)
      BY <3>2, FS_Difference, Zenon
    <3> QED BY <2>2, <2>9, <3>1, <3>2, <3>3, Zenon
  <2>11. Cardinality(References(c) \ old) \in Nat
    BY <2>10, FS_CardinalityType, Zenon
  <2>12. chunkRef[c] >= n
    BY <2>2, <2>9, <2>10, <2>11
  <2>13. chunkRef'[c] = chunkRef[c] - n
    BY <2>1, <2>12, Zenon DEF Purge
  <2> QED BY <2>7, <2>10, <2>11, <2>13, Zenon
<1>5. chunkRef' \in [ChunkIds -> Nat]
  <2>1. DOMAIN chunkRef' = ChunkIds /\ chunkRef' = [c \in ChunkIds |-> chunkRef'[c]]
    BY Zenon DEF Purge
  <2> QED BY <1>4, <2>1, Zenon
<1>6. ContentKept'
  BY <1>2, <1>3, ContentSame, Zenon DEF FsInv, FsBooks
<1> QED BY <1>4, <1>5, <1>6, Zenon DEF FsBooks

\* purge_version keeps the invariant, whoever calls it.
LEMMA PurgeKeepsInv ==
    ASSUME FsInv, NEW v \in 1..Len(versions), Purge(v), UNCHANGED <<current, stored>>,
           gc'.at = "versions" => gc'.todo \subseteq 1..Len(versions)
    PROVE  FsInv'
<1>1. /\ versions' = [versions EXCEPT ![v].state = "RETIRED"]
      /\ purged' \subseteq 1..Len(versions)
  BY Zenon DEF Purge, FsInv, FsShape
<1>2. FsShape'
  BY <1>1, RetireKeepsShape, Zenon DEF FsInv
<1> QED BY <1>2, PurgeKeepsBooks, Zenon DEF FsInv

\* reclaim_chunk removes a chunk that nothing refers to by the count, hence nothing.
LEMMA ReclaimKeepsContent ==
    ASSUME FsInv, NEW c, ReclaimChunk(c), UNCHANGED <<versions, purged>>
    PROVE  ContentKept'
<1> SUFFICES ASSUME NEW v \in DOMAIN versions, v \notin purged, NEW x \in ChunksOf(v), x \notin stored'
             PROVE  FALSE
  BY Zenon DEF ContentKept, ChunksOf
<1>1. x \in stored /\ x = c /\ chunkRef[c] = 0
  BY Zenon DEF FsInv, FsBooks, ContentKept, ReclaimChunk
<1>2. PICK i \in DOMAIN versions[v].chunks : versions[v].chunks[i] = c
  BY <1>1, Zenon DEF ChunksOf
<1>3. c \in ChunkIds
  <2>1. versions \in Seq(VersionRecord)
    BY Zenon DEF FsInv, FsShape
  <2>2. versions[v] \in VersionRecord
    BY <2>1
  <2>3. versions[v].chunks \in Seq(ChunkIds)
    BY <2>2, Zenon DEF VersionRecord
  <2> QED BY <1>2, <2>3
<1>4. <<v, i>> \in References(c)
  BY <1>2 DEF References, Places
<1>5. IsFiniteSet(References(c)) /\ Cardinality(References(c)) = 0
  BY <1>1, <1>3, Zenon DEF FsInv, FsBooks
<1> QED BY <1>4, <1>5, FS_EmptySet, Zenon

--------------------------------------------------------------------------------
\* The counts are exact, the content of live versions is kept and no pointer names a
\* quarantined version, whatever writes, quarantines, purges and collections overlap
\* (write_object, purge_version, reclaim_chunk, run_pass).
THEOREM StoreKeepsContent == FsSpec => [](ContentSafe /\ CurrentNotQuarantined)
<1>1. FsInit => FsInv
  <2> SUFFICES ASSUME FsInit PROVE FsInv
    BY Zenon
  <2>1. versions = <<>> /\ DOMAIN versions = {} /\ Len(versions) = 0 /\ versions \in Seq(VersionRecord)
    BY DEF FsInit
  <2>2. FsShape
    BY <2>1 DEF FsInit, FsShape, GcIdle
  <2>3. \A c \in ChunkIds : References(c) = {}
    BY <2>1, Zenon DEF References
  <2>4. ContentKept
    BY <2>1, Zenon DEF ContentKept
  <2>5. FsBooks
    BY <2>3, <2>4, FS_EmptySet, Zenon DEF FsInit, FsBooks
  <2> QED BY <2>2, <2>5, Zenon DEF FsInv
<1>2. FsInv /\ [FsNext]_fsVars => FsInv'
  <2> SUFFICES ASSUME FsInv, [FsNext]_fsVars PROVE FsInv'
    BY Zenon
  <2>0. DOMAIN versions = 1..Len(versions)
    BY DEF FsInv, FsShape
  <2>1. ASSUME NEW o \in FsObjects, NEW parents \in SUBSET DOMAIN versions, NEW chunks \in ChunkLists,
               WriteObject(o, parents, chunks)
        PROVE  FsInv'
    BY <2>1, WriteKeepsInv, Zenon
  <2>2. ASSUME NEW v \in DOMAIN versions, ApplyQuarantineEntry(v) PROVE FsInv'
    BY <2>2, QuarantineKeepsInv, Zenon
  <2>3. ASSUME NEW v \in DOMAIN versions, NEW disposition \in {"RELEASED", "PURGED"},
               ApplyQuarantineExit(v, disposition)
        PROVE  FsInv'
    <3>1. PICK st \in {"VERIFIED", "RETIRED"} : versions' = [versions EXCEPT ![v].state = st]
      BY <2>3, Zenon DEF ApplyQuarantineExit
    <3>2. UNCHANGED <<current, chunkRef, stored, purged, gc>>
      BY <2>3, Zenon DEF ApplyQuarantineExit
    <3>3. /\ purged' \subseteq 1..Len(versions) /\ versions \in Seq(VersionRecord)
          /\ gc'.at = "versions" => gc'.todo \subseteq 1..Len(versions)
      BY <3>2, Zenon DEF FsInv, FsShape
    <3>4. FsShape'
      BY <2>0, <3>1, <3>2, <3>3, RetireKeepsShape, Zenon DEF FsInv
    <3>5. DOMAIN versions' = DOMAIN versions /\ \A w \in DOMAIN versions : versions'[w].chunks = versions[w].chunks
      BY <2>0, <3>1, <3>3, StateChanged, Zenon
    <3>6. FsBooks'
      BY <3>2, <3>5, BooksSame, Zenon DEF FsInv
    <3> QED BY <3>4, <3>6, Zenon DEF FsInv
  <2>4. ASSUME NEW v \in DOMAIN versions, PurgeVersion(v) PROVE FsInv'
    BY <2>0, <2>4, PurgeKeepsInv, Zenon DEF PurgeVersion, FsInv, FsShape
  <2>5. ASSUME UNCHANGED <<versions, current, chunkRef, stored, purged>>,
               gc'.at = "versions" => gc'.todo \subseteq 1..Len(versions)
        PROVE  FsInv'
    <3>1. FsShape'
      BY <2>5, Zenon DEF FsInv, FsShape
    <3> QED BY <2>5, <3>1, BooksSame, Zenon DEF FsInv
  <2>6. CASE GcListVersions
    BY <2>0, <2>5, <2>6, Zenon DEF GcListVersions, Truncated
  <2>7. CASE GcPurgeVersion
    <3>1. PICK v : v = First(gc.todo)
      BY Zenon
    <3>2. /\ gc' = [gc EXCEPT !.todo = @ \ {v}] /\ UNCHANGED <<current, stored>>
          /\ \/ UNCHANGED <<versions, chunkRef, purged>>
             \/ Purge(v)
          /\ gc.at = "versions" /\ gc.todo # {}
      BY <2>7, <3>1, Zenon DEF GcPurgeVersion
    <3>3. gc.todo \subseteq 1..Len(versions)
      BY <3>2, Zenon DEF FsInv, FsShape
    <3>4. v \in 1..Len(versions)
      BY <3>1, <3>2, <3>3, FirstIsMember
    <3>5. gc'.at = "versions" => gc'.todo \subseteq 1..Len(versions)
      BY <3>2, <3>3
    <3> QED BY <2>5, <3>2, <3>4, <3>5, PurgeKeepsInv, Zenon
  <2>8. CASE GcListChunks \/ GcReport
    BY <2>5, <2>8 DEF GcListChunks, GcReport, GcIdle
  <2>9. CASE GcReclaimChunk
    <3>1. PICK c : c = First(gc.todo)
      BY Zenon
    <3>2. ReclaimChunk(c) /\ UNCHANGED <<versions, current, purged, chunkRef>>
      BY <2>9, <3>1, Zenon DEF GcReclaimChunk, ReclaimChunk
    <3>3. gc'.at # "versions"
      BY <2>9 DEF GcReclaimChunk
    <3>4. FsShape'
      BY <3>2, <3>3, Zenon DEF FsInv, FsShape
    <3>5. ContentKept'
      BY <3>2, ReclaimKeepsContent, Zenon
    <3>6. \A c2 : References(c2)' = References(c2)
      BY <3>2, ReferencesSame, Zenon
    <3>7. FsBooks'
      BY <3>2, <3>5, <3>6, Zenon DEF FsInv, FsBooks
    <3> QED BY <3>4, <3>7, Zenon DEF FsInv
  <2>10. CASE UNCHANGED fsVars
    BY <2>5, <2>10, Zenon DEF fsVars, FsInv, FsShape
  <2> QED BY <2>1, <2>2, <2>3, <2>4, <2>6, <2>7, <2>8, <2>9, <2>10, ZenonT(40) DEF FsNext
<1>3. FsInv => ContentSafe /\ CurrentNotQuarantined
  BY Zenon DEF FsInv, FsShape, FsBooks, ContentSafe, RefCountsExact, CurrentNotQuarantined
<1> QED BY <1>1, <1>2, <1>3, PTL DEF FsSpec

--------------------------------------------------------------------------------
(* The policy kernel: who has swapped the slot still has grants to clear.           *)

AdminFields == {"at", "call", "bundle", "displaced", "old"}
GrantFields == {"expires", "revoked", "under"}
ToClear(pc) == pc.at \in {"push", "clear", "clearRestored"}

PolicyInv ==
    /\ DOMAIN adminPc = Admins
    /\ \A a \in Admins : DOMAIN adminPc[a] = AdminFields
    /\ \A g \in grants : DOMAIN g = GrantFields
    /\ \A g \in grants : g.under = activeBundle \/ \E a \in Admins : ToClear(adminPc[a])

\* PolicyInv is inductive: a step that changes the bundle, or gives up clearing the
\* grants, is SwapSlot or ClearGrants.
LEMMA PolicyInductive == PolicyInv /\ [PolicyNext]_policyVars => PolicyInv'
<1> SUFFICES ASSUME PolicyInv, [PolicyNext]_policyVars PROVE PolicyInv'
  BY Zenon
<1>0. /\ DOMAIN adminPc = Admins
      /\ \A a \in Admins : DOMAIN adminPc[a] = AdminFields
      /\ \A g \in grants : DOMAIN g = GrantFields
      /\ \A g \in grants : g.under = activeBundle \/ \E a \in Admins : ToClear(adminPc[a])
  BY Zenon DEF PolicyInv
\* A call that moves on, and does not leave the grants uncleared.
<1>1. ASSUME NEW a \in Admins, NEW pc, DOMAIN pc = AdminFields,
             adminPc' = [adminPc EXCEPT ![a] = pc], ToClear(adminPc[a]) => ToClear(pc),
             UNCHANGED <<activeBundle, grants>>
      PROVE  PolicyInv'
  <2>1. DOMAIN adminPc' = Admins /\ \A b \in Admins : DOMAIN adminPc'[b] = AdminFields
    BY <1>0, <1>1, Zenon
  <2>2. \A b \in Admins : ToClear(adminPc[b]) => ToClear(adminPc'[b])
    BY <1>0, <1>1, Zenon
  <2> QED BY <1>0, <1>1, <2>1, <2>2, Zenon DEF PolicyInv
<1>2. DOMAIN IdleAdmin = AdminFields
  BY Zenon DEF IdleAdmin, AdminFields
<1>3. ASSUME NEW a \in Admins, NEW v \in Versions, LoadBundle(a, v) PROVE PolicyInv'
  BY <1>1, <1>3, Zenon DEF LoadBundle, ToClear, AdminFields
<1>4. ASSUME NEW a \in Admins, NEW call \in {"rollback", "refused"}, RollbackBundle(a, call) PROVE PolicyInv'
  BY <1>1, <1>4, Zenon DEF RollbackBundle, ToClear, AdminFields
<1>5. ASSUME NEW a \in Admins, SwapSlot(a) PROVE PolicyInv'
  <2>1. adminPc' = [adminPc EXCEPT ![a].at = CASE @ = "restore" -> "clearRestored"
                                               [] @ = "slot" /\ activeBundle = 0 -> "clear"
                                               [] OTHER -> "push",
                                   ![a].displaced = activeBundle]
        /\ adminPc[a].at \in {"slot", "restore"} /\ grants' = grants
    BY <1>5, Zenon DEF SwapSlot
  <2>2. DOMAIN adminPc' = Admins /\ \A b \in Admins : DOMAIN adminPc'[b] = AdminFields
    BY <1>0, <2>1, Zenon
  <2>3. adminPc'[a].at \in {"push", "clear", "clearRestored"}
    BY <1>0, <2>1, Zenon DEF AdminFields
  <2> QED BY <1>0, <2>1, <2>2, <2>3, Zenon DEF PolicyInv, ToClear
<1>6. ASSUME NEW a \in Admins, PushDisplaced(a) PROVE PolicyInv'
  <2>1. adminPc' = [adminPc EXCEPT ![a] = [adminPc[a] EXCEPT !.at = "clear"]]
        /\ UNCHANGED <<activeBundle, grants>>
    BY <1>6, Zenon DEF PushDisplaced, AdminAt
  <2>2. DOMAIN [adminPc[a] EXCEPT !.at = "clear"] = AdminFields
        /\ ToClear([adminPc[a] EXCEPT !.at = "clear"])
    BY <1>0, Zenon DEF ToClear, AdminFields
  <2> QED BY <1>1, <2>1, <2>2, Zenon
<1>7. ASSUME NEW a \in Admins, ClearGrants(a) PROVE PolicyInv'
  <2>1. grants' = {} /\ \E at : AdminAt(a, at)
    BY <1>7, Zenon DEF ClearGrants
  <2>2. PICK at : AdminAt(a, at)
    BY <2>1, Zenon
  <2>3. DOMAIN adminPc' = Admins /\ \A b \in Admins : DOMAIN adminPc'[b] = AdminFields
    BY <1>0, <1>2, <2>2, Zenon DEF AdminAt
  <2> QED BY <2>1, <2>3, Zenon DEF PolicyInv
<1>8. ASSUME NEW a \in Admins, SwapLabel(a) PROVE PolicyInv'
  <2>1. /\ adminPc' = [adminPc EXCEPT ![a].at = "invalidate", ![a].old = label]
        /\ adminPc[a].at = "label" /\ UNCHANGED <<activeBundle, grants>>
    BY <1>8, Zenon DEF SwapLabel
  <2>2. DOMAIN adminPc' = Admins /\ \A b \in Admins : DOMAIN adminPc'[b] = AdminFields
    BY <1>0, <2>1, Zenon
  <2>3. \A b \in Admins : ToClear(adminPc[b]) => ToClear(adminPc'[b])
    BY <1>0, <2>1, Zenon DEF ToClear
  <2> QED BY <1>0, <2>1, <2>2, <2>3, Zenon DEF PolicyInv
<1>9. ASSUME NEW a \in Admins, InvalidateForBundle(a) PROVE PolicyInv'
  <2>1. adminPc' = [adminPc EXCEPT ![a] = IdleAdmin] /\ adminPc[a].at = "invalidate"
        /\ UNCHANGED <<activeBundle, grants>>
    BY <1>9, Zenon DEF InvalidateForBundle, AdminAt
  <2> QED BY <1>1, <1>2, <2>1, Zenon DEF ToClear
\* Steps that leave bundle and administrators alone.
<1>10. ASSUME UNCHANGED <<activeBundle, adminPc>>,
              \A g \in grants' : /\ DOMAIN g = GrantFields
                                 /\ g.under = activeBundle \/ \E h \in grants : g.under = h.under
       PROVE  PolicyInv'
  BY <1>0, <1>10, Zenon DEF PolicyInv
<1>11. CASE RequestOverride
  BY <1>0, <1>10, <1>11 DEF RequestOverride, GrantFields
<1>12. ASSUME NEW g \in grants, RevokeGrant(g) PROVE PolicyInv'
  <2>1. DOMAIN [g EXCEPT !.revoked = TRUE] = GrantFields /\ [g EXCEPT !.revoked = TRUE].under = g.under
    BY <1>0, Zenon DEF GrantFields
  <2> QED BY <1>0, <1>10, <1>12, <2>1, Zenon DEF RevokeGrant
<1>13. CASE PruneExpired
  BY <1>0, <1>10, <1>13, Zenon DEF PruneExpired
<1>14. CASE PolicyTick \/ UNCHANGED policyVars
  BY <1>0, <1>10, <1>14, Zenon DEF PolicyTick, policyVars
<1>15. ASSUME NEW e \in Evaluators, EvalStep(e) PROVE PolicyInv'
  <2>1. UNCHANGED <<activeBundle, adminPc, grants>>
    BY <1>15, Zenon DEF EvalStep, BuildContext, CacheLookup, CachePut, EvaluateReturns, Evaluate
  <2> QED BY <1>0, <1>10, <2>1, Zenon
<1> QED BY <1>3, <1>4, <1>5, <1>6, <1>7, <1>8, <1>9, <1>11, <1>12, <1>13, <1>14, <1>15, ZenonT(30)
        DEF PolicyNext, AdminStep

\* Override grants never outlive the bundle they were given under, for any number of
\* concurrent loads, rollbacks and evaluations (kernel.rs, override_boundary.rs).
THEOREM GrantsFollowBundle == PolicySpec => []GrantsEndWithBundle
<1>1. PolicyInit => PolicyInv
  BY DEF PolicyInit, PolicyInv, IdleAdmin, AdminFields
<1>2. PolicyInv => GrantsEndWithBundle
  BY Zenon DEF PolicyInv, GrantsEndWithBundle, Flipping, ToClear
<1> QED BY <1>1, <1>2, PolicyInductive, PTL DEF PolicySpec

--------------------------------------------------------------------------------
(* What the policy kernel serves. The invariant says what every entry of the    *)
(* cache, and every evaluation between its lookup and its put, knows of the     *)
(* bundle it was decided under: an entry that was not put late belongs to the   *)
(* present bundle, or the call that replaced its bundle has yet to sweep it.    *)

Decided == {"DENY", "ALLOW_BY_OVERRIDE"}
AdminCall == [at : {"idle", "slot", "restore", "push", "clear", "clearRestored", "label", "invalidate"},
              call : {"load", "rollback", "refused"}, bundle : Nat, displaced : Nat, old : Nat]
EvalCall == [at : {"idle", "lookup", "decide", "put", "served"}, req : Requests \cup {0},
             subject : Askers \cup {0}, ver : Nat, era : Nat, decision : Decided \cup {"NONE"}]
CacheEntry == [req : Requests, ver : Nat, decision : Decided,
               subject : Askers, era : Nat, late : BOOLEAN]

\* The label, the slot, the stack and the calls in progress name versions.
BundlesInv ==
    /\ era \in Nat
    /\ label \in Versions \union {0} /\ activeBundle \in Versions \union {0}
    /\ bundleStack \in Seq(Versions) /\ Len(bundleStack) <= StackCapacity
    /\ adminPc \in [Admins -> AdminCall]
    /\ \A a \in Admins : /\ adminPc[a].at # "idle" => adminPc[a].bundle \in Versions
                         /\ adminPc[a].at = "push" => adminPc[a].displaced \in Versions

\* What the cache x may hold.
CacheSound(x) ==
    /\ x \in Seq(CacheEntry) /\ Len(x) <= CacheCapacity
    /\ \A i, j \in DOMAIN x : Hits(x[i], x[j]) => i = j
    /\ \A i \in DOMAIN x : <<x[i].req, x[i].subject>> \in HardDenied => x[i].decision = "DENY"

\* What an evaluation may hold.
CallHolds(p) ==
    /\ p.at # "idle" => p.req \in Requests /\ p.subject \in Askers
    /\ p.at \in {"put", "served"} => p.decision \in Decided
    /\ <<p.req, p.subject>> \in HardDenied => p.decision # "ALLOW_BY_OVERRIDE"

EvalsSound == evalPc \in [Evaluators -> EvalCall] /\ \A e \in Evaluators : CallHolds(evalPc[e])

\* A call that has swapped the label and has yet to sweep the version it replaced.
Sweeps(pc) == pc.at = "invalidate" \/ (pc.call = "load" /\ pc.at \in {"slot", "push", "clear"})

\* An entry put late, one of this era, or one that is about to be swept.
Placed(n) ==
    \/ n.late
    \/ n.era = era /\ n.ver = label
    \/ \E a \in Admins : Sweeps(adminPc[a]) /\ adminPc[a].old = n.ver

\* An evaluation of this era has the present label.
InTime(p) == p.era <= era /\ (p.era = era => p.ver = label \/ p.at = "idle")

PurgeInv ==
    /\ \A e \in Evaluators : InTime(evalPc[e])
    /\ \A k \in DOMAIN cache : Placed(cache[k])

ServeInv ==
    /\ BundlesInv
    /\ CacheSound(cache)
    /\ EvalsSound
    /\ PurgeInv
    /\ IsFiniteSet(grants) /\ Cardinality(grants) <= MaxGrants

--------------------------------------------------------------------------------
\* What pushing on the bounded stack of displaced bundles, and popping from it, returns.
LEMMA StackFacts ==
    ASSUME NEW V, NEW s \in Seq(V), Len(s) <= StackCapacity
    PROVE  /\ s # <<>> => /\ s[Len(s)] \in V
                          /\ SubSeq(s, 1, Len(s) - 1) \in Seq(V)
                          /\ Len(SubSeq(s, 1, Len(s) - 1)) <= StackCapacity
           /\ \A x \in V :
                LET t == Append(IF Len(s) >= StackCapacity THEN Tail(s) ELSE s, x)
                IN  t \in Seq(V) /\ Len(t) <= StackCapacity
<1>1. ASSUME s # <<>>
      PROVE  /\ s[Len(s)] \in V
             /\ SubSeq(s, 1, Len(s) - 1) \in Seq(V)
             /\ Len(SubSeq(s, 1, Len(s) - 1)) <= StackCapacity
  BY <1>1, PolicyBounds
<1>2. ASSUME NEW x \in V
      PROVE  LET t == Append(IF Len(s) >= StackCapacity THEN Tail(s) ELSE s, x)
             IN  t \in Seq(V) /\ Len(t) <= StackCapacity
  <2>1. CASE Len(s) >= StackCapacity
    <3>1. s # <<>> /\ Tail(s) \in Seq(V) /\ Len(Tail(s)) = Len(s) - 1
      BY <2>1, PolicyBounds
    <3> QED BY <2>1, <3>1, PolicyBounds
  <2>2. CASE ~(Len(s) >= StackCapacity)
    BY <2>2, PolicyBounds
  <2> QED BY <2>1, <2>2, Zenon
<1> QED BY <1>1, <1>2, Zenon

\* Some places of a sound cache, in their order, are a sound cache; with one place less
\* than all there is room for another entry.
LEMMA AtKeeps ==
    ASSUME CacheSound(cache), NEW S \in SUBSET DOMAIN cache, NEW f \in Ascending(S)
    PROVE  /\ CacheSound(At(f)) /\ Len(At(f)) = Len(f) /\ Len(f) \in Nat
           /\ \A i \in 1..Len(f) : f[i] \in S /\ At(f)[i] = cache[f[i]]
           /\ S # DOMAIN cache => Len(At(f)) < CacheCapacity
<1> DEFINE m == Cardinality(S)
<1>1. PICK n \in Nat : n = Len(cache) /\ DOMAIN cache = 1..n /\ cache \in Seq(CacheEntry)
                      /\ n <= CacheCapacity
  BY DEF CacheSound
<1>2. IsFiniteSet(1..n) /\ Cardinality(1..n) = n
  BY FS_Interval
<1>0. S \in SUBSET (1..n)
  BY <1>1, Zenon
<1>3. IsFiniteSet(S) /\ m \in Nat /\ m <= n /\ (S # 1..n => m # n)
  BY <1>0, <1>2, FS_Subset, FS_CardinalityType, Zenon
<1>4. /\ f \in [1..m -> S] /\ DOMAIN f = 1..m
      /\ \A i, j \in 1..m : i < j => f[i] < f[j]
  BY Zenon DEF Ascending
<1> HIDE DEF m
<1>a. f \in Seq(S) /\ Len(f) = m
  BY <1>3, <1>4
<1>5. Len(f) = m /\ \A i \in 1..m : f[i] \in S /\ f[i] \in 1..n
  BY <1>0, <1>4, <1>a, Zenon
<1>6. \A i, j \in 1..m : f[i] = f[j] => i = j
  BY <1>3, <1>4, <1>5
<1>7. At(f) = [i \in 1..m |-> cache[f[i]]]
  BY <1>4, Zenon DEF At
<1>8. \A i \in 1..m : At(f)[i] = cache[f[i]] /\ cache[f[i]] \in CacheEntry
  BY <1>1, <1>5, <1>7
<1>9. At(f) \in Seq(CacheEntry) /\ Len(At(f)) = m /\ DOMAIN At(f) = 1..m
  BY <1>3, <1>7, <1>8
<1>10. m <= CacheCapacity /\ (S # DOMAIN cache => m < CacheCapacity)
  BY <1>1, <1>3, PolicyBounds
<1>11. \A i, j \in DOMAIN At(f) : Hits(At(f)[i], At(f)[j]) => i = j
  <2>1. \A i, j \in 1..n : Hits(cache[i], cache[j]) => i = j
    BY <1>1, Zenon DEF CacheSound
  <2>2. ASSUME NEW i \in 1..m, NEW j \in 1..m, Hits(At(f)[i], At(f)[j]) PROVE i = j
    <3>1. Hits(cache[f[i]], cache[f[j]])
      BY <1>8, <2>2, Zenon
    <3>2. f[i] = f[j]
      BY <1>5, <2>1, <3>1, Zenon
    <3> QED BY <1>6, <3>2, Zenon
  <2> QED BY <1>9, <2>2, Zenon
<1>12. \A i \in DOMAIN At(f) : <<At(f)[i].req, At(f)[i].subject>> \in HardDenied => At(f)[i].decision = "DENY"
  <2>1. \A k \in DOMAIN cache : <<cache[k].req, cache[k].subject>> \in HardDenied => cache[k].decision = "DENY"
    BY Zenon DEF CacheSound
  <2>2. \A i \in DOMAIN At(f) : At(f)[i] = cache[f[i]] /\ f[i] \in DOMAIN cache
    BY <1>1, <1>5, <1>8, <1>9, Zenon
  <2>3. ASSUME NEW i \in DOMAIN At(f), <<At(f)[i].req, At(f)[i].subject>> \in HardDenied
        PROVE  At(f)[i].decision = "DENY"
    <3>1. At(f)[i] = cache[f[i]] /\ f[i] \in DOMAIN cache
      BY <2>2, Zenon
    <3>2. <<cache[f[i]].req, cache[f[i]].subject>> \in HardDenied
      BY <2>3, <3>1
    <3> QED BY <2>1, <3>1, <3>2, Zenon
  <2> QED BY <2>3, Zenon
<1>13. CacheSound(At(f))
  BY <1>9, <1>10, <1>11, <1>12, Zenon DEF CacheSound
<1> QED BY <1>3, <1>5, <1>8, <1>9, <1>10, <1>13, ZenonT(40)

\* put adds an entry that no other entry answers for.
LEMMA AppendKeeps ==
    ASSUME NEW x, CacheSound(x), Len(x) < CacheCapacity, NEW n \in CacheEntry,
           \A i \in DOMAIN x : ~Hits(x[i], n),
           <<n.req, n.subject>> \in HardDenied => n.decision = "DENY"
    PROVE  CacheSound(Append(x, n))
<1> DEFINE y == Append(x, n)
<1>1. x \in Seq(CacheEntry) /\ Len(x) \in Nat
  BY DEF CacheSound
<1>2. /\ y \in Seq(CacheEntry) /\ Len(y) = Len(x) + 1 /\ DOMAIN y = 1..(Len(x) + 1)
      /\ \A i \in 1..Len(x) : y[i] = x[i]
      /\ y[Len(x) + 1] = n
  BY <1>1
<1> HIDE DEF y
<1>3. \A i \in DOMAIN y : (i \in 1..Len(x) /\ i \in DOMAIN x) \/ i = Len(x) + 1
  BY <1>1, <1>2
<1>4. \A i \in 1..Len(x) : ~Hits(x[i], n) /\ ~Hits(n, x[i])
  BY <1>1 DEF Hits
<1>5. \A i, j \in DOMAIN y : Hits(y[i], y[j]) => i = j
  BY <1>2, <1>3, <1>4, Zenon DEF CacheSound
<1>6. \A i \in DOMAIN y : <<y[i].req, y[i].subject>> \in HardDenied => y[i].decision = "DENY"
  BY <1>2, <1>3, Zenon DEF CacheSound
<1>7. Len(y) <= CacheCapacity
  BY <1>1, <1>2, PolicyBounds
<1> QED BY <1>2, <1>5, <1>6, <1>7, ZenonT(40) DEF CacheSound, y

\* Evicting the oldest entry keeps the cache sound.
LEMMA TailKeeps ==
    ASSUME NEW x, CacheSound(x), Len(x) > 0
    PROVE  /\ CacheSound(Tail(x)) /\ Len(Tail(x)) = Len(x) - 1
           /\ \A i \in DOMAIN Tail(x) : i + 1 \in DOMAIN x /\ Tail(x)[i] = x[i + 1]
<1>1. x \in Seq(CacheEntry) /\ Len(x) \in Nat /\ x # <<>>
  BY DEF CacheSound
<1> DEFINE y == Tail(x)
<1>2. /\ y \in Seq(CacheEntry) /\ Len(y) = Len(x) - 1 /\ Len(y) \in Nat
      /\ \A i \in DOMAIN y : i + 1 \in DOMAIN x /\ y[i] = x[i + 1] /\ i \in Nat
  BY <1>1
<1> HIDE DEF y
<1>3. \A i, j \in DOMAIN y : Hits(y[i], y[j]) => i = j
  <2> SUFFICES ASSUME NEW i \in DOMAIN y, NEW j \in DOMAIN y, Hits(y[i], y[j]) PROVE i = j
    BY Zenon
  <2>1. Hits(x[i + 1], x[j + 1])
    BY <1>2, Zenon
  <2>2. i + 1 = j + 1
    BY <1>2, <2>1, Zenon DEF CacheSound
  <2> QED BY <1>2, <2>2
<1>4. \A i \in DOMAIN y : <<y[i].req, y[i].subject>> \in HardDenied => y[i].decision = "DENY"
  BY <1>2, Zenon DEF CacheSound
<1>5. Len(y) <= CacheCapacity
  BY <1>1, <1>2, PolicyBounds DEF CacheSound
<1> QED BY <1>2, <1>3, <1>4, <1>5, ZenonT(40) DEF CacheSound, y

--------------------------------------------------------------------------------
\* ServeInv holds when the kernel starts.
LEMMA ServeInit == PolicyInit => ServeInv
<1> SUFFICES ASSUME PolicyInit PROVE ServeInv
  BY Zenon
<1>1. IdleAdmin \in AdminCall /\ IdleAdmin.at = "idle"
  BY Zenon DEF IdleAdmin, AdminCall
<1>2. IdleEval \in EvalCall /\ CallHolds(IdleEval) /\ IdleEval.era = 0 /\ IdleEval.at = "idle"
  BY Zenon DEF IdleEval, EvalCall, CallHolds
<1>3. BundlesInv
  BY <1>1, PolicyBounds DEF PolicyInit, BundlesInv
<1>4. CacheSound(cache) /\ DOMAIN cache = {}
  BY PolicyBounds DEF PolicyInit, CacheSound
<1>5. IsFiniteSet(grants) /\ Cardinality(grants) <= MaxGrants
  BY FS_EmptySet, PolicyBounds DEF PolicyInit
<1>6. EvalsSound
  BY <1>2, Zenon DEF PolicyInit, EvalsSound
<1>7. PurgeInv
  BY <1>2, <1>4 DEF PolicyInit, PurgeInv, InTime
<1> QED BY <1>3, <1>4, <1>5, <1>6, <1>7, Zenon DEF ServeInv

\* A step of an administrator, on the bundles and on its own call, which goes on as pc.
SharedMove ==
    /\ era' \in Nat
    /\ label' \in Versions \union {0} /\ activeBundle' \in Versions \union {0}
    /\ bundleStack' \in Seq(Versions) /\ Len(bundleStack') <= StackCapacity

CallMove(pc) ==
    /\ pc.at # "idle" => pc.bundle \in Versions
    /\ pc.at = "push" => pc.displaced \in Versions

\* A step of load_bundle or rollback_bundle, seen as a move of the shared slot and of the
\* administrator's own call.
LEMMA AdminMoves ==
    ASSUME BundlesInv, NEW a \in Admins, NEW pc \in AdminCall,
           adminPc' = [adminPc EXCEPT ![a] = pc], SharedMove, CallMove(pc)
    PROVE  BundlesInv'
<1>1. adminPc' \in [Admins -> AdminCall]
  BY Zenon DEF BundlesInv
<1>2. adminPc'[a] = pc /\ \A b \in Admins : b # a => adminPc'[b] = adminPc[b]
  BY Zenon DEF BundlesInv
<1>3. ASSUME NEW b \in Admins
      PROVE  /\ adminPc'[b].at # "idle" => adminPc'[b].bundle \in Versions
             /\ adminPc'[b].at = "push" => adminPc'[b].displaced \in Versions
  BY <1>2, Zenon DEF CallMove, BundlesInv
<1> QED BY <1>1, <1>3, Zenon DEF BundlesInv, SharedMove

\* Every step keeps what the bundles, the label and the calls in progress say of each other.
LEMMA BundlesStep == BundlesInv /\ [PolicyNext]_policyVars => BundlesInv'
<1> SUFFICES ASSUME BundlesInv, [PolicyNext]_policyVars PROVE BundlesInv'
  BY Zenon
<1>0. /\ era \in Nat
      /\ label \in Versions \union {0} /\ activeBundle \in Versions \union {0}
      /\ bundleStack \in Seq(Versions) /\ Len(bundleStack) <= StackCapacity
      /\ adminPc \in [Admins -> AdminCall]
  BY Zenon DEF BundlesInv
<1>a. IdleAdmin \in AdminCall /\ IdleAdmin.at = "idle"
  BY Zenon DEF IdleAdmin, AdminCall
<1>b. ASSUME NEW a \in Admins
      PROVE  /\ adminPc[a] \in AdminCall
             /\ adminPc[a].at # "idle" => adminPc[a].bundle \in Versions
             /\ adminPc[a].at = "push" => adminPc[a].displaced \in Versions
  BY Zenon DEF BundlesInv
<1>c. label \in Nat /\ activeBundle \in Nat /\ Versions \in SUBSET Nat
  BY <1>0, PolicyBounds
<1>1. ASSUME NEW a \in Admins, NEW v \in Versions, LoadBundle(a, v) PROVE BundlesInv'
  <2> DEFINE pc == [at |-> "slot", call |-> "load", bundle |-> v, displaced |-> 0, old |-> label]
  <2>1. pc \in AdminCall /\ pc.at = "slot" /\ pc.bundle = v
    BY <1>c DEF AdminCall
  <2>2. /\ adminPc' = [adminPc EXCEPT ![a] = pc]
        /\ label' = v /\ era' = era + 1
        /\ UNCHANGED <<activeBundle, bundleStack>>
    BY <1>1, Zenon DEF LoadBundle
  <2> HIDE DEF pc
  <2>3. SharedMove
    BY <1>0, <2>2 DEF SharedMove
  <2>4. CallMove(pc)
    BY <2>1, Zenon DEF CallMove
  <2> QED BY <2>1, <2>2, <2>3, <2>4, AdminMoves, ZenonT(40)
<1>2. ASSUME NEW a \in Admins, NEW call \in {"rollback", "refused"}, RollbackBundle(a, call)
      PROVE BundlesInv'
  <2> DEFINE pc == [at |-> "restore", call |-> call, bundle |-> bundleStack[Len(bundleStack)],
                    displaced |-> 0, old |-> 0]
  <2>1. /\ bundleStack # <<>>
        /\ bundleStack' = SubSeq(bundleStack, 1, Len(bundleStack) - 1)
        /\ adminPc' = [adminPc EXCEPT ![a] = pc]
        /\ UNCHANGED <<label, activeBundle, era>>
    BY <1>2, Zenon DEF RollbackBundle
  <2>2. /\ bundleStack[Len(bundleStack)] \in Versions
        /\ bundleStack' \in Seq(Versions) /\ Len(bundleStack') <= StackCapacity
    BY <1>0, <2>1, StackFacts, ZenonT(40)
  <2>3. pc \in AdminCall /\ pc.at = "restore" /\ pc.bundle \in Versions
    BY <1>c, <2>2, Zenon DEF AdminCall
  <2> HIDE DEF pc
  <2>4. SharedMove
    BY <1>0, <2>1, <2>2, Zenon DEF SharedMove
  <2>5. CallMove(pc)
    BY <2>3, Zenon DEF CallMove
  <2> QED BY <2>1, <2>3, <2>4, <2>5, AdminMoves, ZenonT(40)
<1>3. ASSUME NEW a \in Admins, SwapSlot(a) PROVE BundlesInv'
  <2> DEFINE at == CASE adminPc[a].at = "restore" -> "clearRestored"
                     [] adminPc[a].at = "slot" /\ activeBundle = 0 -> "clear"
                     [] OTHER -> "push"
             pc == [adminPc[a] EXCEPT !.at = at, !.displaced = activeBundle]
  <2>1. /\ adminPc' = [adminPc EXCEPT ![a] = pc]
        /\ activeBundle' = adminPc[a].bundle /\ adminPc[a].at \in {"slot", "restore"}
        /\ UNCHANGED <<label, bundleStack, era>>
    BY <1>0, <1>3, Zenon DEF SwapSlot
  <2>2. at \in {"clearRestored", "clear", "push"} /\ (at = "push" => activeBundle # 0)
    BY <2>1, Zenon
  <2>3. pc \in AdminCall /\ pc.at = at /\ pc.displaced = activeBundle /\ pc.bundle = adminPc[a].bundle
    <3> HIDE DEF at
    <3> QED BY <1>b, <1>c, <2>2, Zenon DEF AdminCall
  <2>4. adminPc[a].bundle \in Versions
    BY <1>b, <2>1, Zenon
  <2> HIDE DEF pc, at
  <2>5. pc.at = "push" => pc.displaced \in Versions
    BY <1>0, <2>2, <2>3
  <2>6. SharedMove
    BY <1>0, <2>1, <2>4 DEF SharedMove
  <2>7. CallMove(pc)
    BY <2>3, <2>4, <2>5, Zenon DEF CallMove
  <2> QED BY <2>1, <2>3, <2>6, <2>7, AdminMoves, ZenonT(40)
\* A call that only moves on.
<1>4. ASSUME NEW a \in Admins, NEW at \in {"clear", "invalidate", "slot", "label"},
             adminPc' = [adminPc EXCEPT ![a] = [adminPc[a] EXCEPT !.at = at]],
             adminPc[a].at # "idle",
             UNCHANGED <<label, activeBundle, era>>,
             bundleStack' \in Seq(Versions), Len(bundleStack') <= StackCapacity
      PROVE  BundlesInv'
  <2> DEFINE pc == [adminPc[a] EXCEPT !.at = at]
  <2>1. pc \in AdminCall /\ pc.at = at /\ pc.bundle = adminPc[a].bundle
    BY <1>0, <1>4, Zenon DEF AdminCall
  <2> HIDE DEF pc
  <2>2. adminPc' = [adminPc EXCEPT ![a] = pc]
    BY <1>4, Zenon DEF pc
  <2>3. SharedMove
    BY <1>0, <1>4, Zenon DEF SharedMove
  <2>4. CallMove(pc)
    BY <1>b, <1>4, <2>1, Zenon DEF CallMove
  <2> QED BY <2>1, <2>2, <2>3, <2>4, AdminMoves, ZenonT(40)
<1>5. ASSUME NEW a \in Admins, adminPc' = [adminPc EXCEPT ![a] = IdleAdmin],
             UNCHANGED <<label, activeBundle, bundleStack, era>>
      PROVE  BundlesInv'
  <2>1. SharedMove
    BY <1>0, <1>5, Zenon DEF SharedMove
  <2>2. CallMove(IdleAdmin)
    BY <1>a, Zenon DEF CallMove
  <2> QED BY <1>5, <1>a, <2>1, <2>2, AdminMoves, ZenonT(40)
<1>6. ASSUME NEW a \in Admins, PushDisplaced(a) PROVE BundlesInv'
  <2>1. /\ adminPc[a].at = "push" /\ adminPc' = [adminPc EXCEPT ![a] = [adminPc[a] EXCEPT !.at = "clear"]]
        /\ bundleStack' = Append(IF Len(bundleStack) >= StackCapacity THEN Tail(bundleStack)
                                 ELSE bundleStack, adminPc[a].displaced)
        /\ UNCHANGED <<label, activeBundle, era>>
    BY <1>6, Zenon DEF PushDisplaced, AdminAt
  <2>2. adminPc[a].displaced \in Versions
    BY <1>b, <2>1, Zenon
  <2>3. bundleStack' \in Seq(Versions) /\ Len(bundleStack') <= StackCapacity
    BY <1>0, <2>1, <2>2, StackFacts, Zenon
  <2> QED BY <1>4, <2>1, <2>3, Zenon
<1>7. ASSUME NEW a \in Admins, ClearGrants(a) PROVE BundlesInv'
  <2>1. PICK at \in {"idle", "invalidate", "slot", "label"} : AdminAt(a, at)
    BY <1>7, Zenon DEF ClearGrants
  <2>2. /\ adminPc[a].at \in {"clear", "clearRestored"}
        /\ UNCHANGED <<label, activeBundle, bundleStack, era>>
    BY <1>7, Zenon DEF ClearGrants
  <2>3. CASE at = "idle"
    BY <1>5, <2>1, <2>2, <2>3, Zenon DEF AdminAt
  <2>4. CASE at # "idle"
    BY <1>0, <1>4, <2>1, <2>2, <2>4, ZenonT(40) DEF AdminAt
  <2> QED BY <2>3, <2>4, Zenon
<1>8. ASSUME NEW a \in Admins, SwapLabel(a) PROVE BundlesInv'
  <2> DEFINE pc == [adminPc[a] EXCEPT !.at = "invalidate", !.old = label]
  <2>1. /\ adminPc[a].at = "label" /\ adminPc' = [adminPc EXCEPT ![a] = pc]
        /\ label' = adminPc[a].bundle /\ era' = era + 1
        /\ UNCHANGED <<activeBundle, bundleStack>>
    BY <1>0, <1>8, Zenon DEF SwapLabel
  <2>2. pc \in AdminCall /\ pc.at = "invalidate" /\ pc.bundle = adminPc[a].bundle
    BY <1>b, <1>c, Zenon DEF AdminCall
  <2>3. adminPc[a].bundle \in Versions
    BY <1>b, <2>1, Zenon
  <2> HIDE DEF pc
  <2>4. SharedMove
    BY <1>0, <2>1, <2>3 DEF SharedMove
  <2>5. CallMove(pc)
    BY <2>2, <2>3, Zenon DEF CallMove
  <2> QED BY <2>1, <2>2, <2>4, <2>5, AdminMoves, ZenonT(40)
<1>9. ASSUME NEW a \in Admins, InvalidateForBundle(a) PROVE BundlesInv'
  BY <1>5, <1>9, Zenon DEF InvalidateForBundle, AdminAt
<1>10. ASSUME UNCHANGED <<label, activeBundle, bundleStack, era, adminPc>>
       PROVE  BundlesInv'
  BY <1>10, Zenon DEF BundlesInv
<1>11. ASSUME NEW e \in Evaluators, EvalStep(e) PROVE BundlesInv'
  BY <1>10, <1>11, Zenon DEF EvalStep, BuildContext, CacheLookup, CachePut, EvaluateReturns, Evaluate
<1>12. CASE RequestOverride \/ PruneExpired \/ PolicyTick \/ (\E g \in grants : RevokeGrant(g))
            \/ UNCHANGED policyVars
  BY <1>10, <1>12, Zenon DEF RequestOverride, PruneExpired, PolicyTick, RevokeGrant, policyVars
<1> QED BY <1>1, <1>2, <1>3, <1>6, <1>7, <1>8, <1>9, <1>11, <1>12, ZenonT(40) DEF PolicyNext, AdminStep

\* The bound on the grants is kept.
LEMMA GrantsStep ==
    IsFiniteSet(grants) /\ Cardinality(grants) <= MaxGrants /\ [PolicyNext]_policyVars
        => IsFiniteSet(grants') /\ Cardinality(grants') <= MaxGrants
<1> SUFFICES ASSUME IsFiniteSet(grants), Cardinality(grants) <= MaxGrants, [PolicyNext]_policyVars
             PROVE  IsFiniteSet(grants') /\ Cardinality(grants') <= MaxGrants
  BY Zenon
<1>0. Cardinality(grants) \in Nat
  BY FS_CardinalityType, Zenon
<1>1. CASE RequestOverride
  <2>1. PICK g : grants' = grants \cup {g} /\ Cardinality(grants) < MaxGrants
    BY <1>1, Zenon DEF RequestOverride
  <2>2. /\ IsFiniteSet(grants \cup {g})
        /\ Cardinality(grants \cup {g}) = IF g \in grants THEN Cardinality(grants) ELSE Cardinality(grants) + 1
    BY FS_AddElement, Zenon
  <2> QED BY <1>0, <2>1, <2>2, PolicyBounds
<1>2. ASSUME NEW g \in grants, RevokeGrant(g) PROVE IsFiniteSet(grants') /\ Cardinality(grants') <= MaxGrants
  <2> DEFINE h == [g EXCEPT !.revoked = TRUE]
             rest == grants \ {g}
  <2>1. IsFiniteSet(rest) /\ Cardinality(rest) = Cardinality(grants) - 1
    BY FS_RemoveElement, Zenon
  <2>2. grants' = rest \cup {h}
    BY <1>2, Zenon DEF RevokeGrant
  <2> HIDE DEF rest, h
  <2>3. /\ IsFiniteSet(rest \cup {h})
        /\ Cardinality(rest \cup {h}) = IF h \in rest THEN Cardinality(rest) ELSE Cardinality(rest) + 1
    BY <2>1, FS_AddElement, Zenon
  <2> QED BY <1>0, <2>1, <2>2, <2>3, PolicyBounds
<1>3. ASSUME grants' \in SUBSET grants PROVE IsFiniteSet(grants') /\ Cardinality(grants') <= MaxGrants
  <2>1. IsFiniteSet(grants') /\ Cardinality(grants') <= Cardinality(grants)
    BY <1>3, FS_Subset, Zenon
  <2>2. Cardinality(grants') \in Nat
    BY <2>1, FS_CardinalityType, Zenon
  <2> QED BY <1>0, <2>1, <2>2, PolicyBounds
<1>4. CASE PruneExpired
  BY <1>3, <1>4, Zenon DEF PruneExpired
<1>5. ASSUME NEW a \in Admins, AdminStep(a) PROVE grants' \in SUBSET grants
  BY <1>5, Zenon DEF AdminStep, LoadBundle, SwapSlot, PushDisplaced, ClearGrants, SwapLabel,
              InvalidateForBundle, RollbackBundle
<1>6. ASSUME NEW e \in Evaluators, EvalStep(e) PROVE grants' \in SUBSET grants
  BY <1>6, Zenon DEF EvalStep, BuildContext, CacheLookup, CachePut, EvaluateReturns, Evaluate
<1>7. CASE PolicyTick \/ UNCHANGED policyVars
  BY <1>3, <1>7, Zenon DEF PolicyTick, policyVars
<1> QED BY <1>1, <1>2, <1>3, <1>4, <1>5, <1>6, <1>7, ZenonT(30) DEF PolicyNext

\* The call of e goes on as p.
LEMMA EvalMoves ==
    ASSUME EvalsSound, NEW e \in Evaluators, NEW p \in EvalCall, CallHolds(p), EvalAt(e, p)
    PROVE  EvalsSound'
<1>1. evalPc' = [evalPc EXCEPT ![e] = p]
  BY Zenon DEF EvalAt
<1>2. evalPc' \in [Evaluators -> EvalCall]
  BY <1>1, Zenon DEF EvalsSound
<1>3. ASSUME NEW d \in Evaluators PROVE CallHolds(evalPc[d])'
  <2>1. CallHolds(evalPc'[d])
    BY <1>1, Zenon DEF EvalsSound
  <2> QED BY <2>1, Zenon DEF CallHolds
<1> QED BY <1>2, <1>3, Zenon DEF EvalsSound

\* What cache' holds was in the cache, or has just been put by e.
PutBy(e, n) ==
    /\ evalPc[e].at = "put" /\ n.ver = evalPc[e].ver
    /\ n.era = evalPc[e].era /\ n.late = (evalPc[e].era # era)
Came(e) ==
    \A i \in DOMAIN cache' : (\E k \in DOMAIN cache : cache'[i] = cache[k]) \/ PutBy(e, cache'[i])

\* A step of evaluate keeps the cache, and what every evaluation has in hand, sound.
LEMMA ServeEval ==
    ASSUME BundlesInv, CacheSound(cache), EvalsSound, NEW e \in Evaluators, EvalStep(e)
    PROVE  CacheSound(cache') /\ EvalsSound' /\ Came(e)
<1> DEFINE p == evalPc[e]
<1>0. p \in EvalCall /\ CallHolds(p) /\ cache \in Seq(CacheEntry)
  BY Zenon DEF EvalsSound, CacheSound
<1>a. ASSUME cache' = cache PROVE CacheSound(cache') /\ Came(e)
  BY <1>a, Zenon DEF Came
<1>1. ASSUME NEW r \in Requests, NEW s \in Askers, BuildContext(e, r, s)
      PROVE  CacheSound(cache') /\ EvalsSound' /\ Came(e)
  <2> DEFINE q == [at |-> "lookup", req |-> r, subject |-> s, ver |-> label, era |-> era,
                   decision |-> "NONE"]
  <2>1. EvalAt(e, q) /\ cache' = cache
    BY <1>1, ZenonT(40) DEF BuildContext
  <2>2. label \in Nat /\ era \in Nat
    BY PolicyBounds DEF BundlesInv
  <2>3. q \in EvalCall /\ CallHolds(q)
    BY <2>2, Zenon DEF EvalCall, CallHolds
  <2> QED BY <1>a, <2>1, <2>3, EvalMoves, ZenonT(40)
<1>2. CASE CacheLookup(e)
  <2> DEFINE hit == {k \in DOMAIN cache : Hits(cache[k], p)}
  <2>1. CASE hit = {} /\ EvalAt(e, [p EXCEPT !.at = "decide"]) /\ UNCHANGED cache
    <3>1. p.at = "lookup"
      BY <1>2, Zenon DEF CacheLookup
    <3>2. [p EXCEPT !.at = "decide"] \in EvalCall /\ CallHolds([p EXCEPT !.at = "decide"])
      BY <1>0, <3>1, Zenon DEF EvalCall, CallHolds
    <3> QED BY <1>a, <2>1, <3>2, EvalMoves, ZenonT(40)
  <2>2. ASSUME NEW k \in hit, NEW others \in Ascending(DOMAIN cache \ {k}),
               cache' = Append(At(others), cache[k]),
               EvalAt(e, [p EXCEPT !.at = "served", !.subject = cache[k].subject,
                                   !.decision = cache[k].decision])
        PROVE  CacheSound(cache') /\ EvalsSound' /\ Came(e)
    <3> DEFINE q == [p EXCEPT !.at = "served", !.subject = cache[k].subject,
                              !.decision = cache[k].decision]
    <3>1. k \in DOMAIN cache /\ cache[k] \in CacheEntry /\ Hits(cache[k], p)
      BY <1>0
    <3>2. /\ cache[k].req = p.req
          /\ <<cache[k].req, cache[k].subject>> \in HardDenied => cache[k].decision = "DENY"
      BY <3>1, Zenon DEF Hits, CacheSound
    <3>3. q \in EvalCall /\ CallHolds(q)
      <4>1. q.at = "served" /\ q.req = p.req /\ q.subject = cache[k].subject /\ q.decision = cache[k].decision
            /\ q \in EvalCall
        BY <1>0, <3>1, Zenon DEF EvalCall, CacheEntry
      <4>2. cache[k].req \in Requests /\ cache[k].subject \in Askers /\ cache[k].decision \in Decided
        BY <3>1, Zenon DEF CacheEntry
      <4> HIDE DEF q
      <4> QED BY <3>2, <4>1, <4>2, Zenon DEF CallHolds
    <3>4. DOMAIN cache \ {k} \in SUBSET DOMAIN cache /\ DOMAIN cache \ {k} # DOMAIN cache
      BY <3>1, Zenon
    <3>5. /\ CacheSound(At(others)) /\ Len(At(others)) < CacheCapacity
          /\ At(others) \in Seq(CacheEntry) /\ DOMAIN At(others) = 1..Len(others)
          /\ \A i \in 1..Len(others) : others[i] \in DOMAIN cache \ {k} /\ At(others)[i] = cache[others[i]]
      <4>1. /\ CacheSound(At(others)) /\ Len(At(others)) = Len(others)
            /\ Len(At(others)) < CacheCapacity
            /\ \A i \in 1..Len(others) : others[i] \in DOMAIN cache \ {k} /\ At(others)[i] = cache[others[i]]
        BY <2>2, <3>4, AtKeeps, ZenonT(40)
      <4>2. At(others) \in Seq(CacheEntry)
        BY <4>1, Zenon DEF CacheSound
      <4>3. DOMAIN At(others) = 1..Len(At(others))
        BY <4>2
      <4> QED BY <4>1, <4>2, <4>3, Zenon
    <3>6. \A i \in DOMAIN At(others) : ~Hits(At(others)[i], cache[k])
      BY <3>1, <3>5 DEF CacheSound
    <3>7. CacheSound(cache')
      BY <2>2, <3>1, <3>2, <3>5, <3>6, AppendKeeps, ZenonT(40)
    <3>8. \A i \in DOMAIN cache' : cache'[i] = cache[k] \/ (i \in DOMAIN At(others) /\ cache'[i] = At(others)[i])
      <4> HIDE DEF hit
      <4> QED BY <2>2, <3>5
    <3>9. Came(e)
      BY <3>1, <3>5, <3>8, Zenon DEF Came
    <3> QED BY <2>2, <3>3, <3>7, <3>9, EvalMoves, ZenonT(40)
  <2> QED BY <1>2, <2>1, <2>2, Zenon DEF CacheLookup
<1>3. ASSUME NEW covered \in BOOLEAN, Evaluate(e, covered)
      PROVE  CacheSound(cache') /\ EvalsSound' /\ Came(e)
  <2>1. PICK d \in Decided : /\ EvalAt(e, [p EXCEPT !.at = "put", !.decision = d])
                             /\ <<p.req, p.subject>> \in HardDenied => d = "DENY"
    BY <1>3, Zenon DEF Evaluate, Decided
  <2>2. p.at = "decide" /\ cache' = cache
    BY <1>3, Zenon DEF Evaluate
  <2>3. /\ [p EXCEPT !.at = "put", !.decision = d] \in EvalCall
        /\ CallHolds([p EXCEPT !.at = "put", !.decision = d])
    BY <1>0, <2>1, <2>2, Zenon DEF EvalCall, CallHolds, Decided
  <2> QED BY <1>a, <2>1, <2>2, <2>3, EvalMoves, ZenonT(40)
<1>4. CASE CachePut(e)
  <2> DEFINE n == [req |-> p.req, ver |-> p.ver, decision |-> p.decision,
                   subject |-> p.subject, era |-> p.era, late |-> p.era # era]
             q == [p EXCEPT !.at = "served"]
             S == {k \in DOMAIN cache : ~Hits(cache[k], n)}
  <2>1. p.at = "put" /\ Put(n) /\ EvalAt(e, q)
    BY <1>4, Zenon DEF CachePut
  <2>2. q \in EvalCall /\ CallHolds(q)
    BY <1>0, <2>1, Zenon DEF EvalCall, CallHolds
  <2>3. /\ n \in CacheEntry /\ PutBy(e, n)
        /\ <<n.req, n.subject>> \in HardDenied => n.decision = "DENY"
    BY <1>0, <2>1, Zenon DEF EvalCall, CacheEntry, CallHolds, Decided, PutBy
  <2>4. PICK others \in Ascending(S) :
           cache' = Append(IF Len(others) >= CacheCapacity THEN Tail(At(others)) ELSE At(others), n)
    BY <2>1, Zenon DEF Put
  <2> HIDE DEF n, q
  <2>5. /\ CacheSound(At(others)) /\ Len(At(others)) = Len(others) /\ Len(others) \in Nat
        /\ DOMAIN At(others) = 1..Len(others)
        /\ \A i \in DOMAIN At(others) : ~Hits(At(others)[i], n)
        /\ \A i \in DOMAIN At(others) : \E k \in DOMAIN cache : At(others)[i] = cache[k]
    <3>1. S \in SUBSET DOMAIN cache
      BY Zenon
    <3>2. /\ CacheSound(At(others)) /\ Len(At(others)) = Len(others) /\ Len(others) \in Nat
          /\ \A i \in 1..Len(others) : others[i] \in S /\ At(others)[i] = cache[others[i]]
      BY <3>1, AtKeeps, ZenonT(40)
    <3>3. DOMAIN At(others) = 1..Len(others)
      BY <3>2 DEF CacheSound
    <3> QED BY <3>2, <3>3, Zenon
\* The entry goes behind what is left of the cache, x.
  <2>a. ASSUME NEW x, CacheSound(x), Len(x) < CacheCapacity, cache' = Append(x, n),
               \A i \in DOMAIN x : ~Hits(x[i], n),
               \A i \in DOMAIN x : \E k \in DOMAIN cache : x[i] = cache[k]
        PROVE  CacheSound(cache') /\ EvalsSound' /\ Came(e)
    <3>1. CacheSound(cache')
      BY <2>3, <2>a, AppendKeeps, ZenonT(40)
    <3>2. x \in Seq(CacheEntry)
      BY <2>a, Zenon DEF CacheSound
    <3>3. \A i \in DOMAIN cache' : cache'[i] = n \/ (i \in DOMAIN x /\ cache'[i] = x[i])
      BY <2>3, <2>a, <3>2
    <3>4. Came(e)
      BY <2>3, <2>a, <3>3, Zenon DEF Came
    <3> QED BY <2>1, <2>2, <3>1, <3>4, EvalMoves, ZenonT(40)
  <2>6. CASE Len(others) >= CacheCapacity
    <3>1. Len(At(others)) > 0 /\ Len(At(others)) <= CacheCapacity
      BY <2>5, <2>6, PolicyBounds DEF CacheSound
    <3>2. /\ CacheSound(Tail(At(others))) /\ Len(Tail(At(others))) = Len(At(others)) - 1
          /\ \A i \in DOMAIN Tail(At(others)) :
                i + 1 \in DOMAIN At(others) /\ Tail(At(others))[i] = At(others)[i + 1]
      BY <2>5, <3>1, TailKeeps, ZenonT(40)
    <3>3. Len(Tail(At(others))) < CacheCapacity
      BY <2>5, <3>1, <3>2, PolicyBounds
    <3>4. \A i \in DOMAIN Tail(At(others)) : /\ ~Hits(Tail(At(others))[i], n)
                                             /\ \E k \in DOMAIN cache : Tail(At(others))[i] = cache[k]
      BY <2>5, <3>2, Zenon
    <3>5. cache' = Append(Tail(At(others)), n)
      BY <2>4, <2>6, Zenon
    <3> QED BY <2>a, <3>2, <3>3, <3>4, <3>5, ZenonT(40)
  <2>7. CASE ~(Len(others) >= CacheCapacity)
    <3>1. Len(At(others)) < CacheCapacity
      BY <2>5, <2>7, PolicyBounds
    <3>2. cache' = Append(At(others), n)
      BY <2>4, <2>7, Zenon
    <3> QED BY <2>5, <2>a, <3>1, <3>2, ZenonT(40)
  <2> QED BY <2>6, <2>7, Zenon
<1>5. CASE EvaluateReturns(e)
  <2>1. IdleEval \in EvalCall /\ CallHolds(IdleEval)
    BY Zenon DEF IdleEval, EvalCall, CallHolds
  <2> QED BY <1>5, <1>a, <2>1, EvalMoves, Zenon DEF EvaluateReturns
<1> QED BY <1>1, <1>2, <1>3, <1>4, <1>5, ZenonT(40) DEF EvalStep

\* A step of evaluate puts an entry of this era under the present label, or puts it late.
LEMMA PurgeEval ==
    ASSUME BundlesInv, EvalsSound, PurgeInv, NEW e \in Evaluators, EvalStep(e), Came(e)
    PROVE  PurgeInv'
<1>1. UNCHANGED <<era, label, adminPc>>
  BY Zenon DEF EvalStep, BuildContext, CacheLookup, CachePut, EvaluateReturns, Evaluate
<1>2. evalPc[e] \in EvalCall /\ evalPc \in [Evaluators -> EvalCall] /\ InTime(evalPc[e]) /\ era \in Nat
  BY Zenon DEF EvalsSound, PurgeInv, BundlesInv
<1>3. PICK p : EvalAt(e, p) /\ InTime(p)
  <2>1. ASSUME NEW r, NEW s, BuildContext(e, r, s) PROVE \E p : EvalAt(e, p) /\ InTime(p)
    <3> DEFINE q == [at |-> "lookup", req |-> r, subject |-> s, ver |-> label, era |-> era,
                     decision |-> "NONE"]
    <3>1. EvalAt(e, q)
      BY <2>1, ZenonT(40) DEF BuildContext
    <3>2. q.era = era /\ q.ver = label
      BY Zenon
    <3> HIDE DEF q
    <3>3. InTime(q)
      BY <1>2, <3>2 DEF InTime
    <3> QED BY <3>1, <3>3, Zenon
  <2>2. ASSUME NEW q, EvalAt(e, q), q.era = evalPc[e].era, q.ver = evalPc[e].ver,
               evalPc[e].at # "idle"
        PROVE  \E p : EvalAt(e, p) /\ InTime(p)
    BY <1>2, <2>2, Zenon DEF InTime
  <2>3. CASE CacheLookup(e)
    <3>1. evalPc[e].at = "lookup"
      BY <2>3, Zenon DEF CacheLookup
    <3>2. CASE EvalAt(e, [evalPc[e] EXCEPT !.at = "decide"])
      BY <1>2, <2>2, <3>1, <3>2, Zenon DEF EvalCall
    <3>3. ASSUME NEW k, EvalAt(e, [evalPc[e] EXCEPT !.at = "served", !.subject = cache[k].subject,
                                                    !.decision = cache[k].decision])
          PROVE  \E p : EvalAt(e, p) /\ InTime(p)
      BY <1>2, <2>2, <3>1, <3>3, Zenon DEF EvalCall
    <3> QED BY <2>3, <3>2, <3>3, Zenon DEF CacheLookup
  <2>4. ASSUME NEW covered, Evaluate(e, covered) PROVE \E p : EvalAt(e, p) /\ InTime(p)
    <3>1. PICK d : evalPc[e].at = "decide" /\ EvalAt(e, [evalPc[e] EXCEPT !.at = "put", !.decision = d])
      BY <2>4, Zenon DEF Evaluate
    <3> QED BY <1>2, <2>2, <3>1, Zenon DEF EvalCall
  <2>5. CASE CachePut(e)
    <3>1. evalPc[e].at = "put" /\ EvalAt(e, [evalPc[e] EXCEPT !.at = "served"])
      BY <2>5, Zenon DEF CachePut
    <3> QED BY <1>2, <2>2, <3>1, Zenon DEF EvalCall
  <2>6. CASE EvaluateReturns(e)
    <3>1. IdleEval.era = 0 /\ IdleEval.at = "idle"
      BY Zenon DEF IdleEval
    <3>2. InTime(IdleEval)
      BY <1>2, <3>1 DEF InTime
    <3> QED BY <2>6, <3>2, Zenon DEF EvaluateReturns
  <2> QED BY <2>1, <2>3, <2>4, <2>5, <2>6, Zenon DEF EvalStep
<1>4. ASSUME NEW d \in Evaluators PROVE InTime(evalPc[d])'
  <2>1. InTime(evalPc'[d])
    BY <1>2, <1>3, Zenon DEF EvalAt, PurgeInv
  <2> QED BY <1>1, <2>1, Zenon DEF InTime
<1>5. ASSUME NEW i \in DOMAIN cache' PROVE Placed(cache[i])'
  <2>1. Placed(cache'[i])
    <3>1. CASE \E k \in DOMAIN cache : cache'[i] = cache[k]
      BY <3>1, Zenon DEF PurgeInv
    <3>2. CASE PutBy(e, cache'[i])
      BY <1>2, <3>2, Zenon DEF PutBy, InTime, Placed
    <3> QED BY <3>1, <3>2, Zenon DEF Came
  <2> QED BY <1>1, <2>1, Zenon DEF Placed
<1> QED BY <1>4, <1>5, Zenon DEF PurgeInv

\* Who flips the label will sweep the version it replaces, and nobody gives up sweeping.
LEMMA PurgeAdmin ==
    ASSUME BundlesInv, EvalsSound, CacheSound(cache), PurgeInv, NEW a \in Admins, AdminStep(a)
    PROVE  PurgeInv'
<1>0. /\ adminPc \in [Admins -> AdminCall] /\ adminPc[a] \in AdminCall /\ era \in Nat
      /\ \A e \in Evaluators : evalPc[e].era \in Nat
  BY Zenon DEF BundlesInv, EvalsSound, EvalCall
<1>1. evalPc' = evalPc
  BY Zenon DEF AdminStep, LoadBundle, SwapSlot, PushDisplaced, ClearGrants, SwapLabel,
            InvalidateForBundle, RollbackBundle
\* A call that moves on without giving up sweeping.
<1>2. ASSUME NEW pc, adminPc' = [adminPc EXCEPT ![a] = pc], UNCHANGED <<era, label, cache>>,
             Sweeps(adminPc[a]) => Sweeps(pc) /\ pc.old = adminPc[a].old
      PROVE  PurgeInv'
  <2>1. \A b \in Admins : Sweeps(adminPc[b]) => Sweeps(adminPc'[b]) /\ adminPc'[b].old = adminPc[b].old
    BY <1>0, <1>2, Zenon
  <2>2. ASSUME NEW n, Placed(n)
        PROVE  \/ n.late
               \/ n.era = era' /\ n.ver = label'
               \/ \E b \in Admins : Sweeps(adminPc'[b]) /\ adminPc'[b].old = n.ver
    BY <1>2, <2>1, <2>2, Zenon DEF Placed
  <2>3. ASSUME NEW k \in DOMAIN cache' PROVE Placed(cache[k])'
    BY <1>2, <2>2, Zenon DEF PurgeInv, Placed
  <2>4. ASSUME NEW e \in Evaluators PROVE InTime(evalPc[e])'
    BY <1>1, <1>2, Zenon DEF PurgeInv, InTime
  <2> QED BY <2>3, <2>4, Zenon DEF PurgeInv
\* A call that flips the label.
<1>3. ASSUME NEW pc, adminPc' = [adminPc EXCEPT ![a] = pc], era' = era + 1, cache' = cache,
             ~Sweeps(adminPc[a]), Sweeps(pc), pc.old = label
      PROVE  PurgeInv'
  <2>1. /\ adminPc'[a] = pc
        /\ \A b \in Admins : Sweeps(adminPc[b]) => Sweeps(adminPc'[b]) /\ adminPc'[b].old = adminPc[b].old
    BY <1>0, <1>3, Zenon
  <2>2. ASSUME NEW n, Placed(n)
        PROVE  n.late \/ \E b \in Admins : Sweeps(adminPc'[b]) /\ adminPc'[b].old = n.ver
    BY <1>3, <2>1, <2>2, Zenon DEF Placed
  <2>3. ASSUME NEW k \in DOMAIN cache' PROVE Placed(cache[k])'
    BY <1>3, <2>2, Zenon DEF PurgeInv, Placed
  <2>4. ASSUME NEW e \in Evaluators PROVE InTime(evalPc[e])'
    <3>1. evalPc[e].era <= era /\ evalPc[e].era \in Nat
      BY <1>0, Zenon DEF PurgeInv, InTime
    <3>2. evalPc[e].era <= era' /\ evalPc[e].era # era'
      BY <1>0, <1>3, <3>1
    <3> QED BY <1>1, <3>2, Zenon DEF InTime
  <2> QED BY <2>3, <2>4, Zenon DEF PurgeInv
<1>4. ASSUME NEW v \in Versions, LoadBundle(a, v) PROVE PurgeInv'
  <2> DEFINE pc == [at |-> "slot", call |-> "load", bundle |-> v, displaced |-> 0, old |-> label]
  <2>1. adminPc' = [adminPc EXCEPT ![a] = pc] /\ era' = era + 1 /\ cache' = cache /\ adminPc[a].at = "idle"
    BY <1>4, Zenon DEF LoadBundle
  <2>2. Sweeps(pc) /\ pc.old = label /\ ~Sweeps(adminPc[a])
    BY <2>1, Zenon DEF Sweeps
  <2> QED BY <1>3, <2>1, <2>2, Zenon
<1>5. CASE SwapLabel(a)
  <2> DEFINE pc == [adminPc[a] EXCEPT !.at = "invalidate", !.old = label]
  <2>1. adminPc' = [adminPc EXCEPT ![a] = pc] /\ era' = era + 1 /\ cache' = cache /\ adminPc[a].at = "label"
    BY <1>0, <1>5, Zenon DEF SwapLabel
  <2>2. Sweeps(pc) /\ pc.old = label /\ ~Sweeps(adminPc[a])
    BY <1>0, <2>1, Zenon DEF Sweeps, AdminCall
  <2> QED BY <1>3, <2>1, <2>2, Zenon
<1>6. ASSUME NEW call, RollbackBundle(a, call) PROVE PurgeInv'
  <2>1. PICK pc : adminPc' = [adminPc EXCEPT ![a] = pc]
    BY <1>6, Zenon DEF RollbackBundle
  <2>2. adminPc[a].at = "idle" /\ UNCHANGED <<era, label, cache>>
    BY <1>6, Zenon DEF RollbackBundle
  <2>3. ~Sweeps(adminPc[a])
    BY <2>2, Zenon DEF Sweeps
  <2> QED BY <1>2, <2>1, <2>2, <2>3, Zenon
<1>7. CASE SwapSlot(a)
  <2> DEFINE at == CASE adminPc[a].at = "restore" -> "clearRestored"
                     [] adminPc[a].at = "slot" /\ activeBundle = 0 -> "clear"
                     [] OTHER -> "push"
             pc == [adminPc[a] EXCEPT !.at = at, !.displaced = activeBundle]
  <2>1. /\ adminPc' = [adminPc EXCEPT ![a] = pc] /\ adminPc[a].at \in {"slot", "restore"}
        /\ UNCHANGED <<era, label, cache>>
    BY <1>0, <1>7, Zenon DEF SwapSlot
  <2>2. adminPc[a].at = "slot" => at \in {"clear", "push"}
    BY Zenon
  <2> HIDE DEF at
  <2>3. pc.at = at /\ pc.call = adminPc[a].call /\ pc.old = adminPc[a].old
    BY <1>0, Zenon DEF AdminCall
  <2> HIDE DEF pc
  <2>4. Sweeps(adminPc[a]) => Sweeps(pc)
    BY <2>1, <2>2, <2>3, Zenon DEF Sweeps
  <2> QED BY <1>2, <2>1, <2>3, <2>4, Zenon
<1>8. CASE PushDisplaced(a)
  <2> DEFINE pc == [adminPc[a] EXCEPT !.at = "clear"]
  <2>1. adminPc' = [adminPc EXCEPT ![a] = pc] /\ adminPc[a].at = "push" /\ UNCHANGED <<era, label, cache>>
    BY <1>8, Zenon DEF PushDisplaced, AdminAt
  <2>2. pc.at = "clear" /\ pc.call = adminPc[a].call /\ pc.old = adminPc[a].old
    BY <1>0, Zenon DEF AdminCall
  <2> HIDE DEF pc
  <2>3. Sweeps(adminPc[a]) => Sweeps(pc)
    BY <2>1, <2>2, Zenon DEF Sweeps
  <2> QED BY <1>2, <2>1, <2>2, <2>3, Zenon
<1>9. CASE ClearGrants(a)
  <2>1. adminPc[a].at \in {"clear", "clearRestored"} /\ UNCHANGED <<era, label, cache>>
    BY <1>9, Zenon DEF ClearGrants
  <2>2. CASE Sweeps(adminPc[a])
    <3> DEFINE pc == [adminPc[a] EXCEPT !.at = "invalidate"]
    <3>1. adminPc[a].at = "clear" /\ adminPc[a].call = "load"
      BY <2>1, <2>2, Zenon DEF Sweeps
    <3>2. adminPc' = [adminPc EXCEPT ![a] = pc]
      BY <1>9, <3>1, Zenon DEF ClearGrants, AdminAt
    <3>3. pc.at = "invalidate" /\ pc.old = adminPc[a].old
      BY <1>0, Zenon DEF AdminCall
    <3> HIDE DEF pc
    <3>4. Sweeps(pc)
      BY <3>3, Zenon DEF Sweeps
    <3> QED BY <1>2, <2>1, <3>2, <3>3, <3>4, Zenon
  <2>3. CASE ~Sweeps(adminPc[a])
    <3>1. \E pc : adminPc' = [adminPc EXCEPT ![a] = pc]
      BY <1>0, <1>9, Zenon DEF ClearGrants, AdminAt
    <3> QED BY <1>2, <2>1, <2>3, <3>1, Zenon
  <2> QED BY <2>2, <2>3, Zenon
<1>10. CASE InvalidateForBundle(a)
  <2> DEFINE S == {k \in DOMAIN cache : cache[k].ver # adminPc[a].old}
  <2>1. PICK places \in Ascending(S) : cache' = At(places)
    BY <1>10, Zenon DEF InvalidateForBundle
  <2>2. adminPc' = [adminPc EXCEPT ![a] = IdleAdmin] /\ UNCHANGED <<era, label>>
    BY <1>10, Zenon DEF InvalidateForBundle, AdminAt
  <2>3. \A b \in Admins : b # a => adminPc'[b] = adminPc[b]
    BY <1>0, <2>2, Zenon
  <2>4. /\ CacheSound(cache') /\ Len(cache') = Len(places)
        /\ \A i \in 1..Len(places) : places[i] \in S /\ cache'[i] = cache[places[i]]
    <3>1. S \in SUBSET DOMAIN cache
      BY Zenon
    <3> QED BY <2>1, <3>1, AtKeeps, ZenonT(40)
  <2>5. DOMAIN cache' = 1..Len(places)
    BY <2>4 DEF CacheSound
  <2>6. ASSUME NEW i \in DOMAIN cache' PROVE Placed(cache[i])'
    <3>1. Placed(cache'[i]) /\ cache'[i].ver # adminPc[a].old
      BY <2>4, <2>5, Zenon DEF PurgeInv
    <3>2. \/ cache'[i].late
          \/ cache'[i].era = era /\ cache'[i].ver = label
          \/ \E b \in Admins : Sweeps(adminPc'[b]) /\ adminPc'[b].old = cache'[i].ver
      BY <2>3, <3>1, Zenon DEF Placed
    <3> QED BY <2>2, <3>2, Zenon DEF Placed
  <2>7. ASSUME NEW e \in Evaluators PROVE InTime(evalPc[e])'
    BY <1>1, <2>2, Zenon DEF PurgeInv, InTime
  <2> QED BY <2>6, <2>7, Zenon DEF PurgeInv
<1> QED BY <1>4, <1>5, <1>6, <1>7, <1>8, <1>9, <1>10, ZenonT(40) DEF AdminStep

\* Whatever administrators load and roll back while evaluators fill and read the cache,
\* a flip leaves nothing of the bundles before it in the cache but late puts, no hard
\* denial is relaxed and cache and stack keep to their capacities, for any number of calls
\* (server.rs:436, cache.rs:195).
THEOREM ServesSoundly == PolicySpec => []ServedSoundly
<1>1. ServeInv /\ [PolicyNext]_policyVars => ServeInv'
  <2> SUFFICES ASSUME ServeInv, [PolicyNext]_policyVars PROVE ServeInv'
    BY Zenon
  <2>0. BundlesInv /\ CacheSound(cache) /\ EvalsSound /\ PurgeInv
    BY Zenon DEF ServeInv
  <2>1. BundlesInv'
    BY BundlesStep, Zenon DEF ServeInv
  <2>2. IsFiniteSet(grants') /\ Cardinality(grants') <= MaxGrants
    BY GrantsStep, Zenon DEF ServeInv
  <2>3. ASSUME CacheSound(cache'), EvalsSound', PurgeInv' PROVE ServeInv'
    BY <2>1, <2>2, <2>3, Zenon DEF ServeInv, CacheSound
  <2>4. ASSUME NEW e \in Evaluators, EvalStep(e) PROVE ServeInv'
    BY <2>0, <2>3, <2>4, ServeEval, PurgeEval, Zenon
  <2>5. ASSUME NEW a \in Admins, AdminStep(a) PROVE ServeInv'
    <3>1. CacheSound(cache')
      <4>1. CASE InvalidateForBundle(a)
        <5>1. PICK places \in Ascending({k \in DOMAIN cache : cache[k].ver # adminPc[a].old}) :
                 cache' = At(places)
          BY <4>1, Zenon DEF InvalidateForBundle
        <5> QED BY <2>0, <5>1, AtKeeps, Zenon
      <4>2. CASE ~InvalidateForBundle(a)
        BY <2>0, <2>5, <4>2, Zenon DEF AdminStep, LoadBundle, SwapSlot, PushDisplaced, ClearGrants,
                                       SwapLabel, RollbackBundle
      <4> QED BY <4>1, <4>2, Zenon
    <3>2. EvalsSound'
      BY <2>0, <2>5, Zenon DEF AdminStep, LoadBundle, SwapSlot, PushDisplaced, ClearGrants, SwapLabel,
                               InvalidateForBundle, RollbackBundle, EvalsSound
    <3> QED BY <2>0, <2>3, <2>5, <3>1, <3>2, PurgeAdmin, Zenon
  <2>6. CASE RequestOverride \/ PruneExpired \/ PolicyTick \/ (\E g \in grants : RevokeGrant(g))
             \/ UNCHANGED policyVars
    <3>1. UNCHANGED <<cache, evalPc, adminPc, era, label>>
      BY <2>6, Zenon DEF RequestOverride, PruneExpired, PolicyTick, RevokeGrant, policyVars
    <3>2. PurgeInv'
      BY <2>0, <3>1, Zenon DEF PurgeInv, InTime, Placed
    <3>3. EvalsSound'
      BY <2>0, <3>1, Zenon DEF EvalsSound
    <3> QED BY <2>0, <2>3, <3>1, <3>2, <3>3, Zenon
  <2> QED BY <2>4, <2>5, <2>6, Zenon DEF PolicyNext
<1>2. ServeInv => ServedSoundly
  <2> SUFFICES ASSUME ServeInv PROVE ServedSoundly
    BY Zenon
  <2>1. PolicyTypeOK
    BY Zenon DEF ServeInv, BundlesInv, CacheSound, PolicyTypeOK
  <2>2. HardDenyHolds
    BY Zenon DEF ServeInv, EvalsSound, CallHolds, HardDenyHolds
  <2>3. FlipsPurge
    <3>1. \A a \in Admins : adminPc[a].at = "idle" => ~Sweeps(adminPc[a])
      BY Zenon DEF Sweeps
    <3> QED BY <3>1, Zenon DEF ServeInv, PurgeInv, Placed, FlipsPurge
  <2> QED BY <2>1, <2>2, <2>3, Zenon DEF ServedSoundly
<1> QED BY <1>1, <1>2, ServeInit, PTL DEF PolicySpec
==================================================================================
