----------------------------- MODULE EvidenceProofs ------------------------------
(* Proofs about the evidence log, durable and in memory, for any number of      *)
(* writers, workers, subscribers, receipts, segments and crashes.               *)
EXTENDS DurableEvidenceLog, EvidenceStream, FiniteSetTheorems, TLAPS

--------------------------------------------------------------------------------
(* Reading entries in the order of their places.                                *)

\* The places of the entries E are a total order: ranks are distinct and without gaps.
Ranked(E) ==
    /\ IsFiniteSet(E)
    /\ \A e \in E : e.segment \in Int /\ e.at \in Int
    /\ \A e, f \in E : Rank(E, e) = Rank(E, f) => e = f
    /\ \A n \in 1..Cardinality(E) : \E e \in E : Rank(E, e) = n - 1

\* The receipt at place n of the log is that of the entry with n - 1 before it.
LEMMA RankedIs ==
    ASSUME NEW E, Ranked(E), NEW n \in 1..Cardinality(E), NEW e \in E, Rank(E, e) = n - 1
    PROVE  InOrder(E)[n] = e.receipt
<1>1. (CHOOSE f \in E : Rank(E, f) = n - 1) = e
  BY Zenon DEF Ranked
<1> QED BY <1>1, Zenon DEF InOrder

\* The log has as many places as there are entries.
LEMMA OrderIsSeq ==
    ASSUME NEW E, Ranked(E)
    PROVE  /\ Cardinality(E) \in Nat
           /\ InOrder(E) \in Seq({e.receipt : e \in E})
           /\ Len(InOrder(E)) = Cardinality(E)
           /\ DOMAIN InOrder(E) = 1..Cardinality(E)
<1>1. Cardinality(E) \in Nat
  BY FS_CardinalityType, Zenon DEF Ranked
<1>2. DOMAIN InOrder(E) = 1..Cardinality(E)
  BY Zenon DEF InOrder
<1>3. ASSUME NEW n \in 1..Cardinality(E) PROVE InOrder(E)[n] \in {e.receipt : e \in E}
  <2>1. PICK e \in E : Rank(E, e) = n - 1
    BY Zenon DEF Ranked
  <2> QED BY <2>1, RankedIs
<1> DEFINE pick(n) == (CHOOSE e \in E : Rank(E, e) = n - 1).receipt
<1>4. InOrder(E) = [n \in 1..Cardinality(E) |-> pick(n)]
  BY Zenon DEF InOrder
<1> HIDE DEF pick
<1>5. InOrder(E) \in [1..Cardinality(E) -> {e.receipt : e \in E}]
  BY <1>3, <1>4, Zenon
<1> QED BY <1>1, <1>2, <1>5

\* Every entry has its place in the log.
LEMMA RankInOrder ==
    ASSUME NEW E, Ranked(E), NEW e \in E
    PROVE  Rank(E, e) + 1 \in 1..Cardinality(E) /\ InOrder(E)[Rank(E, e) + 1] = e.receipt
<1> DEFINE B == {f \in E : Precedes(f, e)}
           c == Cardinality(E)
<1>1. ~Precedes(e, e)
  BY DEF Ranked, Precedes
<1>2. B \in SUBSET E /\ B # E
  BY <1>1, Zenon
<1>3. IsFiniteSet(E)
  BY Zenon DEF Ranked
<1>4. IsFiniteSet(B) /\ Cardinality(B) <= c /\ (c = Cardinality(B) => E = B)
  BY <1>2, <1>3, FS_Subset, Zenon
<1>5. Cardinality(B) \in Nat /\ c \in Nat
  BY <1>3, <1>4, FS_CardinalityType, Zenon
<1>6. Rank(E, e) = Cardinality(B)
  BY Zenon DEF Rank
<1> HIDE DEF B, c
<1>7. Rank(E, e) + 1 \in 1..c /\ Rank(E, e) = (Rank(E, e) + 1) - 1
  BY <1>2, <1>4, <1>5, <1>6
<1> QED BY <1>7, RankedIs, Zenon DEF c

\* An entry after all others extends the log by its receipt.
LEMMA AddLast ==
    ASSUME NEW E, Ranked(E), NEW x, x.segment \in Int, x.at \in Int,
           \A e \in E : Precedes(e, x)
    PROVE  /\ x \notin E
           /\ Ranked(E \cup {x})
           /\ Cardinality(E \cup {x}) = Cardinality(E) + 1
           /\ InOrder(E \cup {x}) = Append(InOrder(E), x.receipt)
<1> DEFINE F == E \cup {x}
           c == Cardinality(E)
<1>1. \A e : e.segment \in Int /\ e.at \in Int => ~Precedes(e, e)
  BY DEF Precedes
<1>2. x \notin E
  BY <1>1, Zenon
<1>3. c \in Nat /\ IsFiniteSet(E) /\ IsFiniteSet(F) /\ Cardinality(F) = c + 1
  <2>1. IsFiniteSet(E)
    BY Zenon DEF Ranked
  <2>2. c \in Nat
    BY <2>1, FS_CardinalityType, Zenon
  <2>3. IsFiniteSet(F) /\ Cardinality(F) = IF x \in E THEN c ELSE c + 1
    BY <2>1, FS_AddElement, Zenon
  <2> QED BY <1>2, <2>1, <2>2, <2>3, Zenon
<1>4. \A e \in E : Rank(F, e) = Rank(E, e)
  <2> SUFFICES ASSUME NEW e \in E PROVE {f \in F : Precedes(f, e)} = {f \in E : Precedes(f, e)}
    BY Zenon DEF Rank
  <2>1. ~Precedes(x, e)
    BY DEF Precedes, Ranked
  <2> QED BY <2>1, Zenon
<1>5. Rank(F, x) = c
  <2>1. ~Precedes(x, x)
    BY <1>1, Zenon
  <2>2. {f \in F : Precedes(f, x)} = E
    BY <2>1, Zenon
  <2> QED BY <2>2, Zenon DEF Rank
<1>6. \A e \in E : Rank(E, e) \in Nat /\ Rank(E, e) < c
  <2> SUFFICES ASSUME NEW e \in E PROVE Rank(E, e) \in Nat /\ Rank(E, e) < c
    BY Zenon
  <2> DEFINE B == {f \in E : Precedes(f, e)}
  <2>1. ~Precedes(e, e)
    BY <1>1, Zenon DEF Ranked
  <2>2. B \in SUBSET E /\ B # E
    BY <2>1, Zenon
  <2>3. IsFiniteSet(B) /\ Cardinality(B) <= c /\ (c = Cardinality(B) => E = B)
    BY <1>3, <2>2, FS_Subset, Zenon
  <2>4. Cardinality(B) \in Nat
    BY <2>3, FS_CardinalityType, Zenon
  <2>5. Rank(E, e) = Cardinality(B)
    BY Zenon DEF Rank
  <2> HIDE DEF B
  <2> QED BY <1>3, <2>2, <2>3, <2>4, <2>5
<1>7. Ranked(F)
  <2>1. \A e \in F : e.segment \in Int /\ e.at \in Int
    BY Zenon DEF Ranked
  <2>2. \A e, f \in F : Rank(F, e) = Rank(F, f) => e = f
    <3>1. \A e, f \in E : Rank(F, e) = Rank(F, f) => e = f
      BY <1>4, Zenon DEF Ranked
    <3>2. \A e \in E : Rank(F, e) # Rank(F, x)
      <4> HIDE DEF F, c
      <4> QED BY <1>3, <1>4, <1>5, <1>6
    <3> QED BY <3>1, <3>2, Zenon
  <2>3. ASSUME NEW n \in 1..(c + 1) PROVE \E e \in F : Rank(F, e) = n - 1
    <3>1. CASE n = c + 1
      BY <1>3, <1>5, <3>1
    <3>2. CASE n \in 1..c
      <4>1. PICK e \in E : Rank(E, e) = n - 1
        BY <3>2, Zenon DEF Ranked
      <4> QED BY <1>4, <4>1, Zenon
    <3> QED BY <1>3, <3>1, <3>2
  <2> HIDE DEF F
  <2> QED BY <1>3, <2>1, <2>2, <2>3, Zenon DEF Ranked
<1>8. InOrder(F) = Append(InOrder(E), x.receipt)
  <2> DEFINE S == {e.receipt : e \in F}
             s == InOrder(E)
             t == Append(s, x.receipt)
  <2>1. /\ s \in Seq(S) /\ Len(s) = c /\ x.receipt \in S
    <3>1. s \in Seq({e.receipt : e \in E}) /\ Len(s) = c
      BY OrderIsSeq, Zenon
    <3>2. {e.receipt : e \in E} \subseteq S /\ x.receipt \in S
      BY Zenon
    <3> HIDE DEF S, s
    <3> QED BY <3>1, <3>2
  <2>2. InOrder(F) \in Seq(S) /\ Len(InOrder(F)) = c + 1
    BY <1>3, <1>7, OrderIsSeq, Zenon
  <2>3. ASSUME NEW n \in 1..c PROVE InOrder(F)[n] = s[n]
    <3>1. PICK e \in E : Rank(E, e) = n - 1
      BY Zenon DEF Ranked
    <3>2. s[n] = e.receipt
      BY <3>1, RankedIs, Zenon
    <3>3. Rank(F, e) = n - 1 /\ e \in F /\ n \in 1..Cardinality(F)
      <4>1. Rank(F, e) = n - 1
        BY <1>4, <3>1, Zenon
      <4> HIDE DEF c
      <4> QED BY <1>3, <4>1
    <3> HIDE DEF F, s
    <3> QED BY <1>7, <3>2, <3>3, RankedIs, Zenon
  <2>4. InOrder(F)[c + 1] = x.receipt
    <3>1. Rank(F, x) = (c + 1) - 1 /\ x \in F /\ c + 1 \in 1..Cardinality(F)
      BY <1>3, <1>5
    <3> HIDE DEF F, c
    <3> QED BY <1>7, <3>1, RankedIs, Zenon
  <2> HIDE DEF S, s, F, c
  <2>5. t \in Seq(S) /\ Len(t) = c + 1 /\ t[c + 1] = x.receipt /\ \A n \in 1..c : t[n] = s[n]
    BY <1>3, <2>1
  <2> HIDE DEF t
  <2>6. InOrder(F) = t
    BY <1>3, <2>2, <2>3, <2>4, <2>5
  <2> QED BY <2>6, Zenon DEF t, s
<1> QED BY <1>2, <1>3, <1>7, <1>8, Zenon

--------------------------------------------------------------------------------
(* The durable log. ChainInv says what is on disk, TodoSound what a retention   *)
(* tick may still do with it, ReportsInv why a segment is not reported twice in *)
(* one run of the process.                                                      *)

\* The entries of the segments g up to the head h and of the open snapshot o.
EntriesOf(g, h, o) ==
  UNION {EntriesAt(p, IF p <= h THEN g[p].receipts ELSE o) : p \in 1..(h + 1)}

InSealed(e, g, h) == \E p \in 1..h : e \in EntriesAt(p, g[p].receipts)

\* An entry is in a sealed segment or in the open snapshot.
LEMMA EntryIs ==
    ASSUME NEW h \in Nat, NEW g, NEW o, NEW e
    PROVE  e \in EntriesOf(g, h, o) <=> InSealed(e, g, h) \/ e \in EntriesAt(h + 1, o)
<1>1. e \in EntriesOf(g, h, o)
        <=> \E p \in 1..(h + 1) : e \in EntriesAt(p, IF p <= h THEN g[p].receipts ELSE o)
  BY Zenon DEF EntriesOf
<1> QED BY <1>1 DEF InSealed

\* Appending to the open snapshot adds one entry, after all others.
LEMMA AppendAddsLast ==
    ASSUME NEW S, NEW g, NEW h \in Nat, NEW o \in Seq(S), NEW r, NEW x,
           x = [segment |-> h + 1, at |-> Len(o) + 1, receipt |-> r]
    PROVE  /\ EntriesOf(g, h, Append(o, r)) = EntriesOf(g, h, o) \cup {x}
           /\ x.segment \in Int /\ x.at \in Int
           /\ \A e \in EntriesOf(g, h, o) : Precedes(e, x)
<1> DEFINE b == Append(o, r)
<1>1. /\ DOMAIN b = DOMAIN o \cup {Len(o) + 1} /\ b[Len(o) + 1] = r
      /\ \A i \in DOMAIN o : b[i] = o[i] /\ i < Len(o) + 1 /\ i \in Nat
      /\ Len(o) \in Nat
  BY r \in S \cup {r}, o \in Seq(S \cup {r})
<1> HIDE DEF b
<1>2. ASSUME NEW e PROVE e \in EntriesOf(g, h, b) <=> e \in EntriesOf(g, h, o) \/ e = x
  <2>1. e \in EntriesAt(h + 1, b) <=> e \in EntriesAt(h + 1, o) \/ e = x
    BY <1>1, Zenon DEF EntriesAt
  <2> QED BY <2>1, EntryIs, Zenon
<1>3. EntriesOf(g, h, b) = EntriesOf(g, h, o) \cup {x}
  <2> QED BY <1>2, Zenon
<1>4. ASSUME NEW e \in EntriesOf(g, h, o) PROVE Precedes(e, x)
  <2>1. CASE InSealed(e, g, h)
    <3>1. e.segment < x.segment
      BY <2>1 DEF InSealed, EntriesAt
    <3> QED BY <3>1, Zenon DEF Precedes
  <2>2. CASE e \in EntriesAt(h + 1, o)
    <3>1. e.segment = x.segment /\ e.at < x.at
      BY <1>1, <2>2 DEF EntriesAt
    <3> QED BY <3>1, Zenon DEF Precedes
  <2> QED BY <2>1, <2>2, EntryIs, Zenon
<1>5. x.segment \in Int /\ x.at \in Int
  BY <1>1
<1> QED BY <1>3, <1>4, <1>5, Zenon DEF b

\* Sealing the open snapshot moves no entry.
LEMMA SealMovesNothing ==
    ASSUME NEW T, NEW g \in Seq(T), NEW o, NEW s, s.receipts = o, s \in T
    PROVE  EntriesOf(Append(g, s), Len(g) + 1, <<>>) = EntriesOf(g, Len(g), o)
<1> DEFINE k == Append(g, s)
           h == Len(g)
<1>1. h \in Nat /\ k[h + 1] = s /\ \A p \in 1..h : k[p] = g[p]
  OBVIOUS
<1>2. DOMAIN <<>> = {}
  OBVIOUS
<1>3. 1..(h + 1) = (1..h) \cup {h + 1}
  BY <1>1
<1> HIDE DEF k, h
<1>4. ASSUME NEW e PROVE e \in EntriesOf(k, h + 1, <<>>) <=> e \in EntriesOf(g, h, o)
  <2>1. e \notin EntriesAt((h + 1) + 1, <<>>)
    BY <1>2, Zenon DEF EntriesAt
  <2>2. InSealed(e, k, h + 1) <=> InSealed(e, g, h) \/ e \in EntriesAt(h + 1, o)
    BY <1>1, <1>3, ZenonT(30) DEF InSealed, EntriesAt
  <2>3. h + 1 \in Nat
    BY <1>1
  <2> QED BY <1>1, <2>1, <2>2, <2>3, EntryIs, Zenon
<1>5. EntriesOf(k, h + 1, <<>>) = EntriesOf(g, h, o)
  BY <1>4, Zenon
<1> QED BY <1>5, Zenon DEF k, h

DiskType ==
    [receipts : SUBSET Receipt, segments : Seq(DurableSegment), head : 0 .. DurableMaxSegments,
     current : Seq(Receipt), compacted : SUBSET Positions]

\* The chain on disk is whole and its receipts numbered in order; the rows are those of
\* the receipts outside compacted segments.
ChainInv ==
    /\ disk \in DiskType
    /\ disk.head = Len(disk.segments)
    /\ \A p \in 1..disk.head : disk.segments[p].prev = p - 1
    /\ disk.compacted \subseteq 1..disk.head
    /\ Ranked(DurableEntries)
    /\ \A n \in 1..Cardinality(DurableEntries) : InOrder(DurableEntries)[n].id = n
    /\ disk.receipts = Held \ CompactedAway

\* The entries on disk, now and after a step.
LEMMA EntriesAre ==
    /\ DurableEntries = EntriesOf(disk.segments, disk.head, disk.current)
    /\ DurableEntries' = EntriesOf(disk'.segments, disk'.head, disk'.current)
BY Zenon DEF DurableEntries, EntriesOf, Part

\* The types of what is on disk.
LEMMA DiskFacts ==
    ASSUME ChainInv
    PROVE  /\ disk.segments \in Seq(DurableSegment)
           /\ disk.current \in Seq(Receipt)
           /\ disk.head \in Nat /\ disk.head = Len(disk.segments)
           /\ \A p \in 1..disk.head : /\ disk.segments[p] \in DurableSegment
                                      /\ disk.segments[p].receipts \in Seq(Receipt)
<1>1. disk.segments \in Seq(DurableSegment) /\ disk.head = Len(disk.segments)
  BY Zenon DEF ChainInv, DiskType
<1>2. disk.current \in Seq(Receipt)
  BY Zenon DEF ChainInv, DiskType
<1>3. \A p \in 1..disk.head : disk.segments[p] \in DurableSegment
  BY <1>1
<1> QED BY <1>1, <1>2, <1>3 DEF DurableSegment

\* Every receipt number up to the number of entries occurs once.
LEMMA NumberedOnce ==
    ASSUME ChainInv
    PROVE  /\ Cardinality(DurableEntries) \in Nat
           /\ \A e \in DurableEntries : e.receipt.id \in 1..Cardinality(DurableEntries)
           /\ \A e, f \in DurableEntries : e.receipt.id = f.receipt.id => e = f
<1>1. Ranked(DurableEntries)
  BY Zenon DEF ChainInv
<1>2. Cardinality(DurableEntries) \in Nat
  BY <1>1, OrderIsSeq, Zenon
<1>3. \A e \in DurableEntries : /\ Rank(DurableEntries, e) + 1 \in 1..Cardinality(DurableEntries)
                                /\ e.receipt.id = Rank(DurableEntries, e) + 1
  BY <1>1, RankInOrder, Zenon DEF ChainInv
<1>4. ASSUME NEW e \in DurableEntries, NEW f \in DurableEntries, e.receipt.id = f.receipt.id
      PROVE  e = f
  <2>1. \A i, j \in Nat : i + 1 = j + 1 => i = j
    OBVIOUS
  <2>2. \A k \in DurableEntries : Rank(DurableEntries, k) \in Nat
    <3>1. ASSUME NEW k \in DurableEntries PROVE Rank(DurableEntries, k) \in Nat
      <4>1. IsFiniteSet(DurableEntries) /\ {j \in DurableEntries : Precedes(j, k)} \in SUBSET DurableEntries
        BY <1>1, Zenon DEF Ranked
      <4>2. IsFiniteSet({j \in DurableEntries : Precedes(j, k)})
        BY <4>1, FS_Subset, Zenon
      <4> QED BY <4>2, FS_CardinalityType, Zenon DEF Rank
    <3> QED BY <3>1, Zenon
  <2>3. Rank(DurableEntries, e) = Rank(DurableEntries, f)
    BY <1>3, <1>4, <2>1, <2>2, Zenon
  <2> QED BY <1>1, <2>3, Zenon DEF Ranked
<1> QED BY <1>2, <1>3, <1>4, Zenon

\* What was compacted away is held by a segment and not by the open snapshot.
LEMMA HeldFacts ==
    ASSUME ChainInv
    PROVE  /\ CompactedAway \subseteq Held
           /\ Range(disk.current) \subseteq Held
           /\ Range(disk.current) \cap CompactedAway = {}
<1> DEFINE g == disk.segments
           h == disk.head
           o == disk.current
<1>1. h \in Nat /\ disk.compacted \subseteq 1..h
  BY DiskFacts, Zenon DEF ChainInv
<1>2. ASSUME NEW r \in CompactedAway
      PROVE  \E e \in DurableEntries : e.receipt = r /\ e.segment \in 1..h
  <2>1. PICK p \in disk.compacted : r \in Range(g[p].receipts)
    BY Zenon DEF CompactedAway
  <2>2. PICK i \in DOMAIN g[p].receipts : r = g[p].receipts[i]
    BY <2>1, Zenon DEF Range
  <2> DEFINE e == [segment |-> p, at |-> i, receipt |-> r]
  <2>3. e \in EntriesAt(p, g[p].receipts)
    BY <2>2, Zenon DEF EntriesAt
  <2>4. e \in DurableEntries
    BY <1>1, <2>1, <2>3, EntriesAre, EntryIs, Zenon DEF InSealed
  <2>5. e.receipt = r /\ e.segment \in 1..h
    BY <1>1, <2>1, Zenon
  <2> QED BY <2>4, <2>5, Zenon
<1>3. ASSUME NEW r \in Range(o)
      PROVE  \E e \in DurableEntries : e.receipt = r /\ e.segment = h + 1
  <2>1. PICK i \in DOMAIN o : r = o[i]
    BY Zenon DEF Range
  <2> DEFINE e == [segment |-> h + 1, at |-> i, receipt |-> r]
  <2>2. e \in EntriesAt(h + 1, o)
    BY <2>1, Zenon DEF EntriesAt
  <2>3. e \in DurableEntries
    BY <1>1, <2>2, EntriesAre, EntryIs, Zenon
  <2> QED BY <2>3, Zenon
<1>4. CompactedAway \subseteq Held /\ Range(o) \subseteq Held
  BY <1>2, <1>3, Zenon DEF Held
<1>5. ASSUME NEW r \in Range(o), r \in CompactedAway PROVE FALSE
  <2>1. PICK e \in DurableEntries : e.receipt = r /\ e.segment \in 1..h
    BY <1>2, <1>5, Zenon
  <2>2. PICK f \in DurableEntries : f.receipt = r /\ f.segment = h + 1
    BY <1>3, Zenon
  <2>3. e = f
    BY <2>1, <2>2, NumberedOnce, Zenon
  <2> QED BY <1>1, <2>1, <2>2, <2>3
<1> QED BY <1>4, <1>5, Zenon

\* persist_append keeps ChainInv and extends the log by the receipt.
LEMMA AppendStep ==
    ASSUME ChainInv, mem = [current |-> disk.current, head |-> disk.head],
           NEW r \in Receipt, r.id = Cardinality(DurableEntries) + 1, PersistAppend(r)
    PROVE  /\ ChainInv'
           /\ mem' = [current |-> disk'.current, head |-> disk'.head]
           /\ disk'.segments = disk.segments /\ disk'.head = disk.head
           /\ disk'.compacted = disk.compacted
           /\ Held' = Held \cup {r} /\ r \notin Held
           /\ DurableLog' = Append(DurableLog, r)
<1> DEFINE E == DurableEntries
           c == Cardinality(E)
           x == [segment |-> disk.head + 1, at |-> Len(disk.current) + 1, receipt |-> r]
<1>1. /\ disk'.segments = disk.segments /\ disk'.head = disk.head
      /\ disk'.compacted = disk.compacted
      /\ disk'.receipts = disk.receipts \cup {r}
      /\ disk'.current = Append(disk.current, r)
      /\ mem' = [current |-> disk'.current, head |-> disk'.head]
  BY Zenon DEF PersistAppend, ChainInv, DiskType
<1>d. disk' \in DiskType
  <2>1. Append(disk.current, r) \in Seq(Receipt) /\ disk.receipts \cup {r} \in SUBSET Receipt
    BY DiskFacts DEF ChainInv, DiskType
  <2>2. disk' = [disk EXCEPT !.receipts = disk.receipts \cup {r}, !.current = Append(disk.current, r)]
    BY Zenon DEF PersistAppend
  <2> QED BY <2>1, <2>2, Zenon DEF ChainInv, DiskType
<1>2. /\ E' = E \cup {x} /\ x.segment \in Int /\ x.at \in Int /\ x.receipt = r
      /\ \A e \in E : Precedes(e, x)
  <2>1. /\ EntriesOf(disk.segments, disk.head, Append(disk.current, r))
             = EntriesOf(disk.segments, disk.head, disk.current) \cup {x}
        /\ x.segment \in Int /\ x.at \in Int
        /\ \A e \in EntriesOf(disk.segments, disk.head, disk.current) : Precedes(e, x)
    <3> HIDE DEF x
    <3> QED BY DiskFacts, AppendAddsLast, Zenon DEF x
  <2> QED BY <1>1, <2>1, EntriesAre, Zenon
<1>3. Ranked(E) /\ c \in Nat
  BY NumberedOnce, Zenon DEF ChainInv
<1> HIDE DEF x
<1>4. /\ Ranked(E \cup {x}) /\ Cardinality(E \cup {x}) = c + 1
      /\ InOrder(E \cup {x}) = Append(InOrder(E), r)
  BY <1>2, <1>3, AddLast, Zenon
<1>5. Ranked(E)' /\ Cardinality(E)' = c + 1 /\ InOrder(E)' = Append(InOrder(E), r)
  <2>1. Ranked(E') /\ Cardinality(E') = c + 1 /\ InOrder(E') = Append(InOrder(E), r)
    BY <1>2, <1>4, Zenon
  <2> QED BY <2>1, Zenon
<1>6. Held' = Held \cup {r}
  BY <1>2, Zenon DEF Held
<1>7. r \notin Held
  BY <1>3, NumberedOnce DEF Held
<1>8. \A n \in 1..(c + 1) : Append(InOrder(E), r)[n].id = n
  <2>1. InOrder(E) \in Seq({e.receipt : e \in E}) /\ Len(InOrder(E)) = c
    BY <1>3, OrderIsSeq, Zenon
  <2>2. \A n \in 1..c : InOrder(E)[n].id = n
    BY Zenon DEF ChainInv
  <2> DEFINE s == InOrder(E)
  <2> HIDE DEF s, E, c
  <2>3. \A n \in 1..c : Append(s, r)[n] = s[n]
    BY <1>3, <2>1 DEF s
  <2>4. Append(s, r)[c + 1] = r
    BY <1>3, <2>1 DEF s
  <2>5. r.id = c + 1
    BY Zenon DEF c, E
  <2> QED BY <1>3, <2>2, <2>3, <2>4, <2>5 DEF s
<1>9. CompactedAway' = CompactedAway
  BY <1>1, Zenon DEF CompactedAway
<1>10. disk'.receipts = Held' \ CompactedAway'
  <2>1. disk.receipts = Held \ CompactedAway
    BY Zenon DEF ChainInv
  <2> QED BY <1>1, <1>6, <1>7, <1>9, <2>1, HeldFacts, Zenon
<1>11. ChainInv'
  <2>1. \A n \in 1..Cardinality(E)' : InOrder(E)'[n].id = n
    BY <1>5, <1>8, Zenon
  <2>2. /\ disk'.head = Len(disk'.segments)
        /\ \A p \in 1..disk'.head : disk'.segments[p].prev = p - 1
        /\ disk'.compacted \subseteq 1..disk'.head
    BY <1>1, Zenon DEF ChainInv
  <2> QED BY <1>d, <1>5, <1>10, <2>1, <2>2, Zenon DEF ChainInv, DiskType
<1> QED BY <1>1, <1>5, <1>6, <1>7, <1>11, Zenon DEF DurableLog

\* Sealing keeps ChainInv and the log.
LEMMA SealStep ==
    ASSUME ChainInv, mem = [current |-> disk.current, head |-> disk.head],
           now \in 0..MaxTime, SealDurably
    PROVE  /\ ChainInv'
           /\ mem' = [current |-> disk'.current, head |-> disk'.head]
           /\ disk'.compacted = disk.compacted
           /\ disk'.head = disk.head + 1
           /\ \A p \in 1..disk.head : disk'.segments[p] = disk.segments[p]
           /\ Held' = Held
           /\ DurableLog' = DurableLog
<1> DEFINE s == [receipts |-> disk.current, prev |-> disk.head, sealedAt |-> now]
           h == disk.head
           E == DurableEntries
<1>1. /\ disk'.segments = Append(disk.segments, s) /\ disk'.head = h + 1
      /\ disk'.compacted = disk.compacted
      /\ disk'.receipts = disk.receipts
      /\ disk'.current = <<>>
      /\ mem' = [current |-> <<>>, head |-> h + 1]
      /\ h < DurableMaxSegments
  BY Zenon DEF SealDurably, PersistSeal, ChainInv, DiskType
<1>2. s \in DurableSegment /\ s.receipts = disk.current /\ s.prev = h /\ h \in 0..DurableMaxSegments
  BY DiskFacts, Zenon DEF DurableSegment, ChainInv, DiskType
<1> HIDE DEF s
<1>3. /\ disk'.segments \in Seq(DurableSegment) /\ Len(disk'.segments) = h + 1
      /\ disk'.segments[h + 1] = s
      /\ \A p \in 1..h : disk'.segments[p] = disk.segments[p]
  BY <1>1, <1>2, DiskFacts
<1>4. disk' \in DiskType
  <2>1. disk'.head \in 0..DurableMaxSegments
    BY <1>1, <1>2, DurableBounds
  <2>2. disk' = [disk EXCEPT !.segments = disk'.segments, !.head = disk'.head, !.current = <<>>]
    BY <1>1, Zenon DEF SealDurably, PersistSeal, ChainInv, DiskType
  <2>3. <<>> \in Seq(Receipt)
    OBVIOUS
  <2> QED BY <1>3, <2>1, <2>2, <2>3, Zenon DEF ChainInv, DiskType
<1>5. E' = E
  <2>1. EntriesOf(Append(disk.segments, s), Len(disk.segments) + 1, <<>>)
          = EntriesOf(disk.segments, Len(disk.segments), disk.current)
    BY <1>2, DiskFacts, SealMovesNothing
  <2> QED BY <1>1, <2>1, DiskFacts, EntriesAre, Zenon
<1>6. Held' = Held /\ DurableLog' = DurableLog
  BY <1>5, Zenon DEF Held, DurableLog
<1>7. CompactedAway' = CompactedAway
  <2>1. \A p \in disk.compacted : disk'.segments[p] = disk.segments[p]
    BY <1>3, Zenon DEF ChainInv
  <2> QED BY <1>1, <2>1, Zenon DEF CompactedAway
<1>8. ChainInv'
  <2>1. /\ disk'.head = Len(disk'.segments)
        /\ \A p \in 1..disk'.head : disk'.segments[p].prev = p - 1
        /\ disk'.compacted \subseteq 1..disk'.head
    <3>1. \A p \in 1..h : disk'.segments[p].prev = p - 1
      BY <1>3, Zenon DEF ChainInv
    <3>2. disk'.segments[h + 1].prev = (h + 1) - 1
      BY <1>2, <1>3
    <3>3. \A p \in 1..(h + 1) : p \in 1..h \/ p = h + 1
      BY <1>2
    <3>4. disk.compacted \subseteq 1..(h + 1)
      BY <1>2, DurableBounds DEF ChainInv
    <3> QED BY <1>1, <1>3, <3>1, <3>2, <3>3, <3>4, Zenon
  <2>2. Ranked(E') /\ \A n \in 1..Cardinality(E') : InOrder(E')[n].id = n
    BY <1>5, Zenon DEF ChainInv
  <2>3. disk'.receipts = Held' \ CompactedAway'
    BY <1>1, <1>6, <1>7, Zenon DEF ChainInv
  <2>4. Ranked(DurableEntries)' /\ \A n \in 1..Cardinality(DurableEntries)' : InOrder(DurableEntries)'[n].id = n
    BY <2>2, Zenon
  <2> QED BY <1>4, <2>1, <2>3, <2>4, Zenon DEF ChainInv, DiskType
<1> QED BY <1>1, <1>3, <1>6, <1>8, Zenon

\* Compacting a segment keeps ChainInv and the log: payloads go, receipts stay.
LEMMA CompactStep ==
    ASSUME ChainInv, NEW p \in 1..disk.head, CompactSegment(p)
    PROVE  /\ ChainInv'
           /\ disk'.segments = disk.segments /\ disk'.head = disk.head
           /\ disk'.current = disk.current
           /\ disk'.compacted = disk.compacted \cup {p}
           /\ Held' = Held
           /\ DurableLog' = DurableLog
<1> DEFINE E == DurableEntries
<1>1. /\ disk'.segments = disk.segments /\ disk'.head = disk.head
      /\ disk'.current = disk.current
      /\ disk'.compacted = disk.compacted \cup {p}
      /\ disk'.receipts = disk.receipts \ Range(disk.segments[p].receipts)
  BY Zenon DEF CompactSegment, ChainInv, DiskType
<1>2. disk' \in DiskType
  <2>1. p \in Positions
    BY DurableBounds DEF ChainInv, DiskType, Positions
  <2> QED BY <2>1, Zenon DEF CompactSegment, ChainInv, DiskType
<1>3. E' = E
  BY <1>1, EntriesAre, Zenon
<1>4. Held' = Held /\ DurableLog' = DurableLog
  BY <1>3, Zenon DEF Held, DurableLog
<1>5. CompactedAway' = CompactedAway \cup Range(disk.segments[p].receipts)
  BY <1>1, Zenon DEF CompactedAway
<1>6. ChainInv'
  <2>1. Ranked(E') /\ \A n \in 1..Cardinality(E') : InOrder(E')[n].id = n
    BY <1>3, Zenon DEF ChainInv
  <2>2. disk'.receipts = Held' \ CompactedAway'
    BY <1>1, <1>4, <1>5, Zenon DEF ChainInv
  <2>3. Ranked(DurableEntries)' /\ \A n \in 1..Cardinality(DurableEntries)' : InOrder(DurableEntries)'[n].id = n
    BY <2>1, Zenon
  <2> QED BY <1>1, <1>2, <2>2, <2>3, Zenon DEF ChainInv, DiskType
<1> QED BY <1>1, <1>4, <1>6, Zenon

\* A step that leaves the disk alone leaves the log alone.
LEMMA DiskKept ==
    ASSUME ChainInv, disk' = disk
    PROVE  ChainInv' /\ Held' = Held /\ DurableLog' = DurableLog
<1>1. DurableEntries' = DurableEntries /\ CompactedAway' = CompactedAway
  BY EntriesAre, Zenon DEF CompactedAway
<1>2. Held' = Held /\ DurableLog' = DurableLog
  BY <1>1, Zenon DEF Held, DurableLog
<1> QED BY <1>1, <1>2, Zenon DEF ChainInv, DiskType

Rising(q) == \A i, j \in DOMAIN q : i < j => q[i] < q[j]

\* What is left of a tick with the disk d, the time t and the policy o: positions of sealed segments past their horizon, oldest first.
TodoSound(q, d, t, o) ==
    /\ q \in Seq(Positions)
    /\ q # <<>> => o # "disabled"
    /\ \A i \in DOMAIN q : q[i] \in 1..d.head /\ t - d.segments[q[i]].sealedAt >= Horizon
    /\ Rising(q)

\* The worker with bookkeeping u has asked for p, or will not: C is what is compacted.
AskedBy(u, C, p) == p \in u.awaiting \cup u.approved \/ (p \in C /\ p \notin Range(u.todo))

Asked(p) == {w \in Workers : AskedBy(worker[w], disk.compacted, p)}
ReportsOf(p, b) == {r \in Reports(p) : r.boot = b}

ReportsInv ==
    \A p \in Positions, b \in 0..MaxCrashes :
        /\ IsFiniteSet(ReportsOf(p, b))
        /\ Cardinality(ReportsOf(p, b)) <= Cardinality(Workers)
        /\ b = crashes => Cardinality(ReportsOf(p, b)) <= Cardinality(Asked(p))
        /\ b > crashes => ReportsOf(p, b) = {}

DurableInv ==
    /\ DurableTypeOK
    /\ RecoveredExactly
    /\ ChainInv
    /\ acked \cup unacked \subseteq Held
    /\ \A w \in Workers : TodoSound(worker[w].todo, disk, now, policy)
    /\ ReportsInv

\* What is left of a rising list when its first element is taken.
LEMMA TailOf ==
    ASSUME NEW q \in Seq(Positions), q # <<>>, Rising(q)
    PROVE  /\ Head(q) = q[1] /\ 1 \in DOMAIN q /\ Head(q) \in Range(q)
           /\ Tail(q) \in Seq(Positions) /\ Rising(Tail(q))
           /\ \A i \in DOMAIN Tail(q) : \E j \in DOMAIN q : Tail(q)[i] = q[j]
           /\ Range(Tail(q)) \subseteq Range(q)
           /\ Head(q) \notin Range(Tail(q))
<1> DEFINE t == Tail(q)
           n == Len(q)
<1>1. n \in Nat /\ n > 0 /\ DOMAIN q = 1..n /\ q[1] \in Positions
  OBVIOUS
<1>2. t \in Seq(Positions) /\ Len(t) = n - 1 /\ DOMAIN t = 1..(n - 1)
  OBVIOUS
<1>3. \A i \in 1..(n - 1) : t[i] = q[i + 1] /\ i + 1 \in DOMAIN q
  OBVIOUS
<1>4. Head(q) = q[1] /\ 1 \in DOMAIN q
  OBVIOUS
<1> HIDE DEF t, n
<1>5. Rising(t)
  <2> SUFFICES ASSUME NEW i \in 1..(n - 1), NEW j \in 1..(n - 1), i < j PROVE t[i] < t[j]
    BY <1>2, Zenon DEF Rising
  <2>1. i + 1 \in DOMAIN q /\ j + 1 \in DOMAIN q /\ i + 1 < j + 1
    BY <1>1, <1>3
  <2>2. q[i + 1] < q[j + 1]
    BY <2>1, Zenon DEF Rising
  <2> QED BY <1>3, <2>2, Zenon
<1>6. \A i \in DOMAIN t : t[i] # q[1]
  <2> SUFFICES ASSUME NEW i \in DOMAIN t PROVE t[i] # q[1]
    BY Zenon
  <2>1. q[1] < q[i + 1]
    <3>1. i \in 1..(n - 1) /\ i + 1 \in DOMAIN q /\ 1 \in DOMAIN q
      BY <1>2, <1>3, <1>4, Zenon
    <3>2. 1 < i + 1
      BY <1>1, <3>1
    <3> QED BY <3>1, <3>2, Zenon DEF Rising
  <2>2. q[1] \in Int
    BY <1>1, DurableBounds DEF Positions
  <2> QED BY <1>2, <1>3, <2>1, <2>2
<1>7. \A i \in DOMAIN t : \E j \in DOMAIN q : t[i] = q[j]
  BY <1>2, <1>3, Zenon
<1>8. Range(t) \subseteq Range(q) /\ Head(q) \in Range(q) /\ Head(q) \notin Range(t)
  BY <1>4, <1>6, <1>7, Zenon DEF Range
<1> QED BY <1>2, <1>4, <1>5, <1>7, <1>8, Zenon DEF t

\* A worker that goes on to the next segment has a sound list, and the segment it leaves
\* was past its horizon.
LEMMA TodoTail ==
    ASSUME NEW q, NEW d, NEW t, NEW o, q # <<>>, TodoSound(q, d, t, o)
    PROVE  /\ TodoSound(Tail(q), d, t, o)
           /\ Head(q) \in 1..d.head
           /\ t - d.segments[Head(q)].sealedAt >= Horizon
<1> DEFINE Due(p) == p \in 1..d.head /\ t - d.segments[p].sealedAt >= Horizon
<1>1. q \in Seq(Positions) /\ Rising(q)
  BY Zenon DEF TodoSound
<1>2. \A i \in DOMAIN q : Due(q[i])
  BY Zenon DEF TodoSound
<1>3. /\ Head(q) = q[1] /\ 1 \in DOMAIN q
      /\ Tail(q) \in Seq(Positions) /\ Rising(Tail(q))
      /\ \A i \in DOMAIN Tail(q) : \E j \in DOMAIN q : Tail(q)[i] = q[j]
  BY <1>1, TailOf, Zenon
<1> HIDE DEF Due
<1>4. (\A i \in DOMAIN Tail(q) : Due(Tail(q)[i])) /\ Due(Head(q))
  BY <1>2, <1>3, Zenon
<1> QED BY <1>3, <1>4, Zenon DEF TodoSound, Due

\* An empty list is sound.
LEMMA TodoEmpty == \A d, t, o : TodoSound(<<>>, d, t, o)
BY DEF TodoSound, Rising

\* The list a tick begins with is sound, and names no compacted segment.
LEMMA TodoStarts ==
    ASSUME ChainInv, policy # "disabled", NEW q \in EligibleSegments
    PROVE  TodoSound(q, disk, now, policy) /\ \A p \in disk.compacted : p \notin Range(q)
<1>1. disk.head \in Nat /\ 1..disk.head \subseteq Positions
  BY DurableBounds DEF ChainInv, DiskType, Positions
<1>2. Eligible \in SUBSET (1..disk.head)
  BY Zenon DEF Eligible
<1>3. IsFiniteSet(Eligible)
  <2>1. IsFiniteSet(1..disk.head)
    BY <1>1, FS_Interval
  <2> QED BY <1>2, <2>1, FS_Subset, Zenon
<1>4. Cardinality(Eligible) \in Nat
  BY <1>3, FS_CardinalityType, Zenon
<1>5. q \in [1..Cardinality(Eligible) -> Eligible] /\ Rising(q)
  BY Zenon DEF EligibleSegments, Rising
<1>6. q \in Seq(Positions)
  <2>1. q \in [1..Cardinality(Eligible) -> Positions]
    BY <1>1, <1>2, <1>5, Zenon
  <2> QED BY <1>4, <2>1
<1>7. \A i \in DOMAIN q : q[i] \in Eligible
  BY <1>5, Zenon
<1> QED BY <1>5, <1>6, <1>7, Zenon DEF TodoSound, Eligible, IsEligible, Range

\* Time passes and segments are added, but none is sealed anew: a tick's list stays sound.
LEMMA TodoKept ==
    ASSUME ChainInv, policy' = policy,
           now \in Nat, now' \in Nat, now <= now', disk'.head \in Nat, disk.head <= disk'.head,
           \A p \in 1..disk.head : disk'.segments[p] = disk.segments[p]
    PROVE  \A q : TodoSound(q, disk, now, policy) => TodoSound(q, disk', now', policy')
<1> SUFFICES ASSUME NEW q, TodoSound(q, disk, now, policy)
             PROVE  TodoSound(q, disk', now', policy')
  BY Zenon
<1>1. ASSUME NEW i \in DOMAIN q
      PROVE  q[i] \in 1..disk'.head /\ now' - disk'.segments[q[i]].sealedAt >= Horizon
  <2>1. q[i] \in 1..disk.head /\ now - disk.segments[q[i]].sealedAt >= Horizon
    BY Zenon DEF TodoSound
  <2>2. disk.segments[q[i]].sealedAt \in Int
    <3>1. MaxTime \in Nat
      BY DurableBounds, Zenon
    <3>2. disk.segments[q[i]] \in DurableSegment
      BY <2>1, DiskFacts, Zenon
    <3> QED BY <3>1, <3>2 DEF DurableSegment
  <2>3. disk.head \in Nat /\ Horizon \in Nat
    BY DurableBounds, DiskFacts, Zenon
  <2>4. disk'.segments[q[i]].sealedAt = disk.segments[q[i]].sealedAt
    BY <2>1, Zenon
  <2> QED BY <2>1, <2>2, <2>3, <2>4
<1> QED BY <1>1, Zenon DEF TodoSound

\* Sets of workers are finite.
LEMMA AskedFinite ==
    ASSUME NEW T \in SUBSET Workers
    PROVE  IsFiniteSet(T) /\ Cardinality(T) \in Nat /\ Cardinality(Workers) \in Nat
           /\ Cardinality(T) <= Cardinality(Workers)
<1>1. IsFiniteSet(Workers)
  BY DurableBounds, Zenon
<1>2. IsFiniteSet(T) /\ Cardinality(T) <= Cardinality(Workers)
  BY <1>1, FS_Subset, Zenon
<1> QED BY <1>1, <1>2, FS_CardinalityType, Zenon

\* No worker forgets that it asked, no record is added and no run begins.
LEMMA ReportsKept ==
    ASSUME ReportsInv, crashes' = crashes,
           \A p \in Positions, b \in 0..MaxCrashes : ReportsOf(p, b)' = ReportsOf(p, b),
           \A p \in Positions : Asked(p) \subseteq Asked(p)'
    PROVE  ReportsInv'
<1> SUFFICES ASSUME NEW p \in Positions, NEW b \in 0..MaxCrashes
             PROVE  /\ IsFiniteSet(ReportsOf(p, b)')
                    /\ Cardinality(ReportsOf(p, b)') <= Cardinality(Workers)
                    /\ b = crashes => Cardinality(ReportsOf(p, b)') <= Cardinality(Asked(p)')
                    /\ b > crashes => ReportsOf(p, b)' = {}
  BY Zenon DEF ReportsInv
<1>1. ReportsOf(p, b)' = ReportsOf(p, b)
  BY Zenon
<1>2. /\ IsFiniteSet(ReportsOf(p, b))
      /\ Cardinality(ReportsOf(p, b)) <= Cardinality(Workers)
      /\ b = crashes => Cardinality(ReportsOf(p, b)) <= Cardinality(Asked(p))
      /\ b > crashes => ReportsOf(p, b) = {}
  BY Zenon DEF ReportsInv
<1>3. Cardinality(ReportsOf(p, b)) \in Nat
  BY <1>2, FS_CardinalityType, Zenon
<1>4. Asked(p) \in SUBSET Workers /\ Asked(p)' \in SUBSET Workers /\ Asked(p) \in SUBSET Asked(p)'
  BY Zenon DEF Asked
<1>5. /\ IsFiniteSet(Asked(p)') /\ Cardinality(Asked(p)) \in Nat /\ Cardinality(Asked(p)') \in Nat
  BY <1>4, AskedFinite, Zenon
<1>6. Cardinality(Asked(p)) <= Cardinality(Asked(p)')
  BY <1>4, <1>5, FS_Subset, Zenon
<1> DEFINE k == Cardinality(ReportsOf(p, b))
           m == Cardinality(Asked(p))
           n == Cardinality(Asked(p)')
<1>7. b = crashes => k <= n
  <2>1. b = crashes => k <= m
    BY <1>2, Zenon
  <2>2. k \in Nat /\ m \in Nat /\ n \in Nat /\ m <= n
    BY <1>3, <1>5, <1>6, Zenon
  <2> HIDE DEF k, m, n
  <2> QED BY <2>1, <2>2
<1> QED BY <1>1, <1>2, <1>7, Zenon

\* A receipt r enters the log: a caller's, or a record about a segment by a worker that had
\* not asked for it before.
LEMMA ReportsAdded ==
    ASSUME ReportsInv, crashes' = crashes, crashes \in 0..MaxCrashes,
           NEW r \in Receipt, Held' = Held \cup {r}, r \notin Held, r.boot = crashes,
           \A p \in Positions : Asked(p) \subseteq Asked(p)',
           r.about \in Positions => \E w \in Workers : w \notin Asked(r.about) /\ w \in Asked(r.about)'
    PROVE  ReportsInv'
<1> SUFFICES ASSUME NEW p \in Positions, NEW b \in 0..MaxCrashes
             PROVE  /\ IsFiniteSet(ReportsOf(p, b)')
                    /\ Cardinality(ReportsOf(p, b)') <= Cardinality(Workers)
                    /\ b = crashes => Cardinality(ReportsOf(p, b)') <= Cardinality(Asked(p)')
                    /\ b > crashes => ReportsOf(p, b)' = {}
  BY Zenon DEF ReportsInv
<1> DEFINE R == ReportsOf(p, b)
           k == Cardinality(R)
           m == Cardinality(Asked(p))
           n == Cardinality(Asked(p)')
<1>1. /\ IsFiniteSet(R)
      /\ k <= Cardinality(Workers)
      /\ b = crashes => k <= m
      /\ b > crashes => R = {}
  BY Zenon DEF ReportsInv
<1>2. k \in Nat
  BY <1>1, FS_CardinalityType, Zenon
<1>3. Asked(p) \in SUBSET Workers /\ Asked(p)' \in SUBSET Workers /\ Asked(p) \in SUBSET Asked(p)'
  BY Zenon DEF Asked
<1>4. /\ IsFiniteSet(Asked(p)) /\ IsFiniteSet(Asked(p)') /\ m \in Nat /\ n \in Nat
      /\ Cardinality(Workers) \in Nat /\ n <= Cardinality(Workers)
  BY <1>3, AskedFinite, Zenon
<1>5. CASE r.about = p /\ b = crashes
  <2>1. ReportsOf(p, b)' = R \cup {r} /\ r \notin R
    BY <1>5, Zenon DEF ReportsOf, Reports
  <2>2. IsFiniteSet(R \cup {r}) /\ Cardinality(R \cup {r}) = k + 1
    <3>1. IsFiniteSet(R \cup {r}) /\ Cardinality(R \cup {r}) = IF r \in R THEN k ELSE k + 1
      BY <1>1, FS_AddElement, Zenon
    <3> QED BY <2>1, <3>1, Zenon
  <2>3. PICK w \in Workers : w \notin Asked(p) /\ w \in Asked(p)'
    BY <1>5, Zenon
  <2>4. Asked(p) \cup {w} \in SUBSET Asked(p)'
    BY <1>3, <2>3, Zenon
  <2>5. Cardinality(Asked(p) \cup {w}) = m + 1
    <3>1. Cardinality(Asked(p) \cup {w}) = IF w \in Asked(p) THEN m ELSE m + 1
      BY <1>4, FS_AddElement, Zenon
    <3> QED BY <2>3, <3>1, Zenon
  <2>6. m + 1 <= n
    BY <1>4, <2>4, <2>5, FS_Subset
  <2>7. IsFiniteSet(ReportsOf(p, b)') /\ Cardinality(ReportsOf(p, b)') = k + 1
    BY <2>1, <2>2, Zenon
  <2>8. k + 1 <= n /\ k + 1 <= Cardinality(Workers) /\ ~(b > crashes)
    <3> HIDE DEF k, m, n
    <3> QED BY <1>1, <1>2, <1>4, <1>5, <2>6
  <2> HIDE DEF k, m, n
  <2> QED BY <2>7, <2>8, Zenon DEF n
<1>6. CASE ~(r.about = p /\ b = crashes)
  <2>1. ReportsOf(p, b)' = R
    BY <1>6, Zenon DEF ReportsOf, Reports
  <2>2. m <= n
    BY <1>3, <1>4, FS_Subset, Zenon
  <2>3. b = crashes => k <= n
    <3> HIDE DEF k, m, n
    <3> QED BY <1>1, <1>2, <1>4, <2>2
  <2> QED BY <1>1, <2>1, <2>3, Zenon
<1> QED BY <1>5, <1>6, Zenon

\* A worker that forgets nothing leaves every segment asked for.
LEMMA AskedGrows ==
    ASSUME NEW w \in Workers, NEW v, worker' = [worker EXCEPT ![w] = v],
           worker \in [Workers -> [awaiting : SUBSET Positions, approved : SUBSET Positions,
                                   todo : Seq(Positions)]],
           disk.compacted \subseteq disk'.compacted,
           \A p \in Positions : AskedBy(worker[w], disk.compacted, p) => AskedBy(v, disk'.compacted, p)
    PROVE  \A p \in Positions : Asked(p) \subseteq Asked(p)'
<1> SUFFICES ASSUME NEW p \in Positions, NEW u \in Workers, AskedBy(worker[u], disk.compacted, p)
             PROVE  AskedBy(worker'[u], disk'.compacted, p)
  BY Zenon DEF Asked
<1>1. CASE u = w
  BY <1>1, Zenon
<1>2. CASE u # w
  <2>1. worker'[u] = worker[u]
    BY <1>2, Zenon
  <2> QED BY <2>1, Zenon DEF AskedBy
<1> QED BY <1>1, <1>2, Zenon

\* When no worker and no compaction changes, what was asked for stays asked for.
LEMMA AskedSame ==
    ASSUME worker' = worker, disk'.compacted = disk.compacted
    PROVE  \A p \in Positions : Asked(p) \subseteq Asked(p)'
BY Zenon DEF Asked

Bookkeeping == [awaiting : SUBSET Positions, approved : SUBSET Positions, todo : Seq(Positions)]

\* What DurableInv says, part by part.
LEMMA DurableFacts ==
    ASSUME DurableInv
    PROVE  /\ ChainInv /\ ReportsInv
           /\ Up => mem = [current |-> disk.current, head |-> disk.head]
           /\ worker \in [Workers -> Bookkeeping]
           /\ policy \in Policies /\ now \in 0..MaxTime /\ now \in Nat /\ MaxTime \in Nat
           /\ crashes \in 0..MaxCrashes /\ MaxCrashes \in Nat
           /\ unacked \subseteq Receipt /\ acked \subseteq Receipt
           /\ unacked \subseteq Held /\ acked \subseteq Held
           /\ \A w \in Workers : TodoSound(worker[w].todo, disk, now, policy)
<1>1. MaxTime \in Nat /\ MaxCrashes \in Nat
  BY DurableBounds, Zenon
<1> QED BY <1>1 DEF DurableInv, DurableTypeOK, RecoveredExactly, Bookkeeping

\* The parts of DurableInv make it up.
LEMMA DurableFrom ==
    ASSUME ChainInv', ReportsInv',
           mem' = Down \/ mem' = [current |-> disk'.current, head |-> disk'.head],
           worker' \in [Workers -> Bookkeeping],
           policy' \in Policies, now' \in 0..MaxTime, crashes' \in 0..MaxCrashes,
           acked' \cup unacked' \subseteq Receipt, acked' \cup unacked' \subseteq Held',
           \A w \in Workers : TodoSound(worker'[w].todo, disk', now', policy')
    PROVE  DurableInv'
<1>1. mem' \in {Down} \cup [current : Seq(Receipt), head : 0 .. DurableMaxSegments]
  <2>1. disk'.current \in Seq(Receipt) /\ disk'.head \in 0..DurableMaxSegments
    BY Zenon DEF ChainInv, DiskType
  <2> QED BY <2>1
<1>2. RecoveredExactly'
  BY Zenon DEF RecoveredExactly, Up
<1>3. DurableTypeOK'
  BY <1>1, Zenon DEF DurableTypeOK, ChainInv, DiskType, Bookkeeping
<1> QED BY <1>2, <1>3, Zenon DEF DurableInv

\* The lists of ticks stay sound while the disk only grows, and so does the new list of a
\* worker whose bookkeeping becomes v.
LEMMA TodoMoved ==
    ASSUME DurableInv, NEW w \in Workers, NEW v \in Bookkeeping,
           worker' = [worker EXCEPT ![w] = v], TodoSound(v.todo, disk, now, policy),
           UNCHANGED <<policy, now>>, disk'.head = disk.head, disk'.segments = disk.segments
    PROVE  /\ worker' \in [Workers -> Bookkeeping]
           /\ \A u \in Workers : TodoSound(worker'[u].todo, disk', now', policy')
<1>1. worker \in [Workers -> Bookkeeping]
  BY DurableFacts, Zenon
<1>2. \A u \in Workers : TodoSound(worker[u].todo, disk, now, policy)
  BY DurableFacts, Zenon
<1>3. \A q : TodoSound(q, disk, now, policy) => TodoSound(q, disk', now', policy')
  BY DurableFacts, DiskFacts, TodoKept
<1>4. \A u \in Workers : worker'[u] = IF u = w THEN v ELSE worker[u]
  BY <1>1, Zenon
<1>5. \A u \in Workers : TodoSound(worker'[u].todo, disk, now, policy)
  BY <1>2, <1>4, Zenon
<1> QED BY <1>1, <1>3, <1>5, Zenon

\* The lists of the workers stay sound while segments are only added and time passes.
LEMMA TodoStays ==
    ASSUME DurableInv, worker' = worker, policy' = policy, now' \in Nat, now <= now',
           disk'.head \in Nat, disk.head <= disk'.head,
           \A p \in 1..disk.head : disk'.segments[p] = disk.segments[p]
    PROVE  \A u \in Workers : TodoSound(worker'[u].todo, disk', now', policy')
<1>1. \A u \in Workers : TodoSound(worker[u].todo, disk, now, policy)
  BY DurableFacts, Zenon
<1>2. \A q : TodoSound(q, disk, now, policy) => TodoSound(q, disk', now', policy')
  BY DurableFacts, TodoKept, Zenon
<1> QED BY <1>1, <1>2, Zenon

\* The reports change only with the receipts.
LEMMA SameReports ==
    ASSUME Held' = Held
    PROVE  \A p \in Positions, b \in 0..MaxCrashes : ReportsOf(p, b)' = ReportsOf(p, b)
BY Zenon DEF ReportsOf, Reports

\* A new receipt has the next number.
LEMMA NewReceiptIs ==
    ASSUME DurableInv, NEW about \in 0..DurableMaxSegments,
           Cardinality(DurableEntries) < DurableMaxReceipts
    PROVE  /\ NewReceipt(about) \in Receipt
           /\ NewReceipt(about).id = Cardinality(DurableEntries) + 1
           /\ NewReceipt(about).about = about /\ NewReceipt(about).boot = crashes
<1>1. Cardinality(DurableEntries) \in Nat /\ DurableMaxReceipts \in Nat
  BY DurableFacts, NumberedOnce, DurableBounds, Zenon
<1>2. Cardinality(DurableEntries) + 1 \in 1..DurableMaxReceipts
  BY <1>1
<1> QED BY <1>2, DurableFacts, Zenon DEF NewReceipt, Receipt

\* append keeps DurableInv.
LEMMA AppendReceiptKeeps == DurableInv /\ AppendReceipt => DurableInv'
<1> SUFFICES ASSUME DurableInv, AppendReceipt PROVE DurableInv'
  BY Zenon
<1> USE DEF AppendReceipt
<1>1. PICK r : r = NewReceipt(0)
  BY Zenon
<1>2. r \in Receipt /\ r.id = Cardinality(DurableEntries) + 1 /\ r.about = 0 /\ r.boot = crashes
  BY <1>1, NewReceiptIs, DurableBounds
<1>3. PersistAppend(r) /\ unacked' = unacked \cup {r}
  BY <1>1, Zenon
<1>4. /\ ChainInv' /\ mem' = [current |-> disk'.current, head |-> disk'.head]
      /\ disk'.segments = disk.segments /\ disk'.head = disk.head
      /\ disk'.compacted = disk.compacted
      /\ Held' = Held \cup {r} /\ r \notin Held
  BY <1>2, <1>3, DurableFacts, AppendStep, Zenon
<1>5. ReportsInv'
  <2>1. \A p \in Positions : Asked(p) \subseteq Asked(p)'
    BY <1>4, AskedSame, Zenon
  <2>2. r.about \notin Positions
    BY <1>2 DEF Positions
  <2> QED BY <1>2, <1>4, <2>1, <2>2, DurableFacts, ReportsAdded, Zenon
<1>6. \A u \in Workers : TodoSound(worker'[u].todo, disk', now', policy')
  BY <1>4, DurableFacts, DiskFacts, TodoStays
<1>7. acked' \cup unacked' \subseteq Receipt /\ acked' \cup unacked' \subseteq Held'
  BY <1>2, <1>3, <1>4, DurableFacts, Zenon
<1> QED BY <1>4, <1>5, <1>6, <1>7, DurableFacts, DurableFrom, Zenon

\* Answering the caller keeps DurableInv: only what is on disk is acknowledged.
LEMMA AcknowledgeKeeps == DurableInv /\ Acknowledge => DurableInv'
<1> SUFFICES ASSUME DurableInv, Acknowledge PROVE DurableInv'
  BY Zenon
<1> USE DEF Acknowledge
<1>1. ChainInv' /\ Held' = Held
  BY DurableFacts, DiskKept, Zenon
<1>2. ReportsInv'
  BY <1>1, DurableFacts, SameReports, AskedSame, ReportsKept, Zenon
<1>3. \A u \in Workers : TodoSound(worker'[u].todo, disk', now', policy')
  BY DurableFacts, DiskFacts, TodoStays, Zenon
<1>4. acked' \cup unacked' \subseteq Receipt /\ acked' \cup unacked' \subseteq Held'
  BY <1>1, DurableFacts, Zenon
<1>5. mem' = [current |-> disk'.current, head |-> disk'.head]
  BY DurableFacts, Zenon
<1> QED BY <1>1, <1>2, <1>3, <1>4, <1>5, DurableFacts, DurableFrom, Zenon

\* seal keeps DurableInv.
LEMMA SealDurablyKeeps == DurableInv /\ SealDurably => DurableInv'
<1> SUFFICES ASSUME DurableInv, SealDurably PROVE DurableInv'
  BY Zenon
<1>0. UNCHANGED <<worker, policy, unacked, acked, now, crashes>> /\ Up
  BY Zenon DEF SealDurably
<1>1. /\ ChainInv' /\ mem' = [current |-> disk'.current, head |-> disk'.head]
      /\ disk'.compacted = disk.compacted /\ disk'.head = disk.head + 1
      /\ \A p \in 1..disk.head : disk'.segments[p] = disk.segments[p]
      /\ Held' = Held
  BY <1>0, DurableFacts, SealStep, Zenon
<1>2. ReportsInv'
  BY <1>0, <1>1, DurableFacts, SameReports, AskedSame, ReportsKept, Zenon
<1>3. \A u \in Workers : TodoSound(worker'[u].todo, disk', now', policy')
  BY <1>0, <1>1, DurableFacts, DiskFacts, TodoStays
<1>4. acked' \cup unacked' \subseteq Receipt /\ acked' \cup unacked' \subseteq Held'
  BY <1>0, <1>1, DurableFacts, Zenon
<1> QED BY <1>0, <1>1, <1>2, <1>3, <1>4, DurableFacts, DurableFrom, Zenon

\* A crash keeps DurableInv: memory is lost, the disk is not.
LEMMA CrashKeeps == DurableInv /\ Crash => DurableInv'
<1> SUFFICES ASSUME DurableInv, Crash PROVE DurableInv'
  BY Zenon
<1> USE DEF Crash
<1>1. ChainInv' /\ Held' = Held
  BY DurableFacts, DiskKept, Zenon
<1>2. ReportsInv'
  <2> SUFFICES ASSUME NEW p \in Positions, NEW b \in 0..MaxCrashes
               PROVE  /\ IsFiniteSet(ReportsOf(p, b)')
                      /\ Cardinality(ReportsOf(p, b)') <= Cardinality(Workers)
                      /\ b = crashes' => Cardinality(ReportsOf(p, b)') <= Cardinality(Asked(p)')
                      /\ b > crashes' => ReportsOf(p, b)' = {}
    BY Zenon DEF ReportsInv
  <2>1. ReportsOf(p, b)' = ReportsOf(p, b)
    BY <1>1, SameReports, Zenon
  <2>2. /\ IsFiniteSet(ReportsOf(p, b))
        /\ Cardinality(ReportsOf(p, b)) <= Cardinality(Workers)
        /\ b > crashes => ReportsOf(p, b) = {}
    BY DurableFacts, Zenon DEF ReportsInv
  <2>3. b >= crashes' => b > crashes
    BY DurableFacts
  <2>4. Cardinality(Asked(p)') \in Nat
    <3>1. Asked(p)' \in SUBSET Workers
      BY Zenon DEF Asked
    <3> QED BY <3>1, AskedFinite, Zenon
  <2>5. b = crashes' => Cardinality(ReportsOf(p, b)') = 0
    BY <2>1, <2>2, <2>3, DurableFacts, FS_EmptySet
  <2>6. b > crashes' => b >= crashes'
    BY DurableFacts
  <2> QED BY <2>1, <2>2, <2>3, <2>4, <2>5, <2>6
<1>3. worker' \in [Workers -> Bookkeeping]
  BY DEF NewWorker, Bookkeeping
<1>4. \A u \in Workers : TodoSound(worker'[u].todo, disk', now', policy')
  BY TodoEmpty, Zenon DEF NewWorker
<1>5. acked' \cup unacked' \subseteq Receipt /\ acked' \cup unacked' \subseteq Held'
  BY <1>1, DurableFacts, Zenon
<1>6. crashes' \in 0..MaxCrashes
  BY DurableFacts
<1> QED BY <1>1, <1>2, <1>3, <1>4, <1>5, <1>6, DurableFacts, DurableFrom, Zenon

\* Reopening keeps DurableInv: it reads back what is on disk.
LEMMA OpenKeeps == DurableInv /\ Open => DurableInv'
<1> SUFFICES ASSUME DurableInv, Open PROVE DurableInv'
  BY Zenon
<1> USE DEF Open
<1>1. ChainInv' /\ Held' = Held
  BY DurableFacts, DiskKept, Zenon
<1>2. ReportsInv'
  BY <1>1, DurableFacts, SameReports, AskedSame, ReportsKept, Zenon
<1>3. \A u \in Workers : TodoSound(worker'[u].todo, disk', now', policy')
  BY DurableFacts, DiskFacts, TodoStays, Zenon
<1>4. acked' \cup unacked' \subseteq Receipt /\ acked' \cup unacked' \subseteq Held'
  BY <1>1, DurableFacts, Zenon
<1> QED BY <1>1, <1>2, <1>3, <1>4, DurableFacts, DurableFrom, Zenon

\* The passage of time keeps DurableInv.
LEMMA ClockKeeps == DurableInv /\ ClockAdvances => DurableInv'
<1> SUFFICES ASSUME DurableInv, ClockAdvances PROVE DurableInv'
  BY Zenon
<1> USE DEF ClockAdvances
<1>1. ChainInv' /\ Held' = Held
  BY DurableFacts, DiskKept, Zenon
<1>2. ReportsInv'
  BY <1>1, DurableFacts, SameReports, AskedSame, ReportsKept, Zenon
<1>3. now' \in Nat /\ now <= now' /\ now' \in 0..MaxTime
  BY DurableFacts
<1>4. \A u \in Workers : TodoSound(worker'[u].todo, disk', now', policy')
  BY <1>3, DurableFacts, DiskFacts, TodoStays
<1>5. acked' \cup unacked' \subseteq Receipt /\ acked' \cup unacked' \subseteq Held'
  BY <1>1, DurableFacts, Zenon
<1>6. mem' = Down \/ mem' = [current |-> disk'.current, head |-> disk'.head]
  BY DurableFacts, Zenon DEF Up
<1> QED BY <1>1, <1>2, <1>3, <1>4, <1>5, <1>6, DurableFacts, DurableFrom, Zenon

\* A worker's step that leaves disk, memory and clock alone.
LEMMA WorkerOnly ==
    ASSUME DurableInv, NEW w \in Workers, NEW v \in Bookkeeping, Up,
           worker' = [worker EXCEPT ![w] = v],
           UNCHANGED <<disk, mem, policy, unacked, acked, now, crashes>>,
           TodoSound(v.todo, disk, now, policy),
           \A p \in Positions : AskedBy(worker[w], disk.compacted, p) => AskedBy(v, disk.compacted, p)
    PROVE  DurableInv'
<1>1. ChainInv' /\ Held' = Held
  BY DurableFacts, DiskKept, Zenon
<1>2. \A p \in Positions : Asked(p) \subseteq Asked(p)'
  BY DurableFacts, AskedGrows, Zenon DEF Bookkeeping
<1>3. ReportsInv'
  BY <1>1, <1>2, DurableFacts, SameReports, ReportsKept, Zenon
<1>4. /\ worker' \in [Workers -> Bookkeeping]
      /\ \A u \in Workers : TodoSound(worker'[u].todo, disk', now', policy')
  BY TodoMoved, Zenon
<1>5. acked' \cup unacked' \subseteq Receipt /\ acked' \cup unacked' \subseteq Held'
  BY <1>1, DurableFacts, Zenon
<1>6. mem' = [current |-> disk'.current, head |-> disk'.head]
  BY DurableFacts, Zenon
<1> QED BY <1>1, <1>3, <1>4, <1>5, <1>6, DurableFacts, DurableFrom, Zenon

\* A tick that begins takes the list of the segments past their horizon.
LEMMA TickStartKeeps == ASSUME NEW w \in Workers PROVE DurableInv /\ TickStart(w) => DurableInv'
<1> SUFFICES ASSUME DurableInv, TickStart(w) PROVE DurableInv'
  BY Zenon
<1>1. PICK q \in EligibleSegments : worker' = [worker EXCEPT ![w].todo = q]
  BY Zenon DEF TickStart
<1>2. /\ Up /\ worker[w].todo = <<>> /\ policy # "disabled"
      /\ UNCHANGED <<disk, mem, policy, unacked, acked, now, crashes>>
  BY Zenon DEF TickStart
<1>3. TodoSound(q, disk, now, policy) /\ \A p \in disk.compacted : p \notin Range(q)
  BY <1>2, DurableFacts, TodoStarts, Zenon
<1>4. PICK v : v = [worker[w] EXCEPT !.todo = q]
  BY Zenon
<1>5. worker[w] \in Bookkeeping /\ worker \in [Workers -> Bookkeeping] /\ q \in Seq(Positions)
  BY <1>3, DurableFacts, Zenon DEF TodoSound
<1>6. /\ v \in Bookkeeping /\ v.todo = q /\ v.awaiting = worker[w].awaiting
      /\ v.approved = worker[w].approved /\ worker' = [worker EXCEPT ![w] = v]
  BY <1>1, <1>4, <1>5, Zenon DEF Bookkeeping
<1>7. \A p \in Positions : AskedBy(worker[w], disk.compacted, p) => AskedBy(v, disk.compacted, p)
  BY <1>3, <1>6, Zenon DEF AskedBy
<1> QED BY <1>2, <1>3, <1>6, <1>7, WorkerOnly, Zenon

\* A tick that waits for an operator goes on to the next segment.
LEMMA TickWaitKeeps == ASSUME NEW w \in Workers PROVE DurableInv /\ TickWait(w) => DurableInv'
<1> SUFFICES ASSUME DurableInv, TickWait(w) PROVE DurableInv'
  BY Zenon
<1>1. /\ Up /\ worker[w].todo # <<>> /\ worker' = [worker EXCEPT ![w].todo = Tail(worker[w].todo)]
      /\ UNCHANGED <<disk, mem, policy, unacked, acked, now, crashes>>
  BY Zenon DEF TickWait
<1>2. PICK q : q = worker[w].todo
  BY Zenon
<1>3. PICK v : v = [worker[w] EXCEPT !.todo = Tail(q)]
  BY Zenon
<1>4. worker[w] \in Bookkeeping /\ worker \in [Workers -> Bookkeeping] /\ TodoSound(q, disk, now, policy)
  BY <1>2, DurableFacts, Zenon
<1>5. /\ TodoSound(Tail(q), disk, now, policy) /\ Tail(q) \in Seq(Positions)
      /\ Range(Tail(q)) \subseteq Range(q)
  BY <1>1, <1>2, <1>4, TodoTail, TailOf DEF TodoSound
<1>6. /\ v \in Bookkeeping /\ v.todo = Tail(q) /\ v.awaiting = worker[w].awaiting
      /\ v.approved = worker[w].approved /\ worker' = [worker EXCEPT ![w] = v]
  BY <1>1, <1>2, <1>3, <1>4, <1>5, Zenon DEF Bookkeeping
<1>7. \A p \in Positions : AskedBy(worker[w], disk.compacted, p) => AskedBy(v, disk.compacted, p)
  BY <1>2, <1>5, <1>6, Zenon DEF AskedBy
<1> QED BY <1>1, <1>5, <1>6, <1>7, WorkerOnly, Zenon

\* A tick that fails ends with an empty list.
LEMMA TickFailsKeeps == ASSUME NEW w \in Workers PROVE DurableInv /\ TickFails(w) => DurableInv'
<1> SUFFICES ASSUME DurableInv, TickFails(w) PROVE DurableInv'
  BY Zenon
<1>1. /\ Up /\ worker' = [worker EXCEPT ![w].todo = <<>>]
      /\ UNCHANGED <<disk, mem, policy, unacked, acked, now, crashes>>
  BY Zenon DEF TickFails
<1>2. PICK v : v = [worker[w] EXCEPT !.todo = <<>>]
  BY Zenon
<1>3. worker[w] \in Bookkeeping /\ worker \in [Workers -> Bookkeeping] /\ <<>> \in Seq(Positions)
  BY DurableFacts
<1>4. /\ v \in Bookkeeping /\ v.todo = <<>> /\ v.awaiting = worker[w].awaiting
      /\ v.approved = worker[w].approved /\ worker' = [worker EXCEPT ![w] = v]
  BY <1>1, <1>2, <1>3, Zenon DEF Bookkeeping
<1>5. TodoSound(v.todo, disk, now, policy)
  BY <1>4, TodoEmpty, Zenon
<1>6. Range(v.todo) = {}
  BY <1>4 DEF Range
<1>7. \A p \in Positions : AskedBy(worker[w], disk.compacted, p) => AskedBy(v, disk.compacted, p)
  BY <1>4, <1>6, Zenon DEF AskedBy
<1> QED BY <1>1, <1>4, <1>5, <1>7, WorkerOnly, Zenon

\* An operator's approval moves a segment from awaiting to approved.
LEMMA ApproveKeeps ==
    ASSUME NEW w \in Workers, NEW n \in Positions
    PROVE  DurableInv /\ ApproveSegment(w, n) => DurableInv'
<1> SUFFICES ASSUME DurableInv, ApproveSegment(w, n) PROVE DurableInv'
  BY Zenon
<1>1. /\ Up
      /\ worker' = [worker EXCEPT ![w].approved = @ \cup {n}, ![w].awaiting = @ \ {n}]
      /\ UNCHANGED <<disk, mem, policy, unacked, acked, now, crashes>>
  BY Zenon DEF ApproveSegment
<1>2. PICK v : v = [worker[w] EXCEPT !.approved = @ \cup {n}, !.awaiting = @ \ {n}]
  BY Zenon
<1>3. worker[w] \in Bookkeeping /\ worker \in [Workers -> Bookkeeping]
      /\ TodoSound(worker[w].todo, disk, now, policy)
  BY DurableFacts, Zenon
<1>4. /\ v \in Bookkeeping /\ v.todo = worker[w].todo /\ v.awaiting = worker[w].awaiting \ {n}
      /\ v.approved = worker[w].approved \cup {n} /\ worker' = [worker EXCEPT ![w] = v]
  BY <1>1, <1>2, <1>3, Zenon DEF Bookkeeping
<1>5. TodoSound(v.todo, disk, now, policy)
  BY <1>3, <1>4, Zenon
<1>6. \A p \in Positions : AskedBy(worker[w], disk.compacted, p) => AskedBy(v, disk.compacted, p)
  BY <1>4, Zenon DEF AskedBy
<1> QED BY <1>1, <1>4, <1>5, <1>6, WorkerOnly, Zenon

\* A tick that reports a segment as pending asks for it once.
LEMMA TickReportKeeps == ASSUME NEW w \in Workers PROVE DurableInv /\ TickReport(w) => DurableInv'
<1> SUFFICES ASSUME DurableInv, TickReport(w) PROVE DurableInv'
  BY Zenon
<1>1. PICK q, n : q = worker[w].todo /\ n = Head(q)
  BY Zenon
<1>2. /\ Up /\ q # <<>> /\ n \notin worker[w].approved /\ n \notin worker[w].awaiting
      /\ Cardinality(DurableEntries) < DurableMaxReceipts
      /\ PersistAppend(NewReceipt(n))
      /\ worker' = [worker EXCEPT ![w].awaiting = @ \cup {n}, ![w].todo = Tail(@)]
      /\ UNCHANGED <<policy, unacked, acked, now, crashes>>
  BY <1>1, Zenon DEF TickReport, MayCompact, Next_
<1>3. worker[w] \in Bookkeeping /\ worker \in [Workers -> Bookkeeping] /\ TodoSound(q, disk, now, policy)
  BY <1>1, DurableFacts, ZenonT(40)
<1>4. /\ TodoSound(Tail(q), disk, now, policy) /\ Tail(q) \in Seq(Positions)
      /\ Range(Tail(q)) \subseteq Range(q) /\ n \in Range(q) /\ n \in 1..disk.head
  BY <1>1, <1>2, <1>3, TodoTail, TailOf DEF TodoSound
<1>5. n \in Positions /\ n \in 0..DurableMaxSegments
  BY <1>4, DurableFacts, DurableBounds DEF ChainInv, DiskType, Positions
<1>6. PICK r : r = NewReceipt(n)
  BY Zenon
<1>7. r \in Receipt /\ r.id = Cardinality(DurableEntries) + 1 /\ r.about = n /\ r.boot = crashes
  BY <1>2, <1>5, <1>6, NewReceiptIs, Zenon
<1>8. PersistAppend(r)
  BY <1>2, <1>6, Zenon
<1>9. /\ ChainInv' /\ mem' = [current |-> disk'.current, head |-> disk'.head]
      /\ disk'.segments = disk.segments /\ disk'.head = disk.head
      /\ disk'.compacted = disk.compacted
      /\ Held' = Held \cup {r} /\ r \notin Held
  BY <1>2, <1>7, <1>8, DurableFacts, AppendStep, Zenon
<1>10. PICK v : v = [worker[w] EXCEPT !.awaiting = @ \cup {n}, !.todo = Tail(q)]
  BY Zenon
<1>11. /\ v \in Bookkeeping /\ v.todo = Tail(q) /\ v.awaiting = worker[w].awaiting \cup {n}
       /\ v.approved = worker[w].approved /\ worker' = [worker EXCEPT ![w] = v]
  BY <1>1, <1>2, <1>3, <1>4, <1>5, <1>10, ZenonT(30) DEF Bookkeeping
<1>12. \A p \in Positions : AskedBy(worker[w], disk.compacted, p) => AskedBy(v, disk'.compacted, p)
  BY <1>1, <1>4, <1>9, <1>11, Zenon DEF AskedBy
<1>13. \A p \in Positions : Asked(p) \subseteq Asked(p)'
  BY <1>3, <1>9, <1>11, <1>12, AskedGrows, Zenon DEF Bookkeeping
<1>14. w \notin Asked(n) /\ w \in Asked(n)'
  <2>1. ~AskedBy(worker[w], disk.compacted, n)
    BY <1>1, <1>2, <1>4, Zenon DEF AskedBy
  <2>2. AskedBy(v, disk'.compacted, n) /\ worker'[w] = v
    BY <1>3, <1>11, Zenon DEF AskedBy
  <2> QED BY <2>1, <2>2, Zenon DEF Asked
<1>15. ReportsInv'
  BY <1>2, <1>7, <1>9, <1>13, <1>14, DurableFacts, ReportsAdded, Zenon
<1>16. /\ worker' \in [Workers -> Bookkeeping]
       /\ \A u \in Workers : TodoSound(worker'[u].todo, disk', now', policy')
  BY <1>2, <1>4, <1>9, <1>11, TodoMoved, Zenon
<1>17. acked' \cup unacked' \subseteq Receipt /\ acked' \cup unacked' \subseteq Held'
  BY <1>2, <1>9, DurableFacts, Zenon
<1> QED BY <1>2, <1>9, <1>15, <1>16, <1>17, DurableFacts, DurableFrom, ZenonT(40)

\* A tick that compacts a segment keeps DurableInv.
LEMMA TickCompactKeeps == ASSUME NEW w \in Workers PROVE DurableInv /\ TickCompact(w) => DurableInv'
<1> SUFFICES ASSUME DurableInv, TickCompact(w) PROVE DurableInv'
  BY Zenon
<1>1. PICK q, n : q = worker[w].todo /\ n = Head(q)
  BY Zenon
<1>2. /\ Up /\ q # <<>> /\ CompactSegment(n)
      /\ worker' = [worker EXCEPT ![w] = [awaiting |-> worker[w].awaiting \ {n},
                                          approved |-> worker[w].approved \ {n},
                                          todo |-> Tail(q)]]
      /\ UNCHANGED <<mem, policy, unacked, acked, now, crashes>>
  BY <1>1, ZenonT(40) DEF TickCompact, Next_
<1>3. worker[w] \in Bookkeeping /\ worker \in [Workers -> Bookkeeping] /\ TodoSound(q, disk, now, policy)
  BY <1>1, DurableFacts, Zenon
<1>4. /\ TodoSound(Tail(q), disk, now, policy) /\ Tail(q) \in Seq(Positions)
      /\ Range(Tail(q)) \subseteq Range(q) /\ n \notin Range(Tail(q)) /\ n \in 1..disk.head
  BY <1>1, <1>2, <1>3, TodoTail, TailOf DEF TodoSound
<1>5. /\ ChainInv' /\ disk'.segments = disk.segments /\ disk'.head = disk.head
      /\ disk'.current = disk.current /\ disk'.compacted = disk.compacted \cup {n}
      /\ Held' = Held
  BY <1>2, <1>4, DurableFacts, CompactStep, Zenon
<1>6. PICK v : v = [awaiting |-> worker[w].awaiting \ {n}, approved |-> worker[w].approved \ {n},
                    todo |-> Tail(q)]
  BY Zenon
<1>7. /\ v \in Bookkeeping /\ v.todo = Tail(q) /\ v.awaiting = worker[w].awaiting \ {n}
      /\ v.approved = worker[w].approved \ {n} /\ worker' = [worker EXCEPT ![w] = v]
  BY <1>2, <1>3, <1>4, <1>6, Zenon DEF Bookkeeping
<1>8. \A p \in Positions : AskedBy(worker[w], disk.compacted, p) => AskedBy(v, disk'.compacted, p)
  BY <1>1, <1>4, <1>5, <1>7, Zenon DEF AskedBy
<1>9. \A p \in Positions : Asked(p) \subseteq Asked(p)'
  BY <1>3, <1>5, <1>7, <1>8, AskedGrows, Zenon DEF Bookkeeping
<1>10. ReportsInv'
  BY <1>2, <1>5, <1>9, DurableFacts, SameReports, ReportsKept, ZenonT(40)
<1>11. /\ worker' \in [Workers -> Bookkeeping]
       /\ \A u \in Workers : TodoSound(worker'[u].todo, disk', now', policy')
  BY <1>2, <1>4, <1>5, <1>7, TodoMoved, ZenonT(40)
<1>12. acked' \cup unacked' \subseteq Receipt /\ acked' \cup unacked' \subseteq Held'
  BY <1>2, <1>5, DurableFacts, Zenon
<1>13. mem' = [current |-> disk'.current, head |-> disk'.head]
  BY <1>2, <1>5, DurableFacts, Zenon
<1> QED BY <1>2, <1>5, <1>10, <1>11, <1>12, <1>13, DurableFacts, DurableFrom, Zenon

\* DurableInv holds on an empty disk.
LEMMA DurableStarts == DurableInit => DurableInv
<1> SUFFICES ASSUME DurableInit PROVE DurableInv
  BY Zenon
<1> USE DEF DurableInit
<1>1. /\ disk.segments = <<>> /\ disk.head = 0 /\ disk.current = <<>> /\ disk.compacted = {}
      /\ disk.receipts = {}
  BY Zenon DEF EmptyDisk
<1>2. DurableEntries = {}
  <2>1. 1..0 = {} /\ DOMAIN <<>> = {}
    OBVIOUS
  <2>2. ASSUME NEW e PROVE e \notin EntriesOf(disk.segments, disk.head, disk.current)
    <3>1. ~InSealed(e, disk.segments, disk.head)
      BY <1>1, <2>1, Zenon DEF InSealed
    <3>2. e \notin EntriesAt(disk.head + 1, disk.current)
      BY <1>1, <2>1, Zenon DEF EntriesAt
    <3> QED BY <1>1, <3>1, <3>2, EntryIs
  <2> QED BY <2>2, EntriesAre, Zenon
<1>3. Held = {} /\ CompactedAway = {}
  BY <1>1, <1>2, Zenon DEF Held, CompactedAway
<1>4. Ranked({}) /\ Cardinality({}) = 0
  BY FS_EmptySet DEF Ranked
<1>5. disk \in DiskType
  <2>1. <<>> \in Seq(Receipt) /\ <<>> \in Seq(DurableSegment) /\ 0 \in 0..DurableMaxSegments
    BY DurableBounds
  <2> QED BY <2>1, Zenon DEF DiskType, EmptyDisk
<1>6. ChainInv
  <2>1. \A n \in 1..Cardinality(DurableEntries) : InOrder(DurableEntries)[n].id = n
    BY <1>2, <1>4
  <2>2. Ranked(DurableEntries)
    BY <1>2, <1>4, Zenon
  <2>3. Len(<<>>) = 0 /\ 1..0 = {}
    OBVIOUS
  <2> QED BY <1>1, <1>3, <1>5, <2>1, <2>2, <2>3, Zenon DEF ChainInv
<1>7. ReportsInv
  <2> SUFFICES ASSUME NEW p \in Positions, NEW b \in 0..MaxCrashes
               PROVE  /\ IsFiniteSet(ReportsOf(p, b))
                      /\ Cardinality(ReportsOf(p, b)) <= Cardinality(Workers)
                      /\ b = crashes => Cardinality(ReportsOf(p, b)) <= Cardinality(Asked(p))
                      /\ b > crashes => ReportsOf(p, b) = {}
    BY Zenon DEF ReportsInv
  <2>1. ReportsOf(p, b) = {}
    BY <1>3, Zenon DEF ReportsOf, Reports
  <2>2. Asked(p) \in SUBSET Workers
    BY Zenon DEF Asked
  <2>3. Cardinality(Asked(p)) \in Nat /\ Cardinality(Workers) \in Nat
    BY <2>2, AskedFinite, Zenon
  <2> QED BY <2>1, <2>3, FS_EmptySet
<1>8. worker \in [Workers -> Bookkeeping]
  BY DEF NewWorker, Bookkeeping
<1>9. \A w \in Workers : TodoSound(worker[w].todo, disk, now, policy)
  BY TodoEmpty, Zenon DEF NewWorker
<1>10. DurableTypeOK
  <2>1. 0 \in 0..MaxTime /\ 0 \in 0..MaxCrashes /\ 0 \in 0..DurableMaxSegments /\ <<>> \in Seq(Receipt)
    BY DurableBounds
  <2> QED BY <1>5, <1>8, <2>1, Zenon DEF DurableTypeOK, DiskType, Bookkeeping
<1>11. RecoveredExactly
  BY <1>1, Zenon DEF RecoveredExactly
<1> QED BY <1>3, <1>6, <1>7, <1>9, <1>10, <1>11, Zenon DEF DurableInv

\* Every step keeps DurableInv.
LEMMA DurableSteps == DurableInv /\ [DurableNext]_durableVars => DurableInv'
<1> SUFFICES ASSUME DurableInv, [DurableNext]_durableVars PROVE DurableInv'
  BY Zenon
<1>1. CASE UNCHANGED durableVars
  <2>1. /\ UNCHANGED <<disk, mem, worker, policy, unacked, acked, now, crashes>>
    BY <1>1, Zenon DEF durableVars
  <2>2. ChainInv' /\ Held' = Held
    BY <2>1, DurableFacts, DiskKept, Zenon
  <2>3. ReportsInv'
    BY <2>1, <2>2, DurableFacts, SameReports, AskedSame, ReportsKept, Zenon
  <2>4. mem' = Down \/ mem' = [current |-> disk'.current, head |-> disk'.head]
    BY <2>1, DurableFacts, Zenon DEF Up
  <2> QED BY <2>1, <2>2, <2>3, <2>4, DurableFacts, DurableFrom, Zenon
<1>2. CASE AppendReceipt
  BY <1>2, AppendReceiptKeeps, Zenon
<1>3. CASE Acknowledge
  BY <1>3, AcknowledgeKeeps, ZenonT(40)
<1>4. CASE SealDurably
  BY <1>4, SealDurablyKeeps, Zenon
<1>5. CASE Crash
  BY <1>5, CrashKeeps, Zenon
<1>6. CASE Open
  BY <1>6, OpenKeeps, Zenon
<1>7. CASE ClockAdvances
  BY <1>7, ClockKeeps, Zenon
<1>8. ASSUME NEW w \in Workers, Tick(w) PROVE DurableInv'
  BY <1>8, TickStartKeeps, TickCompactKeeps, TickWaitKeeps, TickReportKeeps, TickFailsKeeps, Zenon DEF Tick
<1>9. ASSUME NEW w \in Workers, NEW p \in Positions, ApproveSegment(w, p) PROVE DurableInv'
  BY <1>9, ApproveKeeps, Zenon
<1> QED BY <1>1, <1>2, <1>3, <1>4, <1>5, <1>6, <1>7, <1>8, <1>9, Zenon DEF DurableNext

\* DurableInv says what CrashSafe says.
LEMMA DurableInvImplies == DurableInv => CrashSafe
<1> SUFFICES ASSUME DurableInv PROVE CrashSafe
  BY Zenon
<1>1. DurableTypeOK /\ RecoveredExactly /\ AckedSurvive
  BY Zenon DEF DurableInv, AckedSurvive
<1>2. ReadableUnlessCompacted
  <2> SUFFICES ASSUME Up PROVE Readable = Held \ CompactedAway
    BY Zenon DEF ReadableUnlessCompacted
  <2>1. mem.current = disk.current
    BY DurableFacts
  <2>2. disk.receipts = Held \ CompactedAway
    BY DurableFacts, Zenon DEF ChainInv
  <2> QED BY <2>1, <2>2, DurableFacts, HeldFacts, Zenon DEF Readable
<1>3. AlwaysRecoverable
  <2>1. DOMAIN disk.segments = 1..disk.head
    BY DurableFacts, DiskFacts
  <2> QED BY <2>1, DurableFacts, Zenon DEF AlwaysRecoverable, Verifies, ChainInv
<1>4. ReportedOncePerBoot
  <2>1. \A p \in Positions, b \in 0..MaxCrashes : Cardinality(ReportsOf(p, b)) <= Cardinality(Workers)
    BY DurableFacts, Zenon DEF ReportsInv
  <2> QED BY <2>1, Zenon DEF ReportedOncePerBoot, ReportsOf
<1> QED BY <1>1, <1>2, <1>3, <1>4, Zenon DEF CrashSafe

\* Whatever the crashes, nothing acknowledged is lost, memory after a reopen is what
\* the disk holds, every row not compacted can be read, and a run of the process records a
\* pending segment no more often than it has workers.
THEOREM DurableLogIsCrashSafe == DurableSpec => []CrashSafe
BY DurableStarts, DurableSteps, DurableInvImplies, PTL DEF DurableSpec

\* The step form of CompactionJustified.
Justified ==
    \A p \in disk'.compacted \ disk.compacted :
       /\ now - disk.segments[p].sealedAt >= Horizon
       /\ policy = "operator_approval" => \E w \in Workers : p \in worker[w].approved
       /\ policy # "disabled"

\* A step compacts a segment only past its horizon and as the policy allows.
LEMMA CompactionSteps == DurableInv /\ [DurableNext]_durableVars => [Justified]_durableVars
<1> SUFFICES ASSUME DurableInv, DurableNext PROVE Justified
  BY Zenon
<1>1. ASSUME disk'.compacted = disk.compacted PROVE Justified
  BY <1>1, Zenon DEF Justified
<1>2. ASSUME NEW r, PersistAppend(r) PROVE disk'.compacted = disk.compacted
  BY <1>2, DurableFacts, Zenon DEF PersistAppend, ChainInv, DiskType
<1>3. CASE AppendReceipt
  <2>1. PICK r : r = NewReceipt(0)
    BY Zenon
  <2> QED BY <1>1, <1>2, <1>3, <2>1, Zenon DEF AppendReceipt
<1>4. CASE SealDurably
  BY <1>1, <1>4, DurableFacts, Zenon DEF SealDurably, PersistSeal, ChainInv, DiskType
<1>5. CASE Acknowledge \/ Crash \/ Open \/ ClockAdvances
  BY <1>1, <1>5, Zenon DEF Acknowledge, Crash, Open, ClockAdvances
<1>6. ASSUME NEW w \in Workers, TickStart(w) \/ TickWait(w) \/ TickFails(w) PROVE Justified
  BY <1>1, <1>6, Zenon DEF TickStart, TickWait, TickFails
<1>7. ASSUME NEW w \in Workers, TickReport(w) PROVE Justified
  <2>1. PICK r : r = NewReceipt(Next_(w))
    BY Zenon
  <2> QED BY <1>1, <1>2, <1>7, <2>1, Zenon DEF TickReport
<1>8. ASSUME NEW w \in Workers, TickCompact(w) PROVE Justified
  <2>1. PICK q, n : q = worker[w].todo /\ n = Head(q)
    BY Zenon
  <2>3. q # <<>> /\ CompactSegment(n)
    BY <1>8, <2>1, Zenon DEF TickCompact, Next_
  <2>4. TodoSound(q, disk, now, policy)
    BY <2>1, DurableFacts, Zenon
  <2>5. n \in 1..disk.head /\ now - disk.segments[n].sealedAt >= Horizon /\ policy # "disabled"
    BY <2>1, <2>3, <2>4, TodoTail, Zenon DEF TodoSound
  <2>6. disk'.compacted = disk.compacted \cup {n}
    BY <2>3, <2>5, DurableFacts, CompactStep, Zenon
  <2>7. policy = "operator_approval" => n \in worker[w].approved
    BY <1>8, <2>1, Zenon DEF TickCompact, MayCompact, Next_
  <2> QED BY <2>5, <2>6, <2>7, Zenon DEF Justified
<1>9. ASSUME NEW w \in Workers, NEW p \in Positions, ApproveSegment(w, p) PROVE Justified
  BY <1>1, <1>9, Zenon DEF ApproveSegment
<1> QED BY <1>3, <1>4, <1>5, <1>6, <1>7, <1>8, <1>9, Zenon DEF DurableNext, Tick

\* Every compaction is justified, for any number of workers, segments and receipts.
THEOREM CompactionsAreJustified == DurableSpec => CompactionJustified
<1>1. DurableInv /\ [DurableNext]_durableVars
        => [\A p \in disk'.compacted \ disk.compacted :
              /\ now - disk.segments[p].sealedAt >= Horizon
              /\ policy = "operator_approval" => \E w \in Workers : p \in worker[w].approved
              /\ policy # "disabled"]_durableVars
  BY CompactionSteps, Zenon DEF Justified
<1> QED BY <1>1, DurableStarts, DurableSteps, PTL DEF DurableSpec, CompactionJustified

\* The durable log begins empty.
LEMMA LogStarts == DurableInit => DurableAppendOnly!LogInit
<1> SUFFICES ASSUME DurableInit PROVE DurableLog = <<>>
  BY Zenon DEF DurableAppendOnly!LogInit
<1>1. DurableInv /\ disk.head = 0 /\ disk.current = <<>>
  BY DurableStarts, Zenon DEF DurableInit, EmptyDisk
<1>2. DurableLog \in Seq({e.receipt : e \in DurableEntries}) /\ Len(DurableLog) = Cardinality(DurableEntries)
  BY <1>1, DurableFacts, OrderIsSeq, Zenon DEF DurableLog, ChainInv
<1>3. DurableEntries = {}
  <2>1. 1..0 = {} /\ DOMAIN <<>> = {}
    OBVIOUS
  <2>2. ASSUME NEW e PROVE e \notin EntriesOf(disk.segments, disk.head, disk.current)
    <3>1. ~InSealed(e, disk.segments, disk.head)
      BY <1>1, <2>1, Zenon DEF InSealed
    <3>2. e \notin EntriesAt(disk.head + 1, disk.current)
      BY <1>1, <2>1, Zenon DEF EntriesAt
    <3> QED BY <1>1, <3>1, <3>2, EntryIs
  <2> QED BY <2>2, EntriesAre, Zenon
<1>4. Len(DurableLog) = 0
  BY <1>2, <1>3, FS_EmptySet, Zenon
<1> QED BY <1>2, <1>4

\* persist_append is a step of the abstract log.
LEMMA LogExtends ==
    ASSUME DurableInv, Up, NEW r \in Receipt, r.id = Cardinality(DurableEntries) + 1, PersistAppend(r)
    PROVE  DurableAppendOnly!LogNext \/ DurableLog' = DurableLog
<1>1. DurableLog' = Append(DurableLog, r) /\ r \notin Held
  BY DurableFacts, AppendStep, Zenon
<1>2. r \notin DurableAppendOnly!Logged
  <2>1. DurableLog \in Seq({e.receipt : e \in DurableEntries})
    BY DurableFacts, OrderIsSeq, Zenon DEF DurableLog, ChainInv
  <2>2. \A i \in DOMAIN DurableLog : DurableLog[i] \in Held
    BY <2>1 DEF Held
  <2> QED BY <1>1, <2>2, Zenon DEF DurableAppendOnly!Logged
<1> QED BY <1>1, <1>2, Zenon DEF DurableAppendOnly!LogNext, DurableAppendOnly!Extend

\* Every step extends the abstract log by one new receipt or leaves it alone.
LEMMA LogSteps == DurableInv /\ [DurableNext]_durableVars => [DurableAppendOnly!LogNext]_DurableLog
<1> SUFFICES ASSUME DurableInv, [DurableNext]_durableVars
             PROVE  DurableAppendOnly!LogNext \/ DurableLog' = DurableLog
  BY Zenon
<1>1. ASSUME disk' = disk PROVE DurableLog' = DurableLog
  BY <1>1, DurableFacts, DiskKept, Zenon
<1>2. CASE UNCHANGED durableVars
  BY <1>1, <1>2, Zenon DEF durableVars
<1>3. CASE AppendReceipt
  <2>1. PICK r : r = NewReceipt(0)
    BY Zenon
  <2>2. r \in Receipt /\ r.id = Cardinality(DurableEntries) + 1
    BY <1>3, <2>1, NewReceiptIs, DurableBounds DEF AppendReceipt
  <2> QED BY <1>3, <2>1, <2>2, LogExtends, Zenon DEF AppendReceipt
<1>4. CASE SealDurably
  BY <1>4, DurableFacts, SealStep, Zenon DEF SealDurably
<1>5. CASE Acknowledge \/ Crash \/ Open \/ ClockAdvances
  BY <1>1, <1>5, Zenon DEF Acknowledge, Crash, Open, ClockAdvances
<1>6. ASSUME NEW w \in Workers, TickStart(w) \/ TickWait(w) \/ TickFails(w)
      PROVE  DurableLog' = DurableLog
  BY <1>1, <1>6, Zenon DEF TickStart, TickWait, TickFails
<1>7. ASSUME NEW w \in Workers, TickReport(w) \/ TickCompact(w)
      PROVE  DurableAppendOnly!LogNext \/ DurableLog' = DurableLog
  <2>1. PICK q, n : q = worker[w].todo /\ n = Head(q)
    BY Zenon
  <2>2. q # <<>> /\ TodoSound(q, disk, now, policy)
    BY <1>7, <2>1, DurableFacts, Zenon DEF TickReport, TickCompact
  <2>3. n \in 1..disk.head
    BY <2>1, <2>2, TodoTail, Zenon
  <2>4. CASE TickCompact(w)
    <3>1. CompactSegment(n)
      BY <2>1, <2>4, Zenon DEF TickCompact, Next_
    <3> QED BY <2>3, <3>1, DurableFacts, CompactStep, Zenon
  <2>5. CASE TickReport(w)
    <3>1. n \in 0..DurableMaxSegments
      BY <2>3, DurableFacts, DurableBounds DEF ChainInv, DiskType
    <3>2. PICK r : r = NewReceipt(n)
      BY Zenon
    <3>3. r \in Receipt /\ r.id = Cardinality(DurableEntries) + 1
      BY <2>5, <3>1, <3>2, NewReceiptIs, Zenon DEF TickReport
    <3>4. PersistAppend(r) /\ Up
      BY <2>1, <2>5, <3>2, Zenon DEF TickReport, Next_
    <3> QED BY <3>3, <3>4, LogExtends, Zenon
  <2> QED BY <1>7, <2>4, <2>5, Zenon
<1>8. ASSUME NEW w \in Workers, NEW p \in Positions, ApproveSegment(w, p) PROVE DurableLog' = DurableLog
  BY <1>1, <1>8, Zenon DEF ApproveSegment
<1> QED BY <1>2, <1>3, <1>4, <1>5, <1>6, <1>7, <1>8, Zenon DEF DurableNext, Tick

\* The durable log implements the append-only log: crash, reopen, sealing and
\* compaction are invisible in it.
THEOREM DurableLogRefines == DurableSpec => DurableIsAppendOnly
BY LogStarts, LogSteps, DurableStarts, DurableSteps, PTL
   DEF DurableSpec, DurableIsAppendOnly, DurableAppendOnly!LogSpec

--------------------------------------------------------------------------------
(* The stream. ChainedInv says that the sealed segments, stored or not, and the *)
(* open chain hold the receipts in the order of their numbers; ChannelInv that  *)
(* each is broadcast once; ConnectionSound what an attached connection has      *)
(* received of it.                                                              *)

\* What the channel carries: each receipt broadcast once, after it was appended.
ChannelInv ==
    /\ \A p, q \in DOMAIN channel : channel[p] = channel[q] => p = q
    /\ \A p \in DOMAIN channel : channel[p] \in 1..count /\ channel[p] \notin Unsent
    /\ \A r \in 1..count : r \in Unsent \/ \E p \in DOMAIN channel : channel[p] = r
    /\ \A v, w \in Writers : writer[v].op = "send" /\ writer[w].op = "send"
                               /\ writer[v].receipt = writer[w].receipt => v = w
    /\ Unsent \subseteq 1..count

\* What a connection c has received, when n receipts were appended and h is the channel.
ConnectionSound(c, h, n) ==
    /\ \A i \in DOMAIN c.got : c.got[i] <= n
    /\ c.since <= n
    /\ c.pc = "live" =>
         /\ c.next <= Len(h) + 1
         /\ \A i, j \in DOMAIN c.got : c.got[i] = c.got[j] /\ c.got[i] > c.since => i = j
         /\ \A i \in DOMAIN c.got : c.got[i] > c.since =>
              \E p \in DOMAIN h : p < c.next /\ h[p] = c.got[i]
         /\ \A p \in DOMAIN h : (h[p] > c.since /\ p < c.next /\ p + Capacity > Len(h)) =>
              \E i \in DOMAIN c.got : c.got[i] = h[p]

ChainedInv ==
    /\ \A g \in Sealed : g.prev < link
    /\ \A i \in DOMAIN chain : chain[i] <= count
    /\ Ranked(Entries) /\ Cardinality(Entries) = count
    /\ \A n \in 1..count : InOrder(Entries)[n] = n

StreamInv ==
    /\ TypeOK
    /\ ChainedInv
    /\ ChannelInv
    /\ \A s \in Subscribers : ConnectionSound(sub[s], channel, count)

Task == {Free} \cup [op : {"send"}, receipt : Receipts] \cup [op : {"push"}, seg : Segment]

Connection == [pc : {"closed", "replayed", "live"}, calls : 0 .. MaxCalls,
               bookmark : 0 .. MaxReceipts, upto : 0 .. MaxReceipts, since : 0 .. MaxReceipts,
               next : 1 .. MaxReceipts + 1, got : Seq(Receipts)]

\* The types of the stream's variables, part by part.
LEMMA StreamFacts ==
    ASSUME TypeOK
    PROVE  /\ chain \in Seq(Receipts) /\ channel \in Seq(Receipts) /\ store \in Seq(Segment)
           /\ link \in 0..MaxSegments /\ link \in Nat /\ MaxSegments \in Nat
           /\ count \in 0..MaxReceipts /\ count \in Nat /\ MaxReceipts \in Nat
           /\ Capacity \in Nat \ {0} /\ MaxCalls \in Nat
           /\ writer \in [Writers -> Task] /\ sub \in [Subscribers -> Connection]
<1>1. MaxSegments \in Nat /\ MaxReceipts \in Nat /\ MaxCalls \in Nat /\ Capacity \in Nat \ {0}
  BY StreamBounds, Zenon
<1> QED BY <1>1 DEF TypeOK, Task, Connection

\* A segment is sealed when it is stored or on its way to the store.
LEMMA SealedIs ==
    \A g : g \in Sealed <=> \/ g \in Range(store)
                            \/ \E w \in Writers : writer[w].op = "push" /\ g = writer[w].seg
BY Zenon DEF Sealed

\* The same after a step.
LEMMA SealedIsNext ==
    \A g : g \in Sealed' <=> \/ g \in Range(store')
                             \/ \E w \in Writers : writer'[w].op = "push" /\ g = writer'[w].seg
BY Zenon DEF Sealed

\* A receipt is unsent while its writer has it in hand.
LEMMA UnsentIs ==
    /\ \A r : r \in Unsent <=> \E w \in Writers : writer[w].op = "send" /\ r = writer[w].receipt
    /\ \A r : r \in Unsent' <=> \E w \in Writers : writer'[w].op = "send" /\ r = writer'[w].receipt
BY Zenon DEF Unsent

\* What a writer may have in hand.
LEMMA TaskOps ==
    /\ Free \in Task /\ Free.op = "free"
    /\ \A r : [op |-> "send", receipt |-> r].op = "send" /\ [op |-> "send", receipt |-> r].receipt = r
    /\ \A g : [op |-> "push", seg |-> g].op = "push" /\ [op |-> "push", seg |-> g].seg = g
    /\ \A r \in Receipts : [op |-> "send", receipt |-> r] \in Task
    /\ \A g \in Segment : [op |-> "push", seg |-> g] \in Task
    /\ \A t \in Task : t.op = "send" => t.receipt \in Receipts
    /\ \A t \in Task : t.op = "push" => t.seg \in Segment
BY DEF Free, Task

\* The entries of the parts P of a chain.
OfParts(P) == UNION {EntriesAt(g.prev + 1, g.receipts) : g \in P}

\* The entries of parts are those of one of them.
LEMMA PartOf ==
    ASSUME NEW P, NEW e
    PROVE  e \in OfParts(P) <=> \E g \in P : e \in EntriesAt(g.prev + 1, g.receipts)
BY Zenon DEF OfParts

OpenPart == [id |-> link + 1, prev |-> link, receipts |-> chain]

\* The entries of the stream, now and after a step.
LEMMA EntriesOfParts ==
    /\ Entries = OfParts(Sealed \cup {OpenPart})
    /\ Entries' = OfParts(Sealed' \cup {OpenPart'})
BY Zenon DEF Entries, Parts, OfParts, OpenPart

\* The open part o, after the parts T, becomes n when r is appended to its receipts c,
\* which adds the entry x.
Appended(T, l, S, c, r, o, n, x) ==
    /\ l \in Nat /\ c \in Seq(S)
    /\ \A g \in T : g.prev \in Nat /\ g.prev < l
    /\ o.prev = l /\ o.receipts = c
    /\ n.prev = l /\ n.receipts = Append(c, r)
    /\ x = [segment |-> l + 1, at |-> Len(c) + 1, receipt |-> r]

\* Appending to the open part adds an entry after all others.
LEMMA OpenGrows ==
    ASSUME NEW T, NEW l, NEW S, NEW c, NEW r, NEW o, NEW n, NEW x,
           Appended(T, l, S, c, r, o, n, x)
    PROVE  /\ OfParts(T \cup {n}) = OfParts(T \cup {o}) \cup {x}
           /\ x.segment \in Int /\ x.at \in Int
           /\ \A e \in OfParts(T \cup {o}) : Precedes(e, x)
<1> USE DEF Appended
<1> DEFINE b == Append(c, r)
<1>1. /\ DOMAIN b = DOMAIN c \cup {Len(c) + 1} /\ b[Len(c) + 1] = r
      /\ \A i \in DOMAIN c : b[i] = c[i] /\ i < Len(c) + 1 /\ i \in Nat
      /\ Len(c) \in Nat
  BY r \in S \cup {r}, c \in Seq(S \cup {r})
<1>2. /\ n.prev = l /\ n.receipts = b /\ o.prev = l /\ o.receipts = c
      /\ x.segment = l + 1 /\ x.at = Len(c) + 1 /\ x.receipt = r
      /\ x = [segment |-> l + 1, at |-> Len(c) + 1, receipt |-> r]
  BY Zenon
<1> HIDE DEF b
<1>3. ASSUME NEW e PROVE e \in EntriesAt(l + 1, b) <=> e \in EntriesAt(l + 1, c) \/ e = x
  BY <1>1, <1>2, ZenonT(30) DEF EntriesAt
<1>4. ASSUME NEW e PROVE e \in OfParts(T \cup {n}) <=> e \in OfParts(T \cup {o}) \/ e = x
  <2>1. e \in OfParts(T \cup {n}) <=> (\E g \in T : e \in EntriesAt(g.prev + 1, g.receipts))
                                        \/ e \in EntriesAt(l + 1, b)
    <3>1. e \in OfParts(T \cup {n}) <=> \E g \in T \cup {n} : e \in EntriesAt(g.prev + 1, g.receipts)
      BY PartOf, Zenon
    <3>2. EntriesAt(n.prev + 1, n.receipts) = EntriesAt(l + 1, b)
      BY <1>2, Zenon
    <3> QED BY <3>1, <3>2, Zenon
  <2>2. e \in OfParts(T \cup {o}) <=> (\E g \in T : e \in EntriesAt(g.prev + 1, g.receipts))
                                        \/ e \in EntriesAt(l + 1, c)
    BY <1>2, PartOf
  <2> QED BY <1>3, <2>1, <2>2, Zenon
<1>5. OfParts(T \cup {n}) = OfParts(T \cup {o}) \cup {x}
  BY <1>4, Zenon
<1>6. ASSUME NEW e \in OfParts(T \cup {o}) PROVE Precedes(e, x)
  <2>1. PICK g \in T \cup {o} : e \in EntriesAt(g.prev + 1, g.receipts)
    BY PartOf, Zenon
  <2>2. PICK i \in DOMAIN g.receipts : e.segment = g.prev + 1 /\ e.at = i
    BY <2>1 DEF EntriesAt
  <2>3. CASE g = o
    BY <1>1, <1>2, <2>2, <2>3, Zenon DEF Precedes
  <2>4. CASE g \in T
    BY <1>1, <1>2, <2>2, <2>4 DEF Precedes
  <2> QED BY <2>3, <2>4, Zenon
<1>7. x.segment \in Int /\ x.at \in Int
  BY <1>1, <1>2
<1> QED BY <1>5, <1>6, <1>7, Zenon

\* An empty part has no entries.
LEMMA EmptyPart ==
    ASSUME NEW T, NEW o, o.receipts = <<>>
    PROVE  OfParts(T \cup {o}) = OfParts(T)
<1>1. \A p, e : e \notin EntriesAt(p, <<>>)
  BY DEF EntriesAt
<1>2. ASSUME NEW e PROVE e \in OfParts(T \cup {o}) <=> e \in OfParts(T)
  BY <1>1, PartOf
<1> QED BY <1>2, Zenon

\* One writer changes what it has in hand.
LEMMA TurnIs ==
    ASSUME TypeOK, NEW w \in Writers, NEW t, writer' = [writer EXCEPT ![w] = t]
    PROVE  /\ writer'[w] = t
           /\ \A v \in Writers : v # w => writer'[v] = writer[v]
           /\ t \in Task => writer' \in [Writers -> Task]
BY StreamFacts, Zenon

\* A writer that neither takes nor gives up a sealed segment leaves the sealed ones.
LEMMA SealedSame ==
    ASSUME TypeOK, NEW w \in Writers, NEW t, t.op # "push", writer[w].op # "push",
           writer' = [writer EXCEPT ![w] = t], store' = store
    PROVE  Sealed' = Sealed
<1>1. writer'[w] = t /\ \A v \in Writers : v # w => writer'[v] = writer[v]
  BY TurnIs, Zenon
<1>2. \A v \in Writers : writer'[v].op = "push" <=> writer[v].op = "push"
  BY <1>1, Zenon
<1>3. \A v \in Writers : writer'[v].op = "push" => writer'[v] = writer[v]
  BY <1>1, Zenon
<1>4. \A g : g \in Sealed' <=> g \in Sealed
  BY <1>2, <1>3, SealedIs, SealedIsNext
<1> QED BY <1>4, Zenon

\* seal_current_segment adds a sealed segment.
LEMMA SealedMore ==
    ASSUME TypeOK, NEW w \in Writers, NEW g0, writer[w].op # "push",
           writer' = [writer EXCEPT ![w] = [op |-> "push", seg |-> g0]], store' = store
    PROVE  Sealed' = Sealed \cup {g0}
<1> DEFINE t == [op |-> "push", seg |-> g0]
<1>1. t.op = "push" /\ t.seg = g0 /\ writer' = [writer EXCEPT ![w] = t]
  BY TaskOps, Zenon
<1> HIDE DEF t
<1>2. writer'[w] = t /\ \A v \in Writers : v # w => writer'[v] = writer[v]
  BY <1>1, TurnIs, Zenon
<1>3. \A g : g \in Sealed' <=> g \in Sealed \/ g = g0
  <2>1. \A v \in Writers : v # w => writer'[v] = writer[v]
    BY <1>2, Zenon
  <2>2. writer'[w].op = "push" /\ writer'[w].seg = g0
    BY <1>1, <1>2, Zenon
  <2> QED BY <2>1, <2>2, SealedIs, SealedIsNext
<1> QED BY <1>3, Zenon

\* Pushing a segment into the store keeps it sealed.
LEMMA SealedStored ==
    ASSUME TypeOK, NEW w \in Writers, writer[w].op = "push",
           writer' = [writer EXCEPT ![w] = Free], store' = Append(store, writer[w].seg)
    PROVE  Sealed' = Sealed
<1>1. writer'[w] = Free /\ \A v \in Writers : v # w => writer'[v] = writer[v]
  BY TurnIs, Zenon
<1>2. Free.op # "push"
  BY TaskOps, Zenon
<1>3. writer[w].seg \in Segment /\ store \in Seq(Segment)
  BY TaskOps, StreamFacts, Zenon
<1>4. \A g : g \in Range(store') <=> g \in Range(store) \/ g = writer[w].seg
  BY <1>3 DEF Range
<1>5. \A g : g \in Sealed' <=> g \in Sealed
  <2>1. \A v \in Writers : v # w => writer'[v] = writer[v]
    BY <1>1, Zenon
  <2>2. writer'[w].op # "push"
    BY <1>1, <1>2, Zenon
  <2> QED BY <1>4, <2>1, <2>2, SealedIs, SealedIsNext
<1> QED BY <1>5, Zenon

\* A writer that neither takes nor sends a receipt leaves the unsent ones.
LEMMA UnsentSame ==
    ASSUME TypeOK, NEW w \in Writers, NEW t, t.op # "send", writer[w].op # "send",
           writer' = [writer EXCEPT ![w] = t]
    PROVE  Unsent' = Unsent
<1>1. writer'[w] = t /\ \A v \in Writers : v # w => writer'[v] = writer[v]
  BY TurnIs, Zenon
<1>2. \A v \in Writers : writer'[v].op = "send" <=> writer[v].op = "send"
  BY <1>1, Zenon
<1>3. \A v \in Writers : writer'[v].op = "send" => writer'[v] = writer[v]
  BY <1>1, Zenon
<1>4. \A r : r \in Unsent' <=> r \in Unsent
  BY <1>2, <1>3, UnsentIs
<1> QED BY <1>4, Zenon

\* Sealed segments come before the open chain.
LEMMA SealedPrev ==
    ASSUME TypeOK, ChainedInv, NEW g \in Sealed
    PROVE  g.prev \in Nat /\ g.prev < link
<1>1. g \in Segment
  <2>1. CASE g \in Range(store)
    <3>1. PICK i \in DOMAIN store : g = store[i]
      BY <2>1, Zenon DEF Range
    <3>2. store \in Seq(Segment)
      BY StreamFacts, Zenon
    <3> QED BY <3>1, <3>2
  <2>2. ASSUME NEW w \in Writers, writer[w].op = "push", g = writer[w].seg PROVE g \in Segment
    BY <2>2, TaskOps, StreamFacts, Zenon
  <2> QED BY <2>1, <2>2, SealedIs, Zenon
<1>2. g.prev \in Nat
  BY <1>1, StreamFacts DEF Segment
<1> QED BY <1>2, Zenon DEF ChainedInv

\* A receipt appended becomes the last entry of the log.
LEMMA LogGrows ==
    ASSUME TypeOK, ChainedInv, Sealed' = Sealed, link' = link, count' = count + 1,
           chain' = Append(chain, count + 1)
    PROVE  ChainedInv' /\ Log' = Append(Log, count + 1)
<1> DEFINE x == [segment |-> link + 1, at |-> Len(chain) + 1, receipt |-> count + 1]
<1>0. /\ link \in Nat /\ count \in Nat /\ chain \in Seq(Receipts)
  BY StreamFacts, Zenon
<1>1. /\ OpenPart = [id |-> link + 1, prev |-> link, receipts |-> chain]
      /\ OpenPart' = [id |-> link + 1, prev |-> link, receipts |-> Append(chain, count + 1)]
  BY Zenon DEF OpenPart
<1>2. x.receipt = count + 1
  BY Zenon
<1>3. /\ OfParts(Sealed \cup {OpenPart'}) = OfParts(Sealed \cup {OpenPart}) \cup {x}
      /\ x.segment \in Int /\ x.at \in Int
      /\ \A e \in OfParts(Sealed \cup {OpenPart}) : Precedes(e, x)
  <2>1. \A g \in Sealed : g.prev \in Nat /\ g.prev < link
    BY SealedPrev, Zenon
  <2>2. x = [segment |-> link + 1, at |-> Len(chain) + 1, receipt |-> count + 1]
    BY Zenon
  <2> HIDE DEF x
  <2>3. PICK T, l, c, r : T = Sealed /\ l = link /\ c = chain /\ r = count + 1
    BY Zenon
  <2>4. PICK o, n : o = OpenPart /\ n = OpenPart'
    BY Zenon
  <2>5. Appended(T, l, Receipts, c, r, o, n, x)
    BY <1>0, <1>1, <2>1, <2>2, <2>3, <2>4, Zenon DEF Appended
  <2>7. /\ OfParts(T \cup {n}) = OfParts(T \cup {o}) \cup {x}
        /\ x.segment \in Int /\ x.at \in Int
        /\ \A e \in OfParts(T \cup {o}) : Precedes(e, x)
    BY <2>5, OpenGrows, Zenon
  <2> QED BY <2>3, <2>4, <2>7, Zenon
<1> HIDE DEF x
<1>4. Entries' = Entries \cup {x} /\ \A e \in Entries : Precedes(e, x)
  BY <1>3, EntriesOfParts, Zenon
<1>5. /\ Ranked(Entries \cup {x})
      /\ Cardinality(Entries \cup {x}) = Cardinality(Entries) + 1
      /\ InOrder(Entries \cup {x}) = Append(InOrder(Entries), count + 1)
  BY <1>2, <1>3, <1>4, AddLast, Zenon DEF ChainedInv
<1>6. Ranked(Entries') /\ Cardinality(Entries') = count + 1 /\ InOrder(Entries') = Append(InOrder(Entries), count + 1)
  BY <1>4, <1>5, Zenon DEF ChainedInv
<1>7. InOrder(Entries) \in Seq({e.receipt : e \in Entries}) /\ Len(InOrder(Entries)) = count
  BY OrderIsSeq, Zenon DEF ChainedInv
<1>8. \A n \in 1..count + 1 : InOrder(Entries')[n] = n
  <2> DEFINE q == InOrder(Entries)
             S == {e.receipt : e \in Entries}
  <2>1. q \in Seq(S) /\ Len(q) = count /\ \A n \in 1..count : q[n] = n
    BY <1>7, Zenon DEF ChainedInv
  <2> HIDE DEF q, S
  <2>2. \A n \in 1..count + 1 : Append(q, count + 1)[n] = n
    <3>1. q \in Seq(S \cup {count + 1})
      BY <2>1
    <3> QED BY <1>0, <2>1, <3>1
  <2> QED BY <1>6, <2>2, Zenon DEF q
<1>9. \A i \in DOMAIN chain' : chain'[i] <= count'
  <2>1. chain \in Seq(Receipts \cup {count + 1}) /\ count + 1 \in Receipts \cup {count + 1}
    BY <1>0
  <2>2. \A i \in DOMAIN chain : chain[i] \in Int /\ chain[i] <= count
    BY <1>0, StreamFacts DEF ChainedInv, Receipts
  <2> QED BY <1>0, <2>1, <2>2
<1> QED BY <1>6, <1>8, <1>9, Zenon DEF ChainedInv, Log

\* Sealing moves the open chain's entries into a segment.
LEMMA LogSealed ==
    ASSUME TypeOK, ChainedInv, link' = link + 1, count' = count, chain' = <<>>,
           Sealed' = Sealed \cup {[id |-> link + 1, prev |-> link, receipts |-> chain]}
    PROVE  ChainedInv' /\ Log' = Log
<1>0. link \in Nat
  BY StreamFacts, Zenon
<1>1. OpenPart'.receipts = <<>> /\ Sealed' = Sealed \cup {OpenPart} /\ OpenPart.prev = link
  BY Zenon DEF OpenPart
<1>2. Entries' = Entries
  BY <1>1, EmptyPart, EntriesOfParts, Zenon
<1>3. \A g \in Sealed' : g.prev < link'
  <2>1. TAKE g \in Sealed'
  <2>2. CASE g = OpenPart
    BY <1>0, <1>1, <2>2
  <2>3. CASE g \in Sealed
    BY <1>0, <2>3, SealedPrev
  <2> QED BY <1>1, <2>2, <2>3, Zenon
<1> QED BY <1>2, <1>3 DEF ChainedInv, Log

\* What changes neither the open chain nor the sealed segments keeps the log.
LEMMA LogKept ==
    ASSUME TypeOK, ChainedInv, Sealed' = Sealed, link' = link, count' = count, chain' = chain
    PROVE  ChainedInv' /\ Log' = Log
<1>1. Entries' = Entries
  BY EntriesOfParts, Zenon DEF OpenPart
<1> QED BY <1>1, Zenon DEF ChainedInv, Log

\* Each receipt is sent once, so the channel has carried no more than were appended.
LEMMA ChannelShort ==
    ASSUME TypeOK, ChannelInv
    PROVE  Len(channel) \in Nat /\ Len(channel) <= count /\ DOMAIN channel = 1..Len(channel)
<1> DEFINE n == Len(channel)
<1>1. n \in Nat /\ DOMAIN channel = 1..n /\ count \in Nat
  BY StreamFacts
<1>2. channel \in [1..n -> 1..count]
  <2>1. channel = [p \in 1..n |-> channel[p]]
    BY <1>1, StreamFacts
  <2>2. \A p \in 1..n : channel[p] \in 1..count
    BY <1>1, Zenon DEF ChannelInv
  <2> QED BY <2>1, <2>2, Zenon
<1>3. IsInjective(channel)
  BY <1>1, Zenon DEF ChannelInv, IsInjective
<1>4. IsFiniteSet(1..count) /\ Cardinality(1..count) = count /\ Cardinality(1..n) = n
  <2>1. IsFiniteSet(1..count) /\ Cardinality(1..count) = IF 1 > count THEN 0 ELSE count - 1 + 1
    BY <1>1, FS_Interval, SMT
  <2>2. Cardinality(1..n) = IF 1 > n THEN 0 ELSE n - 1 + 1
    BY <1>1, FS_Interval, SMT
  <2> QED BY <1>1, <2>1, <2>2
<1>5. channel \in Injection(1..n, 1..count)
  BY <1>2, <1>3, Zenon DEF Injection
<1>6. Cardinality(1..n) <= Cardinality(1..count)
  BY <1>4, <1>5, FS_Injection, Zenon
<1> QED BY <1>1, <1>4, <1>6, Zenon

\* Receipts are numbers.
LEMMA ReceiptsAre ==
    /\ Receipts \subseteq Nat
    /\ \A q \in Seq(Receipts) : \A i \in DOMAIN q : q[i] \in Receipts
    /\ \A q \in Seq(Receipts) : \A i \in DOMAIN q : q[i] \in Nat /\ i \in Nat /\ i <= Len(q)
    /\ \A q \in Seq(Receipts) : Len(q) \in Nat /\ DOMAIN q = 1..Len(q)
<1>1. MaxReceipts \in Nat
  BY StreamBounds, Zenon
<1>2. Receipts \subseteq Nat
  BY <1>1 DEF Receipts
<1>3. \A q \in Seq(Receipts) : Len(q) \in Nat /\ DOMAIN q = 1..Len(q)
  OBVIOUS
<1>4. \A q \in Seq(Receipts) : \A i \in DOMAIN q : q[i] \in Receipts
  OBVIOUS
<1>5. ASSUME NEW q \in Seq(Receipts), NEW i \in DOMAIN q
      PROVE  q[i] \in Nat /\ i \in Nat /\ i <= Len(q)
  <2>1. q[i] \in Nat
    BY <1>2, <1>4, Zenon
  <2>2. Len(q) \in Nat /\ i \in 1..Len(q)
    BY <1>3, Zenon
  <2> QED BY <2>1, <2>2
<1> QED BY <1>2, <1>3, <1>4, <1>5, Zenon

\* The types of a connection's fields.
LEMMA ConnectionIs ==
    ASSUME NEW c \in Connection
    PROVE  /\ c.got \in Seq(Receipts) /\ c.since \in Nat /\ c.next \in Nat \ {0}
           /\ c.next <= MaxReceipts + 1 /\ c.since <= MaxReceipts
           /\ \A i \in DOMAIN c.got : c.got[i] \in Nat
<1>1. MaxReceipts \in Nat
  BY StreamBounds, Zenon
<1>2. c.got \in Seq(Receipts) /\ c.since \in Nat /\ c.next \in Nat \ {0}
           /\ c.next <= MaxReceipts + 1 /\ c.since <= MaxReceipts
  BY <1>1 DEF Connection
<1> QED BY <1>2, ReceiptsAre, Zenon

\* A receipt appended and not yet sent changes nothing for a connection.
LEMMA CountMore ==
    ASSUME NEW c \in Connection, NEW h \in Seq(Receipts), NEW n \in Nat, ConnectionSound(c, h, n)
    PROVE  ConnectionSound(c, h, n + 1)
<1>1. /\ \A i \in DOMAIN c.got : c.got[i] \in Int
      /\ c.since \in Int
  BY ConnectionIs
<1> QED BY <1>1 DEF ConnectionSound

\* A receipt broadcast lies ahead of every connection.
LEMMA ChannelMore ==
    ASSUME NEW c \in Connection, NEW h \in Seq(Receipts), NEW n \in Nat, NEW r \in Receipts,
           ConnectionSound(c, h, n)
    PROVE  ConnectionSound(c, Append(h, r), n)
<1> DEFINE k == Append(h, r)
<1>1. /\ Len(k) = Len(h) + 1 /\ Len(h) \in Nat /\ Capacity \in Nat
      /\ DOMAIN h = 1..Len(h) /\ DOMAIN k = 1..Len(h) + 1
      /\ \A p \in 1..Len(h) : k[p] = h[p]
  BY StreamBounds
<1>2. c.next \in Int
  BY ConnectionIs
<1> HIDE DEF k
<1>3. ASSUME c.pc = "live"
      PROVE  /\ c.next <= Len(k) + 1
             /\ \A i \in DOMAIN c.got : c.got[i] > c.since =>
                  \E p \in DOMAIN k : p < c.next /\ k[p] = c.got[i]
             /\ \A p \in DOMAIN k : (k[p] > c.since /\ p < c.next /\ p + Capacity > Len(k)) =>
                  \E i \in DOMAIN c.got : c.got[i] = k[p]
  <2>1. c.next <= Len(h) + 1
    BY <1>3, ZenonT(40) DEF ConnectionSound
  <2>2. ASSUME NEW i \in DOMAIN c.got, c.got[i] > c.since
        PROVE  \E p \in DOMAIN k : p < c.next /\ k[p] = c.got[i]
    <3>1. PICK p \in DOMAIN h : p < c.next /\ h[p] = c.got[i]
      BY <1>3, <2>2, Zenon DEF ConnectionSound
    <3> QED BY <1>1, <3>1
  <2>3. ASSUME NEW p \in DOMAIN k, k[p] > c.since, p < c.next, p + Capacity > Len(k)
        PROVE  \E i \in DOMAIN c.got : c.got[i] = k[p]
    <3>1. p \in 1..Len(h) /\ k[p] = h[p] /\ p + Capacity > Len(h)
      BY <1>1, <1>2, <2>1, <2>3
    <3> QED BY <1>1, <1>3, <2>3, <3>1, ZenonT(30) DEF ConnectionSound
  <2> QED BY <1>1, <1>2, <2>1, <2>2, <2>3
<1> QED BY <1>3, Zenon DEF ConnectionSound, k

\* A connection that is not attached has nothing to miss.
LEMMA NotLive ==
    ASSUME NEW c \in Connection, NEW h, NEW n \in Nat, c.pc # "live", c.since <= n,
           \A i \in DOMAIN c.got : c.got[i] <= n
    PROVE  ConnectionSound(c, h, n)
BY Zenon DEF ConnectionSound

\* What the next lemmas use of numbers and of lists.
LEMMA Ordinary ==
    /\ \A n \in Nat : n + 1 <= n + 1
    /\ \A m \in Nat : \A i \in 1..m + 1 : i \in 1..m \/ i = m + 1
    /\ \A q \in Seq(Receipts), r \in Receipts :
          /\ DOMAIN Append(q, r) = 1..Len(q) + 1 /\ Append(q, r)[Len(q) + 1] = r
          /\ \A i \in 1..Len(q) : Append(q, r)[i] = q[i]
<1>1. \A n \in Nat : n + 1 <= n + 1
  OBVIOUS
<1>2. \A m \in Nat : \A i \in 1..m + 1 : i \in 1..m \/ i = m + 1
  OBVIOUS
<1>3. ASSUME NEW q \in Seq(Receipts), NEW r \in Receipts
      PROVE  /\ DOMAIN Append(q, r) = 1..Len(q) + 1 /\ Append(q, r)[Len(q) + 1] = r
             /\ \A i \in 1..Len(q) : Append(q, r)[i] = q[i]
  OBVIOUS
<1> QED BY <1>1, <1>2, <1>3, Zenon

\* A connection attached at the channel's tail has missed nothing since.
LEMMA JustAttached ==
    ASSUME NEW c \in Connection, NEW h \in Seq(Receipts), NEW n \in Nat,
           c.since = n, c.next = Len(h) + 1, \A i \in DOMAIN c.got : c.got[i] <= n,
           \A p \in DOMAIN h : h[p] <= n
    PROVE  ConnectionSound(c, h, n)
<1>1. /\ \A i \in DOMAIN c.got : c.got[i] \in Int
      /\ \A p \in DOMAIN h : h[p] \in Int
  BY ConnectionIs, ReceiptsAre
<1>2. /\ \A i \in DOMAIN c.got : ~(c.got[i] > n)
      /\ \A p \in DOMAIN h : ~(h[p] > n)
  BY <1>1
<1>3. c.next <= Len(h) + 1
  BY ReceiptsAre, Ordinary, ZenonT(40)
<1> QED BY <1>2, <1>3 DEF ConnectionSound

\* A connection d is c after it took position p of the channel h.
Took(c, d, h, p) ==
    /\ c \in Connection /\ d \in Connection /\ h \in Seq(Receipts)
    /\ c.pc = "live" /\ d.since = c.since
    /\ p \in DOMAIN h /\ c.next <= p
    /\ \A q \in DOMAIN h : c.next <= q /\ q < p => q + Capacity <= Len(h)
    /\ d.next = p + 1 /\ d.got = Append(c.got, h[p])

\* Receiving one receipt, past those the buffer overwrote, keeps a connection sound.
LEMMA OneMore ==
    ASSUME NEW c, NEW d, NEW h, NEW p, NEW n \in Nat, Took(c, d, h, p), ConnectionSound(c, h, n),
           \A q \in DOMAIN h : h[q] \in 1..n,
           \A q, s \in DOMAIN h : h[q] = h[s] => q = s
    PROVE  ConnectionSound(d, h, n)
<1> DEFINE g == c.got
           m == Len(c.got)
           e == d.got
<1>0. /\ g \in Seq(Receipts) /\ h[p] \in Receipts /\ h[p] \in Nat /\ p \in Nat /\ p <= Len(h)
      /\ c.next \in Nat /\ c.since \in Nat /\ Len(h) \in Nat /\ Capacity \in Nat
      /\ DOMAIN h \subseteq Nat
  <2>1. Capacity \in Nat
    BY StreamBounds, Zenon
  <2>2. c \in Connection /\ h \in Seq(Receipts) /\ p \in DOMAIN h
    BY Zenon DEF Took
  <2>3. h[p] \in Receipts /\ h[p] \in Nat /\ p \in Nat /\ p <= Len(h) /\ Len(h) \in Nat
    BY <2>2, ReceiptsAre, ZenonT(40)
  <2> QED BY <2>1, <2>2, <2>3, ConnectionIs, ReceiptsAre, ZenonT(40)
<1>1. /\ m \in Nat /\ DOMAIN g = 1..m /\ DOMAIN e = 1..m + 1 /\ e[m + 1] = h[p]
      /\ \A i \in 1..m : e[i] = g[i]
  <2>1. e = Append(g, h[p])
    BY Zenon DEF Took
  <2>2. g \in Seq(Receipts) /\ h[p] \in Receipts
    BY <1>0, Zenon
  <2>3. m \in Nat /\ DOMAIN g = 1..m
    BY <2>2, ReceiptsAre, Zenon
  <2>4. /\ DOMAIN Append(g, h[p]) = 1..m + 1 /\ Append(g, h[p])[m + 1] = h[p]
        /\ \A i \in 1..m : Append(g, h[p])[i] = g[i]
    BY <2>2, Ordinary, Zenon
  <2> QED BY <2>1, <2>3, <2>4, Zenon
<1>2. /\ \A i \in 1..m : g[i] <= n /\ g[i] \in Nat
      /\ c.since <= n /\ c.next <= Len(h) + 1
      /\ \A i, j \in 1..m : g[i] = g[j] /\ g[i] > c.since => i = j
      /\ \A i \in 1..m : g[i] > c.since => \E q \in DOMAIN h : q < c.next /\ h[q] = g[i]
      /\ \A q \in DOMAIN h : (h[q] > c.since /\ q < c.next /\ q + Capacity > Len(h)) =>
              \E i \in 1..m : g[i] = h[q]
  <2>1. \A i \in 1..m : g[i] \in Nat
    BY <1>0, <1>1, ReceiptsAre, Zenon
  <2> QED BY <1>1, <2>1, Zenon DEF ConnectionSound, Took
<1>3. d.since = c.since /\ d.next = p + 1 /\ c.next <= p /\ p \in DOMAIN h
  BY Zenon DEF Took
<1>4. \A q \in DOMAIN h : c.next <= q /\ q < p => q + Capacity <= Len(h)
  BY Zenon DEF Took
<1>5. h[p] <= n
  BY <1>0, <1>3
<1> HIDE DEF g, m, e
<1>6. \A i \in 1..m + 1 : e[i] <= n
  BY <1>1, <1>2, <1>5
<1>7. ASSUME NEW i \in 1..m, g[i] > c.since, g[i] = h[p] PROVE FALSE
  <2>1. PICK q \in DOMAIN h : q < c.next /\ h[q] = g[i]
    BY <1>2, <1>7, Zenon
  <2>2. q = p
    BY <1>3, <1>7, <2>1, Zenon
  <2> QED BY <1>0, <1>3, <2>1, <2>2
<1>8. ASSUME NEW i \in 1..m + 1, NEW j \in 1..m + 1, e[i] = e[j], e[i] > c.since PROVE i = j
  <2>1. CASE i \in 1..m /\ j \in 1..m
    BY <1>1, <1>2, <1>8, <2>1
  <2>2. CASE i = m + 1 /\ j \in 1..m
    BY <1>1, <1>7, <1>8, <2>2, ZenonT(40)
  <2>3. CASE i \in 1..m /\ j = m + 1
    BY <1>1, <1>7, <1>8, <2>3, Zenon
  <2>4. CASE i = m + 1 /\ j = m + 1
    BY <2>4, Zenon
  <2> QED BY <1>1, <2>1, <2>2, <2>3, <2>4, Ordinary, Zenon
<1>9. ASSUME NEW i \in 1..m + 1, e[i] > c.since
      PROVE  \E q \in DOMAIN h : q < p + 1 /\ h[q] = e[i]
  <2>1. CASE i \in 1..m
    <3>1. PICK q \in DOMAIN h : q < c.next /\ h[q] = g[i]
      BY <1>1, <1>2, <1>9, <2>1, ZenonT(40)
    <3> QED BY <1>0, <1>1, <1>3, <2>1, <3>1
  <2>2. CASE i = m + 1
    BY <1>0, <1>1, <1>3, <2>2
  <2> QED BY <1>1, <2>1, <2>2
<1>10. ASSUME NEW q \in DOMAIN h, h[q] > c.since, q < p + 1, q + Capacity > Len(h)
       PROVE  \E i \in 1..m + 1 : e[i] = h[q]
  <2>0. q \in Nat
    BY <1>0, Zenon
  <2>1. CASE q = p
    BY <1>1, <2>1
  <2>2. CASE q < c.next
    <3>1. PICK i \in 1..m : g[i] = h[q]
      BY <1>2, <1>10, <2>2, Zenon
    <3> QED BY <1>1, <3>1
  <2>3. CASE c.next <= q /\ q < p
    <3>1. q + Capacity <= Len(h) /\ q + Capacity > Len(h)
      BY <1>4, <1>10, <2>3, Zenon
    <3> QED BY <1>0, <2>0, <3>1
  <2>4. q \in Nat /\ p \in Nat /\ c.next \in Nat /\ q < p + 1
    BY <1>0, <1>10, <2>0, Zenon
  <2>5. q = p \/ q < c.next \/ (c.next <= q /\ q < p)
    BY <2>4
  <2> QED BY <2>1, <2>2, <2>3, <2>5, Zenon
<1>11. d.next <= Len(h) + 1
  BY <1>0, <1>3
<1>12. /\ \A i, j \in DOMAIN e : e[i] = e[j] /\ e[i] > c.since => i = j
       /\ \A i \in DOMAIN e : e[i] <= n
       /\ \A i \in DOMAIN e : e[i] > c.since => \E q \in DOMAIN h : q < p + 1 /\ h[q] = e[i]
       /\ \A q \in DOMAIN h : (h[q] > c.since /\ q < p + 1 /\ q + Capacity > Len(h)) =>
              \E i \in DOMAIN e : e[i] = h[q]
  BY <1>1, <1>6, <1>8, <1>9, <1>10, ZenonT(40)
<1> QED BY <1>2, <1>3, <1>11, <1>12 DEF ConnectionSound, e

\* The parts of TypeOK make it up.
LEMMA TypeFrom ==
    ASSUME chain' \in Seq(Receipts), channel' \in Seq(Receipts), store' \in Seq(Segment),
           link' \in 0..MaxSegments, count' \in 0..MaxReceipts,
           writer' \in [Writers -> Task], sub' \in [Subscribers -> Connection]
    PROVE  TypeOK'
BY Zenon DEF TypeOK, Task, Connection

\* append, under the write lock.
LEMMA StreamAppend ==
    ASSUME StreamInv, NEW w \in Writers, Append_(w)
    PROVE  StreamInv' /\ Log' = Append(Log, count + 1) /\ count + 1 \in Receipts
<1> DEFINE t == [op |-> "send", receipt |-> count + 1]
<1>0. TypeOK /\ ChainedInv /\ ChannelInv
  BY Zenon DEF StreamInv
<1>1. /\ writer[w].op = "free" /\ count' = count + 1 /\ chain' = Append(chain, count + 1)
      /\ writer' = [writer EXCEPT ![w] = t]
      /\ link' = link /\ store' = store /\ channel' = channel /\ sub' = sub
  BY TaskOps, Zenon DEF Append_
<1>2. count \in Nat /\ count + 1 \in Receipts /\ count + 1 \in 0..MaxReceipts
  BY <1>0, StreamFacts DEF Append_, Receipts
<1>3. t.op = "send" /\ t.receipt = count + 1 /\ t \in Task
  BY <1>2, TaskOps, Zenon
<1> HIDE DEF t
<1>4. /\ writer'[w] = t /\ writer' \in [Writers -> Task]
      /\ \A v \in Writers : v # w => writer'[v] = writer[v]
  BY <1>0, <1>1, <1>3, TurnIs, Zenon
<1>5. TypeOK'
  BY <1>0, <1>1, <1>2, <1>4, StreamFacts, TypeFrom
<1>6. Sealed' = Sealed
  BY <1>0, <1>1, <1>3, SealedSame, Zenon
<1>7. ChainedInv' /\ Log' = Append(Log, count + 1)
  BY <1>0, <1>1, <1>6, LogGrows, Zenon
<1>8. ChannelInv'
  <2>1. \A r : r \in Unsent' <=> r \in Unsent \/ r = count + 1
    BY <1>1, <1>3, <1>4, UnsentIs
  <2>2. ASSUME NEW v \in Writers, writer[v].op = "send" PROVE writer[v].receipt \in 1..count
    BY <1>0, <2>2, UnsentIs, ZenonT(40) DEF ChannelInv
  <2>3. \A v, u \in Writers : writer'[v].op = "send" /\ writer'[u].op = "send"
                               /\ writer'[v].receipt = writer'[u].receipt => v = u
    <3>1. ASSUME NEW u \in Writers, writer'[u].op = "send", writer'[u].receipt = count + 1 PROVE u = w
      BY <1>2, <1>4, <2>2, <3>1
    <3> QED BY <1>0, <1>3, <1>4, <3>1 DEF ChannelInv
  <2>4. \A p \in DOMAIN channel : channel[p] \in 1..count + 1 /\ channel[p] \notin Unsent'
    BY <1>0, <1>2, <2>1 DEF ChannelInv
  <2>5. ASSUME NEW r \in 1..count + 1 PROVE r \in Unsent' \/ \E p \in DOMAIN channel : channel[p] = r
    <3>1. r = count + 1 \/ r \in 1..count
      BY <1>2
    <3> QED BY <1>0, <2>1, <3>1, Zenon DEF ChannelInv
  <2>6. ASSUME NEW r \in Unsent' PROVE r \in 1..count + 1
    <3>1. r \in 1..count \/ r = count + 1
      BY <1>0, <2>1, Zenon DEF ChannelInv
    <3> QED BY <1>2, <3>1
  <2> QED BY <1>0, <1>1, <2>3, <2>4, <2>5, <2>6, ZenonT(40) DEF ChannelInv
<1>9. \A s \in Subscribers : ConnectionSound(sub'[s], channel', count')
  BY <1>0, <1>1, <1>2, CountMore, StreamFacts, ZenonT(40) DEF StreamInv
<1> QED BY <1>2, <1>5, <1>7, <1>8, <1>9, Zenon DEF StreamInv

\* The broadcast.
LEMMA StreamSend ==
    ASSUME StreamInv, NEW w \in Writers, Send(w)
    PROVE  StreamInv' /\ Log' = Log
<1>0. TypeOK /\ ChainedInv /\ ChannelInv
  BY Zenon DEF StreamInv
<1> DEFINE r == writer[w].receipt
<1>1. /\ writer[w].op = "send" /\ channel' = Append(channel, r)
      /\ writer' = [writer EXCEPT ![w] = Free]
      /\ link' = link /\ store' = store /\ chain' = chain /\ sub' = sub /\ count' = count
  BY Zenon DEF Send
<1>2. r \in Receipts /\ channel \in Seq(Receipts) /\ count \in Nat
  BY <1>0, <1>1, TaskOps, StreamFacts, Zenon
<1>3. /\ writer'[w] = Free /\ writer' \in [Writers -> Task] /\ Free.op = "free"
      /\ \A v \in Writers : v # w => writer'[v] = writer[v]
  BY <1>0, <1>1, TurnIs, TaskOps, ZenonT(30)
<1>4. r \in Unsent /\ r \in 1..count
  BY <1>0, <1>1, UnsentIs, Zenon DEF ChannelInv
<1>41. \A v \in Writers : writer[v].op = "send" /\ writer[v].receipt = r => v = w
  BY <1>0, <1>1, Zenon DEF ChannelInv
<1> HIDE DEF r
<1>5. TypeOK'
  <2>1. channel' \in Seq(Receipts)
    BY <1>1, <1>2
  <2> QED BY <1>0, <1>1, <1>2, <1>3, <2>1, StreamFacts, TypeFrom, ZenonT(30)
<1>6. Sealed' = Sealed
  BY <1>0, <1>1, <1>3, SealedSame, ZenonT(40)
<1>7. ChainedInv' /\ Log' = Log
  BY <1>0, <1>1, <1>6, LogKept, ZenonT(40)
<1>8. ChannelInv'
  <2> DEFINE n == Len(channel)
  <2>0. /\ n \in Nat /\ DOMAIN channel = 1..n /\ DOMAIN channel' = 1..n + 1
        /\ channel'[n + 1] = r /\ \A p \in 1..n : channel'[p] = channel[p]
    BY <1>1, <1>2
  <2> HIDE DEF n
  <2>1. \A q : q \in Unsent' <=> q \in Unsent /\ q # r
    <3>1. \A q : q \in Unsent' => q \in Unsent /\ q # r
      BY <1>3, <1>41, UnsentIs
    <3>2. \A q : q \in Unsent /\ q # r => q \in Unsent'
      BY <1>3, UnsentIs DEF r
    <3> QED BY <3>1, <3>2, Zenon
  <2>2. \A p \in 1..n : channel[p] # r
    BY <1>0, <1>4, <2>0, Zenon DEF ChannelInv
  <2>3. \A p, q \in 1..n + 1 : channel'[p] = channel'[q] => p = q
    <3>1. TAKE p, q \in 1..n + 1
    <3>2. CASE p \in 1..n /\ q \in 1..n
      BY <1>0, <2>0, <3>2, ZenonT(40) DEF ChannelInv
    <3>3. CASE p = n + 1 \/ q = n + 1
      BY <2>0, <2>2, <3>3
    <3> QED BY <2>0, <3>2, <3>3
  <2>4. \A p \in 1..n + 1 : channel'[p] \in 1..count /\ channel'[p] \notin Unsent'
    BY <1>0, <1>4, <2>0, <2>1 DEF ChannelInv
  <2>5. ASSUME NEW q \in 1..count, q \notin Unsent' PROVE \E p \in 1..n + 1 : channel'[p] = q
    <3>1. CASE q = r
      BY <2>0, <3>1
    <3>2. CASE q # r
      BY <1>0, <2>0, <2>1, <2>5, <3>2 DEF ChannelInv
    <3> QED BY <3>1, <3>2, Zenon
  <2>6. Unsent' \subseteq 1..count
    BY <1>0, <2>1, ZenonT(40) DEF ChannelInv
  <2>7. \A v, u \in Writers : writer'[v].op = "send" /\ writer'[u].op = "send"
                               /\ writer'[v].receipt = writer'[u].receipt => v = u
    BY <1>0, <1>3 DEF ChannelInv
  <2> QED BY <1>1, <2>0, <2>3, <2>4, <2>5, <2>6, <2>7, ZenonT(30) DEF ChannelInv
<1>9. \A s \in Subscribers : ConnectionSound(sub'[s], channel', count')
  BY <1>0, <1>1, <1>2, ChannelMore, StreamFacts, Zenon DEF StreamInv
<1> QED BY <1>5, <1>7, <1>8, <1>9, ZenonT(40) DEF StreamInv

\* Sealing and storing change nothing the channel or a connection sees.
LEMMA ChannelSame ==
    ASSUME StreamInv, NEW w \in Writers, NEW t, t.op # "send", writer[w].op # "send",
           writer' = [writer EXCEPT ![w] = t],
           channel' = channel, sub' = sub, count' = count
    PROVE  ChannelInv' /\ \A s \in Subscribers : ConnectionSound(sub'[s], channel', count')
<1>0. TypeOK /\ ChannelInv
  BY Zenon DEF StreamInv
<1>1. Unsent' = Unsent
  BY <1>0, UnsentSame, Zenon
<1>2. writer'[w] = t /\ \A v \in Writers : v # w => writer'[v] = writer[v]
  BY <1>0, TurnIs, Zenon
<1>3. \A v \in Writers : writer'[v].op = "send" => writer'[v] = writer[v]
  BY <1>2, Zenon
<1>4. ChannelInv'
  BY <1>0, <1>1, <1>3 DEF ChannelInv
<1> QED BY <1>4, Zenon DEF StreamInv

\* seal_current_segment, under the write lock.
LEMMA StreamSeal ==
    ASSUME StreamInv, NEW w \in Writers, SealCurrentSegment(w)
    PROVE  StreamInv' /\ Log' = Log
<1> DEFINE g == [id |-> link + 1, prev |-> link, receipts |-> chain]
           t == [op |-> "push", seg |-> g]
<1>0. TypeOK /\ ChainedInv
  BY Zenon DEF StreamInv
<1>1. /\ writer[w].op = "free" /\ link < MaxSegments /\ link' = link + 1 /\ chain' = <<>>
      /\ writer' = [writer EXCEPT ![w] = t]
      /\ store' = store /\ channel' = channel /\ sub' = sub /\ count' = count
  BY TaskOps, ZenonT(40) DEF SealCurrentSegment
<1>2. g \in Segment /\ link + 1 \in 0..MaxSegments
  BY <1>0, <1>1, StreamFacts DEF Segment
<1>3. Sealed' = Sealed \cup {g}
  <2>1. writer[w].op # "push" /\ store' = store
    BY <1>1, Zenon
  <2> QED BY <1>0, <1>1, <2>1, SealedMore, Zenon
<1>4. ChainedInv' /\ Log' = Log
  BY <1>0, <1>1, <1>3, LogSealed, Zenon
<1>5. t.op = "push" /\ t \in Task
  BY <1>2, TaskOps, Zenon
<1> HIDE DEF t, g
<1>6. writer' \in [Writers -> Task]
  BY <1>0, <1>1, <1>5, TurnIs, Zenon
<1>7. TypeOK'
  <2>1. <<>> \in Seq(Receipts)
    OBVIOUS
  <2> QED BY <1>0, <1>1, <1>2, <1>6, <2>1, StreamFacts, TypeFrom, ZenonT(30)
<1>8. ChannelInv' /\ \A s \in Subscribers : ConnectionSound(sub'[s], channel', count')
  BY <1>1, <1>5, ChannelSame, ZenonT(40)
<1> QED BY <1>4, <1>7, <1>8, Zenon DEF StreamInv

\* The rest of seal_current_segment.
LEMMA StreamPush ==
    ASSUME StreamInv, NEW w \in Writers, PushSealed(w)
    PROVE  StreamInv' /\ Log' = Log
<1>0. TypeOK /\ ChainedInv
  BY Zenon DEF StreamInv
<1>1. /\ writer[w].op = "push" /\ store' = Append(store, writer[w].seg)
      /\ writer' = [writer EXCEPT ![w] = Free]
      /\ link' = link /\ chain' = chain /\ channel' = channel /\ sub' = sub /\ count' = count
  BY Zenon DEF PushSealed
<1>2. Free.op = "free" /\ Free \in Task /\ writer[w].seg \in Segment
  BY <1>0, <1>1, TaskOps, StreamFacts, ZenonT(40)
<1>3. Sealed' = Sealed
  BY <1>0, <1>1, SealedStored, Zenon
<1>4. ChainedInv' /\ Log' = Log
  BY <1>0, <1>1, <1>3, LogKept, ZenonT(30)
<1>5. writer' \in [Writers -> Task]
  BY <1>0, <1>1, <1>2, TurnIs, Zenon
<1>6. TypeOK'
  <2>1. store' \in Seq(Segment)
    BY <1>0, <1>1, <1>2, StreamFacts
  <2> QED BY <1>0, <1>1, <1>5, <2>1, StreamFacts, TypeFrom, ZenonT(30)
<1>7. ChannelInv' /\ \A s \in Subscribers : ConnectionSound(sub'[s], channel', count')
  BY <1>1, <1>2, ChannelSame, Zenon
<1> QED BY <1>4, <1>6, <1>7, Zenon DEF StreamInv

\* A subscriber's step leaves the log, the writers and the channel alone.
LEMMA StreamFollow ==
    ASSUME StreamInv, NEW s \in Subscribers, NEW d \in Connection,
           sub' = [sub EXCEPT ![s] = d], ConnectionSound(d, channel, count),
           UNCHANGED <<chain, link, store, channel, writer, count>>
    PROVE  StreamInv' /\ Log' = Log
<1>0. TypeOK /\ ChainedInv /\ ChannelInv
  BY Zenon DEF StreamInv
<1>1. /\ chain' = chain /\ link' = link /\ store' = store /\ channel' = channel
      /\ writer' = writer /\ count' = count
  BY Zenon
<1>2. Sealed' = Sealed /\ Unsent' = Unsent
  BY <1>1, Zenon DEF Sealed, Unsent
<1>3. ChainedInv' /\ Log' = Log
  BY <1>0, <1>1, <1>2, LogKept, ZenonT(40)
<1>4. ChannelInv'
  BY <1>0, <1>1, <1>2, Zenon DEF ChannelInv
<1>5. sub' \in [Subscribers -> Connection] /\ sub'[s] = d /\ \A u \in Subscribers : u # s => sub'[u] = sub[u]
  BY <1>0, StreamFacts, Zenon
<1>6. TypeOK'
  BY <1>0, <1>1, <1>5, StreamFacts, TypeFrom, ZenonT(40)
<1>7. \A u \in Subscribers : ConnectionSound(sub'[u], channel', count')
  BY <1>1, <1>5, Zenon DEF StreamInv
<1> QED BY <1>3, <1>4, <1>6, <1>7, Zenon DEF StreamInv

\* What a replay returns is part of the open chain.
LEMMA ReplayIs ==
    ASSUME StreamInv, NEW b
    PROVE  /\ ReplayFrom(b) \in Seq(Receipts)
           /\ \A i \in DOMAIN ReplayFrom(b) : ReplayFrom(b)[i] <= count
<1>0. chain \in Seq(Receipts) /\ \A i \in DOMAIN chain : chain[i] <= count
  BY StreamFacts, Zenon DEF StreamInv, ChainedInv
<1>1. CASE b = 0
  BY <1>0, <1>1, Zenon DEF ReplayFrom
<1>2. CASE b # 0 /\ b \notin Range(chain)
  <2>1. ReplayFrom(b) = <<>>
    BY <1>2, Zenon DEF ReplayFrom
  <2> QED BY <2>1
<1>3. CASE b # 0 /\ b \in Range(chain)
  <2> DEFINE m == CHOOSE i \in DOMAIN chain : chain[i] = b
  <2>1. ReplayFrom(b) = SubSeq(chain, m + 1, Len(chain))
    BY <1>3, Zenon DEF ReplayFrom
  <2>2. m \in DOMAIN chain
    BY <1>3, Zenon DEF Range
  <2>3. m \in 1..Len(chain) /\ Len(chain) \in Nat
    BY <1>0, <2>2
  <2> HIDE DEF m
  <2>4. SubSeq(chain, m + 1, Len(chain)) \in Seq(Receipts)
    BY <1>0, <2>3
  <2>5. \A i \in DOMAIN SubSeq(chain, m + 1, Len(chain)) :
          /\ m + i \in DOMAIN chain
          /\ SubSeq(chain, m + 1, Len(chain))[i] = chain[m + i]
    BY <1>0, <2>3
  <2> QED BY <1>0, <2>1, <2>4, <2>5, ZenonT(40)
<1> QED BY <1>1, <1>2, <1>3, Zenon

\* subscribe up to drop(guard).
LEMMA StreamReplay ==
    ASSUME StreamInv, NEW s \in Subscribers, Replay(s)
    PROVE  StreamInv' /\ Log' = Log
<1>0. TypeOK
  BY Zenon DEF StreamInv
<1>1. PICK b \in Range(sub[s].got) \cup {0} :
        sub' = [sub EXCEPT ![s] =
                 [pc |-> "replayed", calls |-> sub[s].calls + 1, bookmark |-> b,
                  upto |-> count, since |-> count, next |-> 1, got |-> ReplayFrom(b)]]
  BY Zenon DEF Replay
<1>2. sub[s] \in Connection /\ count \in Nat /\ count \in 0..MaxReceipts /\ MaxReceipts \in Nat
  BY <1>0, StreamFacts, ZenonT(40)
<1>3. b \in 0..MaxReceipts
  <2>1. sub[s].got \in Seq(Receipts)
    BY <1>2, ConnectionIs, Zenon
  <2>2. \A x \in Range(sub[s].got) : x \in Receipts
    BY <2>1, ReceiptsAre, ZenonT(40) DEF Range
  <2> QED BY <1>1, <1>2, <2>2 DEF Receipts
<1>4. sub[s].calls + 1 \in 0..MaxCalls
  <2>1. MaxCalls \in Nat /\ sub[s].calls < MaxCalls
    BY <1>0, StreamFacts, Zenon DEF Replay
  <2>2. sub[s].calls \in 0..MaxCalls
    BY <1>2, Zenon DEF Connection
  <2> QED BY <2>1, <2>2
<1>5. PICK g : g = ReplayFrom(b)
  BY Zenon
<1>6. g \in Seq(Receipts) /\ \A i \in DOMAIN g : g[i] <= count
  BY <1>5, ReplayIs, Zenon
<1>7. PICK d : d = [pc |-> "replayed", calls |-> sub[s].calls + 1, bookmark |-> b,
                    upto |-> count, since |-> count, next |-> 1, got |-> g]
  BY Zenon
<1>8. d \in Connection
  <2>1. 1 \in 1..MaxReceipts + 1
    BY <1>2
  <2> QED BY <1>2, <1>3, <1>4, <1>6, <1>7, <2>1, Zenon DEF Connection
<1>9. ConnectionSound(d, channel, count)
  <2>1. d.pc # "live" /\ d.got = g /\ d.since = count
    BY <1>7, Zenon
  <2>2. count <= count
    BY <1>2
  <2> QED BY <1>2, <1>6, <1>8, <2>1, <2>2, NotLive, Zenon
<1>10. sub' = [sub EXCEPT ![s] = d]
  BY <1>1, <1>5, <1>7, ZenonT(40)
<1>11. UNCHANGED <<chain, link, store, channel, writer, count>>
  BY Zenon DEF Replay
<1> QED BY <1>8, <1>9, <1>10, <1>11, StreamFollow, ZenonT(40)

\* live_tx.subscribe().
LEMMA StreamAttach ==
    ASSUME StreamInv, NEW s \in Subscribers, Attach(s)
    PROVE  StreamInv' /\ Log' = Log
<1>0. TypeOK /\ ChannelInv
  BY Zenon DEF StreamInv
<1>1. PICK c : c = sub[s]
  BY Zenon
<1>2. PICK d : d = [c EXCEPT !.pc = "live", !.since = count, !.next = Len(channel) + 1]
  BY Zenon
<1>3. c \in Connection /\ channel \in Seq(Receipts) /\ count \in Nat
  BY <1>0, <1>1, StreamFacts, ZenonT(40)
<1>4. d \in Connection
  <2>1. count \in 0..MaxReceipts /\ Len(channel) + 1 \in 1..MaxReceipts + 1
    BY <1>0, ChannelShort, StreamFacts
  <2> QED BY <1>2, <1>3, <2>1, ZenonT(40) DEF Connection
<1>5. d.since = count /\ d.next = Len(channel) + 1 /\ d.got = c.got
  BY <1>2, <1>3, Zenon DEF Connection
<1>6. ConnectionSound(d, channel, count)
  <2>1. \A i \in DOMAIN d.got : d.got[i] <= count
    BY <1>1, <1>5, ZenonT(40) DEF StreamInv, ConnectionSound
  <2>2. \A p \in DOMAIN channel : channel[p] <= count
    BY <1>0, <1>3 DEF ChannelInv
  <2> QED BY <1>3, <1>4, <1>5, <2>1, <2>2, JustAttached, ZenonT(40)
<1>7. sub' = [sub EXCEPT ![s] = d]
  BY <1>0, <1>1, <1>2, StreamFacts, Zenon DEF Attach, Connection
<1>8. UNCHANGED <<chain, link, store, channel, writer, count>>
  BY ZenonT(40) DEF Attach
<1> QED BY <1>4, <1>6, <1>7, <1>8, StreamFollow, ZenonT(40)

\* The live stream yields one receipt.
LEMMA StreamReceive ==
    ASSUME StreamInv, NEW s \in Subscribers, Receive(s)
    PROVE  StreamInv' /\ Log' = Log
<1>0. TypeOK /\ ChannelInv
  BY Zenon DEF StreamInv
<1>1. PICK c : c = sub[s]
  BY Zenon
<1>2. PICK p : p = IF c.next < Oldest THEN Oldest ELSE c.next
  BY Zenon
<1>3. PICK d : d = [c EXCEPT !.next = p + 1, !.got = Append(@, channel[p])]
  BY Zenon
<1>4. c \in Connection /\ channel \in Seq(Receipts) /\ count \in Nat /\ Capacity \in Nat \ {0}
  BY <1>0, <1>1, StreamFacts, Zenon
<1>5. c.pc = "live" /\ c.next <= Len(channel) /\ c.next \in Nat \ {0} /\ c.got \in Seq(Receipts)
  BY <1>1, <1>4, ConnectionIs, ZenonT(40) DEF Receive
<1>6. /\ p \in DOMAIN channel /\ c.next <= p /\ p \in Nat
      /\ \A q \in DOMAIN channel : c.next <= q /\ q < p => q + Capacity <= Len(channel)
  <2>1. Len(channel) \in Nat /\ DOMAIN channel = 1..Len(channel)
    BY <1>4
  <2> QED BY <1>2, <1>4, <1>5, <2>1 DEF Oldest
<1>7. channel[p] \in Receipts
  BY <1>4, <1>6, ReceiptsAre, Zenon
<1>8. d \in Connection
  <2>1. p + 1 \in 1..MaxReceipts + 1
    BY <1>0, <1>6, ChannelShort, StreamFacts
  <2>2. Append(c.got, channel[p]) \in Seq(Receipts)
    BY <1>5, <1>7
  <2> QED BY <1>3, <1>4, <2>1, <2>2, ZenonT(30) DEF Connection
<1>9. d.since = c.since /\ d.next = p + 1 /\ d.got = Append(c.got, channel[p])
  BY <1>3, <1>4, Zenon DEF Connection
<1>10. Took(c, d, channel, p)
  BY <1>4, <1>5, <1>6, <1>8, <1>9, ZenonT(40) DEF Took
<1>11. ConnectionSound(d, channel, count)
  <2>1. /\ \A q \in DOMAIN channel : channel[q] \in 1..count
        /\ \A q, r \in DOMAIN channel : channel[q] = channel[r] => q = r
    BY <1>0, Zenon DEF ChannelInv
  <2>2. ConnectionSound(c, channel, count)
    BY <1>1, Zenon DEF StreamInv
  <2> QED BY <1>4, <1>10, <2>1, <2>2, OneMore, ZenonT(40)
<1>12. sub' = [sub EXCEPT ![s] = d]
  BY <1>0, <1>1, <1>2, <1>3, StreamFacts, ZenonT(40) DEF Receive, Connection
<1>13. UNCHANGED <<chain, link, store, channel, writer, count>>
  BY Zenon DEF Receive
<1> QED BY <1>8, <1>11, <1>12, <1>13, StreamFollow, Zenon

\* The client goes away.
LEMMA StreamDisconnect ==
    ASSUME StreamInv, NEW s \in Subscribers, Disconnect(s)
    PROVE  StreamInv' /\ Log' = Log
<1>0. TypeOK
  BY Zenon DEF StreamInv
<1>1. PICK c : c = sub[s]
  BY Zenon
<1>2. PICK d : d = [c EXCEPT !.pc = "closed"]
  BY Zenon
<1>3. c \in Connection /\ count \in Nat
  BY <1>0, <1>1, StreamFacts, Zenon
<1>4. d \in Connection /\ d.pc # "live" /\ d.since = c.since /\ d.got = c.got
  BY <1>2, <1>3, Zenon DEF Connection
<1>5. ConnectionSound(d, channel, count)
  <2>1. c.since <= count /\ \A i \in DOMAIN c.got : c.got[i] <= count
    BY <1>1, Zenon DEF StreamInv, ConnectionSound
  <2> QED BY <1>3, <1>4, <2>1, NotLive, ZenonT(40)
<1>6. sub' = [sub EXCEPT ![s] = d]
  BY <1>0, <1>1, <1>2, StreamFacts, ZenonT(40) DEF Disconnect, Connection
<1>7. UNCHANGED <<chain, link, store, channel, writer, count>>
  BY Zenon DEF Disconnect
<1> QED BY <1>4, <1>5, <1>6, <1>7, StreamFollow, ZenonT(40)

\* StreamInv holds, and the log is empty, when the service starts.
LEMMA StreamStarts == Init => StreamInv /\ Log = <<>>
<1> SUFFICES ASSUME Init PROVE StreamInv /\ Log = <<>>
  BY Zenon
<1>0. /\ chain = <<>> /\ link = 0 /\ store = <<>> /\ channel = <<>> /\ count = 0
      /\ writer = [w \in Writers |-> Free] /\ sub = [s \in Subscribers |-> Closed]
  BY Zenon DEF Init
<1>1. MaxSegments \in Nat /\ MaxReceipts \in Nat /\ MaxCalls \in Nat
  BY StreamBounds, Zenon
<1>2. <<>> \in Seq(Receipts) /\ <<>> \in Seq(Segment)
  OBVIOUS
<1>3. Closed \in Connection /\ Closed.pc = "closed" /\ Closed.since = 0 /\ Closed.got = <<>>
  <2>1. 0 \in 0..MaxCalls /\ 0 \in 0..MaxReceipts /\ 1 \in 1..MaxReceipts + 1
    BY <1>1
  <2> QED BY <1>2, <2>1, Zenon DEF Closed, Connection
<1>4. TypeOK
  <2>1. writer \in [Writers -> Task] /\ sub \in [Subscribers -> Connection]
    BY <1>0, <1>3, TaskOps, ZenonT(40)
  <2>2. 0 \in 0..MaxSegments /\ 0 \in 0..MaxReceipts
    BY <1>1
  <2> QED BY <1>0, <1>2, <2>1, <2>2, Zenon DEF TypeOK, Task, Connection
<1>5. Sealed = {} /\ Unsent = {}
  <2>1. \A w \in Writers : writer[w].op = "free"
    BY <1>0, TaskOps, Zenon
  <2> QED BY <1>0, <2>1 DEF Sealed, Unsent, Range
<1>6. Entries = {}
  <2>1. OpenPart.receipts = <<>>
    BY <1>0, Zenon DEF OpenPart
  <2>2. OfParts({}) = {}
    BY Zenon DEF OfParts
  <2>3. Entries = OfParts({} \cup {OpenPart})
    BY <1>5, EntriesOfParts, ZenonT(40)
  <2> QED BY <2>1, <2>2, <2>3, EmptyPart, ZenonT(40)
<1>7. Ranked({}) /\ Cardinality({}) = 0
  BY FS_EmptySet DEF Ranked
<1>8. Log = <<>>
  BY <1>6, <1>7 DEF Log, InOrder
<1>9. ChainedInv
  <2>1. 1..count = {} /\ DOMAIN chain = {}
    BY <1>0
  <2> QED BY <1>0, <1>5, <1>6, <1>7, <2>1, Zenon DEF ChainedInv
<1>10. ChannelInv
  <2>1. \A w \in Writers : writer[w].op = "free"
    BY <1>0, TaskOps, Zenon
  <2>2. 1..count = {} /\ DOMAIN channel = {}
    BY <1>0
  <2> QED BY <1>5, <2>1, <2>2, Zenon DEF ChannelInv
<1>11. \A s \in Subscribers : ConnectionSound(sub[s], channel, count)
  <2>1. ConnectionSound(Closed, channel, 0)
    BY <1>3, NotLive
  <2> QED BY <1>0, <2>1, ZenonT(40)
<1> QED BY <1>4, <1>8, <1>9, <1>10, <1>11, ZenonT(40) DEF StreamInv

\* The log grows by the next receipt, or stays.
LEMMA StreamSteps ==
    ASSUME StreamInv, [Next]_vars
    PROVE  StreamInv' /\ (Log' = Log \/ (Log' = Append(Log, count + 1) /\ count + 1 \in Receipts))
<1>1. CASE Write
  <2>1. PICK w \in Writers : Append_(w) \/ Send(w) \/ SealCurrentSegment(w) \/ PushSealed(w)
    BY <1>1, Zenon DEF Write
  <2> QED BY <2>1, StreamAppend, StreamSend, StreamSeal, StreamPush, ZenonT(40)
<1>2. CASE Follow
  <2>1. PICK s \in Subscribers : Replay(s) \/ Attach(s) \/ Receive(s) \/ Disconnect(s)
    BY <1>2, Zenon DEF Follow
  <2> QED BY <2>1, StreamReplay, StreamAttach, StreamReceive, StreamDisconnect, ZenonT(40)
<1>3. CASE UNCHANGED vars
  <2>1. /\ chain' = chain /\ link' = link /\ store' = store /\ channel' = channel
        /\ writer' = writer /\ count' = count /\ sub' = sub
    BY <1>3, Zenon DEF vars
  <2>2. Sealed' = Sealed /\ Unsent' = Unsent
    BY <2>1, Zenon DEF Sealed, Unsent
  <2>3. ChainedInv' /\ Log' = Log
    BY <2>1, <2>2, LogKept, ZenonT(40) DEF StreamInv
  <2>4. ChannelInv' /\ TypeOK'
    BY <2>1, <2>2, ZenonT(40) DEF ChannelInv, StreamInv, TypeOK
  <2> QED BY <2>1, <2>3, <2>4, ZenonT(40) DEF StreamInv
<1> QED BY <1>1, <1>2, <1>3, ZenonT(40) DEF Next

\* StreamInv is an invariant of the stream.
LEMMA StreamHolds == Spec => []StreamInv
<1>1. Init => StreamInv
  BY StreamStarts, Zenon
<1>2. StreamInv /\ [Next]_vars => StreamInv'
  BY StreamSteps, Zenon
<1> QED BY <1>1, <1>2, PTL DEF Spec

\* StreamInv says what StreamSound says.
LEMMA InvMeansSound == StreamInv => StreamSound
<1> SUFFICES ASSUME StreamInv, NEW s \in Subscribers, sub[s].pc = "live",
                    NEW r \in sub[s].since + 1 .. count
             PROVE  \/ Occurrences(r, sub[s].got) = 1
                    \/ Occurrences(r, sub[s].got) = 0 /\ r \in Unsent
                    \/ Occurrences(r, sub[s].got) = 0
                         /\ \E p \in SentAt(r) : p >= sub[s].next \/ p < Oldest
  BY Zenon DEF StreamInv, StreamSound, MissedOnlyByLag
<1>1. PICK c : c = sub[s]
  BY Zenon
<1>2. /\ c \in Connection /\ c.pc = "live" /\ ConnectionSound(c, channel, count)
      /\ count \in Nat /\ Capacity \in Nat \ {0} /\ channel \in Seq(Receipts)
  BY <1>1, StreamFacts, Zenon DEF StreamInv
<1>3. c.since \in Nat /\ c.got \in Seq(Receipts) /\ c.next \in Nat
  BY <1>2, ConnectionIs, Zenon
<1>4. r > c.since /\ r \in 1..count
  BY <1>1, <1>2, <1>3
<1> DEFINE I == {i \in DOMAIN c.got : c.got[i] = r}
<1>5. Occurrences(r, sub[s].got) = Cardinality(I)
  BY <1>1, Zenon DEF Occurrences
<1>6. CASE \E i \in DOMAIN c.got : c.got[i] = r
  <2>1. PICK i \in DOMAIN c.got : c.got[i] = r
    BY <1>6, Zenon
  <2>2. I = {i}
    BY <1>2, <1>4, <2>1, ZenonT(40) DEF ConnectionSound
  <2>3. Cardinality(I) = 1
    BY <2>2, FS_Singleton, ZenonT(40)
  <2> QED BY <1>5, <2>3, Zenon
<1>7. CASE ~\E i \in DOMAIN c.got : c.got[i] = r
  <2>1. I = {}
    BY <1>7, Zenon
  <2>2. Occurrences(r, sub[s].got) = 0
    BY <1>5, <2>1, FS_EmptySet, ZenonT(40)
  <2>3. ASSUME r \notin Unsent
        PROVE  \E p \in SentAt(r) : p >= sub[s].next \/ p < Oldest
    <3>1. PICK p \in DOMAIN channel : channel[p] = r
      BY <1>4, <2>3, ZenonT(40) DEF StreamInv, ChannelInv
    <3>2. p \in SentAt(r)
      BY <3>1, Zenon DEF SentAt
    <3>3. p \in Nat /\ p <= Len(channel) /\ Len(channel) \in Nat
      BY <1>2, ReceiptsAre, ZenonT(40)
    <3>4. ~(p < c.next /\ p + Capacity > Len(channel))
      BY <1>2, <1>4, <1>7, <3>1, ZenonT(40) DEF ConnectionSound
    <3>5. p >= c.next \/ p < Oldest
      <4>1. c.next \in Nat /\ Capacity \in Nat
        BY <1>2, <1>3, ConnectionIs, StreamBounds, Zenon
      <4> QED BY <3>3, <3>4, <4>1 DEF Oldest
    <3> QED BY <1>1, <3>2, <3>5, ZenonT(40)
  <2> QED BY <2>2, <2>3, ZenonT(40)
<1> QED BY <1>6, <1>7, Zenon

\* A receipt appended while a connection is attached reaches it once, unless its own
\* lag lost it, for any number of writers and subscribers and any buffer.
THEOREM StreamIsSound == Spec => []StreamSound
BY StreamHolds, InvMeansSound, PTL

\* A step extends the abstract log by the next receipt or leaves it alone.
LEMMA StreamExtends ==
    ASSUME StreamInv, [Next]_vars
    PROVE  [AppendOnly!LogNext]_Log
<1>1. CASE Log' = Log
  BY <1>1, Zenon
<1>2. CASE Log' = Append(Log, count + 1) /\ count + 1 \in Receipts
  <2>1. ChainedInv /\ count \in Nat
    BY StreamFacts, Zenon DEF StreamInv
  <2>2. DOMAIN Log = 1..count /\ \A n \in 1..count : Log[n] = n
    BY <2>1, OrderIsSeq, ZenonT(40) DEF ChainedInv, Log
  <2>3. count + 1 \notin AppendOnly!Logged
    BY <2>1, <2>2 DEF AppendOnly!Logged
  <2> QED BY <1>2, <2>3, ZenonT(40) DEF AppendOnly!LogNext, AppendOnly!Extend
<1> QED BY <1>1, <1>2, StreamSteps, ZenonT(40)

\* The in-memory chain, open, sealed and on its way to the store, implements the
\* append-only log whatever the interleaving of append and seal_current_segment.
THEOREM StreamLogRefines == Spec => LogIsAppendOnly
<1>1. Init => AppendOnly!LogInit
  BY StreamStarts, Zenon DEF AppendOnly!LogInit
<1> QED BY <1>1, StreamExtends, StreamHolds, PTL DEF Spec, LogIsAppendOnly, AppendOnly!LogSpec
==================================================================================
