-------------------------- MODULE ZoteroBatchProofs --------------------------
(***************************************************************************)
(* Theorems about ZoteroBatch, for any patches, chunk size, retry limit and *)
(* number of foreign writes.                                               *)
(***************************************************************************)
EXTENDS ZoteroBatch, FiniteSetTheorems, SequenceTheorems, TLAPS

-----------------------------------------------------------------------------
\* Induction over the naturals for a set, from the well-foundedness of strict
\* inclusion among finite sets: a set of naturals has a least member ...
LEMMA LeastNatural ==
  ASSUME NEW T \in SUBSET Nat, T # {}
  PROVE  \E m \in T : \A k \in T : m <= k
<1> DEFINE U == {0..m : m \in T}
<1>1. U \subseteq FiniteSubsetsOf(Nat)
  <2>1. ASSUME NEW m \in T PROVE 0..m \in FiniteSubsetsOf(Nat)
    BY FS_Interval DEF FiniteSubsetsOf
  <2> QED BY <2>1
<1>2. U # {}
  OBVIOUS
<1>3. PICK A \in U : \A B \in U : <<B, A>> \notin StrictSubsetOrdering(Nat)
  BY <1>1, <1>2, WFMin, FS_StrictSubsetOrderingWellFounded
<1>4. PICK m \in T : A = 0..m
  OBVIOUS
<1>5. ASSUME NEW k \in T, k < m PROVE FALSE
  <2>1. 0..k \in U /\ 0..k \subseteq 0..m /\ m \notin 0..k /\ m \in 0..m
    BY <1>5
  <2>2. <<0..k, A>> \in StrictSubsetOrdering(Nat)
    BY <2>1, <1>4 DEF StrictSubsetOrdering
  <2> QED BY <2>1, <2>2, <1>3
<1> QED BY <1>5

\* ... so one that holds 0 and the successor of each of its members is all of Nat.
LEMMA InductionOnSet ==
  ASSUME NEW T \in SUBSET Nat, 0 \in T, \A n \in T : n + 1 \in T
  PROVE  T = Nat
<1> SUFFICES ASSUME Nat \ T # {} PROVE FALSE
  OBVIOUS
<1>1. PICK m \in Nat \ T : \A k \in Nat \ T : m <= k
  BY LeastNatural
<1>2. m # 0 /\ m - 1 \in Nat
  BY <1>1
<1>3. m - 1 \in T
  BY <1>1, <1>2
<1>4. (m - 1) + 1 = m
  BY <1>1
<1> QED BY <1>3, <1>4

\* f solves the recursion that SlotsAt is written with, for the slots slot[1], ...,
\* slot[L] and the positions S.
Selects(f, L, S, slot) ==
  /\ f \in [0..L -> Seq(Slots)]
  /\ \A n \in 0..L : f[n] = IF n = 0 THEN <<>>
                            ELSE IF n \in S THEN Append(f[n - 1], slot[n]) ELSE f[n - 1]

\* The recursion has a solution ...
LEMMA SelectionExists ==
  ASSUME NEW L \in Nat, NEW S, NEW slot, \A n \in 1..L : slot[n] \in Slots
  PROVE  \E f : Selects(f, L, S, slot)
<1> DEFINE Step(f, n) == IF n \in S THEN Append(f[n - 1], slot[n]) ELSE f[n - 1]
           Solves(f, m) == \A n \in 0..m : f[n] = IF n = 0 THEN <<>> ELSE Step(f, n)
           T == {m \in Nat : m <= L => \E f \in [0..m -> Seq(Slots)] : Solves(f, m)}
<1>1. 0 \in T
  <2>1. [n \in 0..0 |-> <<>>] \in [0..0 -> Seq(Slots)]
    OBVIOUS
  <2>2. Solves([n \in 0..0 |-> <<>>], 0)
    OBVIOUS
  <2> QED BY <2>1, <2>2
<1>2. ASSUME NEW m \in T PROVE m + 1 \in T
  <2>1. CASE ~(m + 1 <= L)
    BY <2>1
  <2>2. ASSUME m + 1 <= L PROVE \E f \in [0..(m + 1) -> Seq(Slots)] : Solves(f, m + 1)
    <3>1. PICK f \in [0..m -> Seq(Slots)] : Solves(f, m)
      BY <2>2
    <3> DEFINE last == IF m + 1 \in S THEN Append(f[m], slot[m + 1]) ELSE f[m]
               g == [n \in 0..(m + 1) |-> IF n = m + 1 THEN last ELSE f[n]]
    <3>2. last \in Seq(Slots)
      BY <2>2
    <3>3. g \in [0..(m + 1) -> Seq(Slots)]
      <4> HIDE DEF last
      <4> QED BY <3>2
    <3>4. ASSUME NEW n \in 0..(m + 1) PROVE g[n] = IF n = 0 THEN <<>> ELSE Step(g, n)
      <4>1. CASE n = m + 1
        <5>1. g[n - 1] = f[m] /\ n # 0
          BY <4>1
        <5> QED BY <4>1, <5>1
      <4>2. CASE n # m + 1
        <5>1. n \in 0..m
          BY <4>2
        <5>2. g[n] = f[n] /\ (n # 0 => g[n - 1] = f[n - 1])
          BY <5>1
        <5> HIDE DEF g
        <5> QED BY <5>1, <5>2, <3>1
      <4> QED BY <4>1, <4>2
    <3> QED BY <3>3, <3>4
  <2>3. m + 1 \in Nat
    OBVIOUS
  <2> HIDE DEF Solves
  <2> QED BY <2>1, <2>2, <2>3
<1>3. T = Nat
  <2> HIDE DEF T
  <2> T \in SUBSET Nat
    BY DEF T
  <2> QED BY <1>1, <1>2, InductionOnSet
<1> QED BY <1>3 DEF Selects

-----------------------------------------------------------------------------
\* The next POST is a prefix of the group, and what is left is the rest of it.
LEMMA ChunkFacts ==
  ASSUME group \in Seq(Entry)
  PROVE  /\ Chunk \in Seq(Entry) /\ Rest \in Seq(Entry)
         /\ Len(Chunk) \in 0..Len(group) /\ DOMAIN Chunk = 1..Len(Chunk)
         /\ Len(Rest) = Len(group) - Len(Chunk)
         /\ \A n \in 1..Len(Chunk) : Chunk[n] = group[n]
         /\ \A n \in 1..Len(Rest) : Rest[n] = group[Len(Chunk) + n]
<1> DEFINE c == Least(ChunkSize, Len(group))
<1>1. c \in 0..Len(group)
  BY Assumption DEF Least
<1>2. Chunk = SubSeq(group, 1, c) /\ Rest = SubSeq(group, c + 1, Len(group))
  BY DEF Chunk, Rest
<1> HIDE DEF c
<1>3. /\ \A i \in 1..c : group[i] \in Entry
      /\ \A i \in (c + 1)..Len(group) : group[i] \in Entry
      /\ 1 \in Int /\ c \in Int /\ c + 1 \in Int /\ Len(group) \in Int
  BY <1>1
<1>4. /\ Chunk \in Seq(Entry)
      /\ Len(Chunk) = IF 1 <= c THEN c - 1 + 1 ELSE 0
      /\ \A i \in 1..(c - 1 + 1) : Chunk[i] = group[1 + i - 1]
  BY <1>2, <1>3, SubSeqProperties
<1>5. /\ Rest \in Seq(Entry)
      /\ Len(Rest) = IF c + 1 <= Len(group) THEN Len(group) - (c + 1) + 1 ELSE 0
      /\ \A i \in 1..(Len(group) - (c + 1) + 1) : Rest[i] = group[(c + 1) + i - 1]
  BY <1>2, <1>3, SubSeqProperties
<1>6. Len(Chunk) = c /\ Len(Rest) = Len(group) - c
  BY <1>1, <1>4, <1>5
<1>7. DOMAIN Chunk = 1..Len(Chunk)
  BY <1>4
<1>8. \A n \in 1..Len(Chunk) : Chunk[n] = group[n]
  BY <1>1, <1>4, <1>6
<1>9. \A n \in 1..Len(Rest) : Rest[n] = group[Len(Chunk) + n]
  BY <1>1, <1>5, <1>6
<1> QED BY <1>1, <1>4, <1>5, <1>6, <1>7, <1>8, <1>9

\* The slots at some positions of the chunk are slots, and all of them are there.
LEMMA SlotsAtFacts ==
  ASSUME group \in Seq(Entry), NEW S
  PROVE  /\ SlotsAt(S) \in Seq(Slots)
         /\ \A n \in S \intersect (DOMAIN Chunk) :
              \E m \in 1..Len(SlotsAt(S)) : SlotsAt(S)[m] = Chunk[n].slot
<1> DEFINE L == Len(Chunk)
           Rec(f) == f = [n \in 0..L |-> IF n = 0 THEN <<>>
                                         ELSE IF n \in S THEN Append(f[n - 1], SlotAt(n))
                                         ELSE f[n - 1]]
           pick == CHOOSE f : Rec(f)
<1>1. /\ L \in Nat /\ DOMAIN Chunk = 1..L
      /\ \A n \in 1..L : SlotAt(n) \in Slots
  <2>1. Chunk \in Seq(Entry) /\ \A n \in 1..L : Chunk[n] \in Entry
    BY ChunkFacts
  <2>2. \A e \in Entry : e.slot \in Slots
    BY DEF Entry
  <2> QED BY <2>1, <2>2 DEF SlotAt
<1>2. \E f : Rec(f)
  <2> DEFINE slot == [n \in 1..L |-> SlotAt(n)]
  <2>1. PICK f : Selects(f, L, S, slot)
    <3>1. L \in Nat /\ \A n \in 1..L : slot[n] \in Slots
      BY <1>1
    <3> HIDE DEF L, slot
    <3> QED BY <3>1, SelectionExists
  <2>2. \A n \in 0..L : n # 0 => slot[n] = SlotAt(n)
    BY <1>1
  <2> HIDE DEF slot, L
  <2>3. Rec(f)
    BY <2>1, <2>2 DEF Selects
  <2> QED BY <2>3
<1>3. Rec(pick)
  BY <1>2
<1>4. SlotsAt(S) = pick[L]
  BY DEF SlotsAt
<1> HIDE DEF pick
<1> DEFINE T == {m \in Nat : m <= L =>
                    /\ pick[m] \in Seq(Slots)
                    /\ \A n \in S \intersect (1..m) :
                         \E j \in 1..Len(pick[m]) : pick[m][j] = SlotAt(n)}
<1>5. 0 \in T
  BY <1>1, <1>3
<1>6. ASSUME NEW m \in T, m + 1 <= L PROVE m + 1 \in T
  <2> HIDE DEF L
  <2>1. /\ m \in Nat /\ m + 1 \in 1..L /\ SlotAt(m + 1) \in Slots
        /\ pick[m] \in Seq(Slots)
        /\ \A n \in S \intersect (1..m) :
                         \E j \in 1..Len(pick[m]) : pick[m][j] = SlotAt(n)
    BY <1>1, <1>6
  <2>2. pick[m + 1] = IF m + 1 \in S THEN Append(pick[m], SlotAt(m + 1)) ELSE pick[m]
    <3>1. m + 1 \in 0..L /\ m + 1 # 0 /\ (m + 1) - 1 = m
      BY <2>1, <1>1
    <3> QED BY <1>3, <3>1
  <2>3. pick[m + 1] \in Seq(Slots)
    BY <2>1, <2>2
  <2>4. ASSUME NEW n \in S \intersect (1..(m + 1))
        PROVE  \E j \in 1..Len(pick[m + 1]) : pick[m + 1][j] = SlotAt(n)
    <3>1. CASE n = m + 1
      <4>1. /\ Len(pick[m + 1]) \in 1..Len(pick[m + 1])
            /\ pick[m + 1][Len(pick[m + 1])] = SlotAt(n)
        BY <3>1, <2>1, <2>2
      <4> QED BY <4>1
    <3>2. CASE n # m + 1
      <4>1. n \in S \intersect (1..m)
        BY <3>2, <2>1
      <4>2. PICK j \in 1..Len(pick[m]) : pick[m][j] = SlotAt(n)
        BY <4>1, <2>1
      <4>3. j \in 1..Len(pick[m + 1]) /\ pick[m + 1][j] = pick[m][j]
        BY <2>1, <2>2
      <4> QED BY <4>2, <4>3
    <3> QED BY <3>1, <3>2
  <2> QED BY <2>1, <2>3, <2>4
<1>7. T = Nat
  <2>1. \A m \in T : m + 1 \in T
    BY <1>6, <1>1
  <2>2. T \in SUBSET Nat
    OBVIOUS
  <2> HIDE DEF T
  <2> QED BY <1>5, <2>1, <2>2, InductionOnSet
<1>8. L \in T
  BY <1>1, <1>7
<1> QED BY <1>1, <1>4, <1>8 DEF SlotAt

-----------------------------------------------------------------------------
\* The inductive invariant.

\* Nothing is left to build once the stage is posted.
Staged == pc = "post" => todo = <<>>

\* Until the call returns, a patch is in hand or has an outcome of its own.
Pending(i) == \/ \E n \in 1..Len(todo) : todo[n] = i
              \/ \E n \in 1..Len(group) : group[n].slot = i
              \/ \E n \in 1..Len(refused) : refused[n] = i
Settled(i) == results[KeyOf(i)] \in {"nil", "error"}
Tracked == pc \in {"build", "post", "refresh"} => \A i \in Slots : Pending(i) \/ Settled(i)

\* A version number stands for one state of an item, here and in the local copy.
VersionsOwn ==
  \A k \in Keys : /\ version[k] <= libver /\ local[k].version <= libver
                  /\ local[k].version = version[k] => local[k].data = data[k]

\* A payload that the server would still accept holds all the item holds.
EntriesFresh ==
  \A n \in 1..Len(group) :
    /\ group[n].version <= libver
    /\ Patches[group[n].slot].how = "append" /\ group[n].version = version[KeyOf(group[n].slot)]
         => data[KeyOf(group[n].slot)] \subseteq group[n].load

\* The appends carry the version they were composed at (items.go:352-364 asks it of
\* the caller; the batch run that violates AppendKeeps is a call that does not).
AppendsLoaded == \A i \in Slots : Patches[i].how = "append" => Patches[i].loaded

-----------------------------------------------------------------------------
\* What a patch names: an item of the library, and no two patches the same one.
LEMMA PatchFacts ==
  /\ \A i \in Slots : KeyOf(i) \in Keys
  /\ \A i, j \in Slots : KeyOf(i) = KeyOf(j) => i = j
  /\ \A i \in Slots, S \in SUBSET Elems : Load(i, S) \in SUBSET Elems
<1>1. \A i \in Slots : Patches[i] \in PatchType
  BY Assumption DEF Slots
<1>2. \A i \in Slots : Patches[i].key \in Keys /\ Patches[i].elem \in Elems
  BY <1>1 DEF PatchType
<1> QED BY <1>2, Assumption DEF KeyOf, Load

LEMMA EntryFacts ==
  ASSUME TypeOK
  PROVE  \A n \in 1..Len(group) :
           /\ group[n] \in Entry /\ group[n].slot \in Slots /\ group[n].version \in Nat
           /\ group[n].load \in SUBSET Elems /\ KeyOf(group[n].slot) \in Keys
<1>1. \A n \in 1..Len(group) : group[n] \in Entry
  BY DEF TypeOK
<1> QED BY <1>1, PatchFacts DEF Entry

\* What a committed chunk does to an item: nothing, or the payload of an entry that
\* names it and was accepted.
LEMMA CommitFacts ==
  ASSUME TypeOK, Commit
  PROVE  /\ exists' = exists /\ libver' \in {libver, libver + 1}
         /\ \A n \in Accepted : /\ n \in 1..Len(Chunk) /\ n \in 1..Len(group)
                                /\ Chunk[n] = group[n]
                                /\ version[KeyOf(group[n].slot)] = group[n].version
         /\ made' = made \union {Chunk[n].slot : n \in Accepted}
         /\ data' \in [Keys -> SUBSET Elems] /\ version' \in [Keys -> Nat]
         /\ \A k \in Keys :
              \/ data'[k] = data[k] /\ version'[k] = version[k]
              \/ /\ version'[k] = libver + 1 /\ libver' = libver + 1
                 /\ \E n \in Accepted : KeyOf(group[n].slot) = k /\ data'[k] = group[n].load
<1> DEFINE load(k) == {n \in Accepted : KeyOf(Chunk[n].slot) = k /\ Chunk[n].load # data[k]}
           pick(k) == CHOOSE n \in load(k) : TRUE
<1>1. \A n \in Accepted : /\ n \in 1..Len(Chunk) /\ n \in 1..Len(group) /\ Chunk[n] = group[n]
                          /\ version[KeyOf(group[n].slot)] = group[n].version
  <2>1. /\ DOMAIN Chunk = 1..Len(Chunk) /\ Len(Chunk) \in 0..Len(group)
        /\ \A n \in 1..Len(Chunk) : Chunk[n] = group[n]
    BY ChunkFacts DEF TypeOK
  <2> QED BY <2>1 DEF Accepted, TypeOK
<1>2. /\ data' = [k \in Keys |-> IF load(k) = {} THEN data[k] ELSE Chunk[pick(k)].load]
      /\ version' = [k \in Keys |-> IF load(k) = {} THEN version[k] ELSE libver + 1]
      /\ libver' = IF data' = data THEN libver ELSE libver + 1
      /\ made' = made \union {Chunk[n].slot : n \in Accepted}
      /\ exists' = exists
  BY DEF Commit
<1>3. ASSUME NEW k \in Keys, load(k) # {}
      PROVE  /\ pick(k) \in Accepted /\ KeyOf(group[pick(k)].slot) = k
             /\ data'[k] = group[pick(k)].load /\ data'[k] # data[k]
             /\ data'[k] \in SUBSET Elems /\ version'[k] = libver + 1
  <2>1. pick(k) \in load(k)
    BY <1>3
  <2> HIDE DEF pick
  <2>2. pick(k) \in Accepted /\ KeyOf(Chunk[pick(k)].slot) = k /\ Chunk[pick(k)].load # data[k]
    BY <2>1
  <2>3. data'[k] = Chunk[pick(k)].load /\ version'[k] = libver + 1
    BY <1>2, <1>3
  <2> QED BY <1>1, <2>2, <2>3, EntryFacts
<1>4. ASSUME NEW k \in Keys, load(k) = {}
      PROVE  data'[k] = data[k] /\ version'[k] = version[k]
  BY <1>2, <1>4
<1> HIDE DEF load, pick
<1>5. data' \in [Keys -> SUBSET Elems] /\ version' \in [Keys -> Nat]
  <2>1. ASSUME NEW k \in Keys PROVE data'[k] \in SUBSET Elems /\ version'[k] \in Nat
    <3>1. data[k] \in SUBSET Elems /\ version[k] \in Nat /\ libver + 1 \in Nat
      BY DEF TypeOK
    <3> QED BY <3>1, <1>3, <1>4
  <2>2. data' = [k \in Keys |-> data'[k]] /\ version' = [k \in Keys |-> version'[k]]
    BY <1>2
  <2> QED BY <2>1, <2>2
<1>6. ASSUME NEW k \in Keys
      PROVE  \/ data'[k] = data[k] /\ version'[k] = version[k]
             \/ /\ version'[k] = libver + 1 /\ libver' = libver + 1
                /\ \E n \in Accepted : KeyOf(group[n].slot) = k /\ data'[k] = group[n].load
  <2>1. CASE load(k) = {}
    BY <2>1, <1>4
  <2>2. CASE load(k) # {}
    BY <2>2, <1>2, <1>3
  <2> QED BY <2>1, <2>2
<1> QED BY <1>1, <1>2, <1>5, <1>6

-----------------------------------------------------------------------------
\* One lemma per action: it keeps the types.
LEMMA ElsewhereType == ASSUME TypeOK, NEW k \in Keys, ElsewhereWrite(k) PROVE TypeOK'
<1>1. libver' \in Nat /\ version' \in [Keys -> Nat] /\ elsewhere' \in 0..MaxElsewhere
  BY Assumption DEF TypeOK, ElsewhereWrite
<1>2. exists' \in [Keys -> BOOLEAN] /\ data' \in [Keys -> SUBSET Elems]
  <2>1. CASE data' = data /\ exists' = [exists EXCEPT ![k] = FALSE]
    BY <2>1 DEF TypeOK
  <2>2. CASE /\ UNCHANGED exists
             /\ \E x \in Elems : data' = [data EXCEPT ![k] = IF x \in @ THEN @ \ {x} ELSE @ \union {x}]
    BY <2>2 DEF TypeOK
  <2> QED BY <2>1, <2>2 DEF ElsewhereWrite
<1>3. UNCHANGED <<local, client>>
  BY DEF ElsewhereWrite
<1> QED BY <1>1, <1>2, <1>3 DEF TypeOK, client

\* Building and refreshing: the head of todo gets an entry of its own, composed from
\* the local copy or from the server's, or it is reported as an error.
LEMMA BuildFacts ==
  ASSUME TypeOK, Build \/ Refresh
  PROVE  LET i == Head(todo)
             k == KeyOf(i) IN
         /\ pc \in {"build", "refresh"} /\ todo # <<>>
         /\ i \in Slots /\ k \in Keys /\ i = todo[1]
         /\ todo' = Tail(todo) /\ Tail(todo) \in Seq(Slots)
         /\ \/ results' = results /\ \E e \in Entry :
                 /\ group' = Append(group, e) /\ e.slot = i
                 /\ \/ /\ Patches[i].loaded /\ e.version = local[k].version
                       /\ e.load = Load(i, local[k].data)
                    \/ /\ e.version = version[k]
                       /\ \/ Patches[i].how = "append" /\ e.load = Load(i, data[k])
                          \/ Patches[i].how = "append" /\ ~Patches[i].loaded
                          \/ Patches[i].how # "append"
            \/ results' = [results EXCEPT ![k] = "error"] /\ group' = group
         /\ UNCHANGED <<server, elsewhere, local, pc, round, refused, attempt, made>>
<1> DEFINE i == Head(todo)
           k == KeyOf(i)
           entry(v, load) == [slot |-> i, version |-> v, load |-> load]
<1>1. pc \in {"build", "refresh"} /\ todo # <<>> /\ todo' = Tail(todo)
  BY DEF Build, Refresh
<1>2. i \in Slots /\ i = todo[1] /\ k \in Keys /\ Tail(todo) \in Seq(Slots)
  BY <1>1, PatchFacts DEF TypeOK
<1>3. /\ data[k] \in SUBSET Elems /\ local[k].data \in SUBSET Elems
      /\ version[k] \in Nat /\ local[k].version \in Nat
  BY <1>2 DEF TypeOK
<1>4. /\ Load(i, local[k].data) \in SUBSET Elems /\ Load(i, data[k]) \in SUBSET Elems
  BY <1>2, <1>3, PatchFacts
<1>5. ASSUME NEW v \in {version[k], local[k].version},
             NEW load \in {Load(i, local[k].data), Load(i, data[k])}
      PROVE  entry(v, load) \in Entry
  BY <1>2, <1>3, <1>4, <1>5 DEF Entry
<1>6. \/ /\ Patches[i].loaded /\ UNCHANGED results
         /\ group' = Append(group, entry(local[k].version, Load(i, local[k].data)))
      \/ /\ ~Patches[i].loaded /\ UNCHANGED results
         /\ group' = Append(group, entry(version[k], Load(i, local[k].data)))
      \/ /\ Patches[i].how = "append" /\ UNCHANGED results
         /\ group' = Append(group, entry(version[k], Load(i, data[k])))
      \/ /\ Patches[i].how # "append" /\ UNCHANGED results
         /\ group' = Append(group, entry(version[k], Load(i, local[k].data)))
      \/ results' = [results EXCEPT ![k] = "error"] /\ UNCHANGED group
  BY DEF Build, Refresh, Report
<1>7. UNCHANGED <<server, elsewhere, local, pc, round, refused, attempt, made>>
  BY DEF Build, Refresh
<1> HIDE DEF i, k
<1>8. \/ results' = results /\ \E e \in Entry :
           /\ group' = Append(group, e) /\ e.slot = i
           /\ \/ /\ Patches[i].loaded /\ e.version = local[k].version
                 /\ e.load = Load(i, local[k].data)
              \/ /\ e.version = version[k]
                 /\ \/ Patches[i].how = "append" /\ e.load = Load(i, data[k])
                    \/ Patches[i].how = "append" /\ ~Patches[i].loaded
                    \/ Patches[i].how # "append"
      \/ results' = [results EXCEPT ![k] = "error"] /\ group' = group
  BY <1>5, <1>6
<1> QED BY <1>1, <1>2, <1>7, <1>8 DEF i, k

LEMMA BuildType == ASSUME TypeOK, Build \/ Refresh PROVE TypeOK'
<1> DEFINE k == KeyOf(Head(todo))
<1>1. /\ k \in Keys /\ todo' \in Seq(Slots)
      /\ UNCHANGED <<server, elsewhere, local, pc, round, refused, attempt, made>>
  BY BuildFacts
<1>2. \/ results' = results /\ \E e \in Entry : group' = Append(group, e)
      \/ results' = [results EXCEPT ![k] = "error"] /\ group' = group
  BY BuildFacts
<1> HIDE DEF k
<1>3. group' \in Seq(Entry)
  <2>1. CASE group' = group
    BY <2>1 DEF TypeOK
  <2>2. ASSUME NEW e \in Entry, group' = Append(group, e) PROVE group' \in Seq(Entry)
    BY <2>2 DEF TypeOK
  <2> QED BY <1>2, <2>1, <2>2
<1>4. results' \in [Keys -> Outcome]
  BY <1>1, <1>2 DEF TypeOK, Outcome
<1> QED BY <1>1, <1>3, <1>4 DEF TypeOK, server

LEMMA AnswerType == ASSUME TypeOK, AnswerPost PROVE TypeOK'
<1>1. /\ exists' = exists /\ libver' \in Nat
      /\ data' \in [Keys -> SUBSET Elems] /\ version' \in [Keys -> Nat]
  BY CommitFacts DEF AnswerPost, TypeOK
<1>2. made' \subseteq Slots
  <2>1. \A n \in Accepted : Chunk[n].slot \in Slots
    BY CommitFacts, EntryFacts DEF AnswerPost
  <2>2. made' = made \union {Chunk[n].slot : n \in Accepted}
    BY CommitFacts DEF AnswerPost
  <2> QED BY <2>1, <2>2 DEF TypeOK
<1>3. group' \in Seq(Entry)
  BY ChunkFacts DEF AnswerPost, TypeOK
<1>4. refused' \in Seq(Slots)
  BY SlotsAtFacts DEF AnswerPost, TypeOK
<1>5. results' \in [Keys -> Outcome]
  BY DEF AnswerPost, TypeOK, Outcome
<1>6. attempt' \in 0..MaxRetry /\ UNCHANGED <<elsewhere, local, pc, round, todo>>
  BY Assumption DEF AnswerPost
<1> QED BY <1>1, <1>2, <1>3, <1>4, <1>5, <1>6 DEF TypeOK

LEMMA SendAgainType ==
  ASSUME TypeOK, SendAgain \/ (pc' = "failed" /\ UNCHANGED attempt)
  PROVE  attempt' \in 0..MaxRetry /\ pc' \in {pc, "failed"}
  BY Assumption DEF TypeOK, SendAgain

LEMMA FailType == ASSUME TypeOK, PostFails \/ PostLost PROVE TypeOK'
<1>1. attempt' \in 0..MaxRetry /\ pc' \in {pc, "failed"}
  BY SendAgainType DEF PostFails, PostLost
<1>2. UNCHANGED <<elsewhere, local, round, todo, group, refused, results>>
  BY DEF PostFails, PostLost
<1>3. UNCHANGED <<server, made>> \/ Commit
  BY DEF PostFails, PostLost
<1>4. /\ exists' = exists /\ libver' \in Nat
      /\ data' \in [Keys -> SUBSET Elems] /\ version' \in [Keys -> Nat]
  BY <1>3, CommitFacts DEF TypeOK, server
<1>5. made' \subseteq Slots
  <2>1. CASE made' = made
    BY <2>1 DEF TypeOK
  <2>2. CASE Commit
    <3>1. \A n \in Accepted : Chunk[n].slot \in Slots
      BY <2>2, CommitFacts, EntryFacts
    <3>2. made' = made \union {Chunk[n].slot : n \in Accepted}
      BY <2>2, CommitFacts
    <3> QED BY <3>1, <3>2 DEF TypeOK
  <2> QED BY <1>3, <2>1, <2>2
<1> QED BY <1>1, <1>2, <1>4, <1>5 DEF TypeOK

LEMMA StageType == ASSUME TypeOK, NextStage PROVE TypeOK'
<1>1. /\ pc' \in {"build", "post", "refresh", "done", "failed"} /\ round' \in {0, 1}
      /\ todo' \in Seq(Slots) /\ refused' \in Seq(Slots)
  BY DEF TypeOK, NextStage
<1>2. results' \in [Keys -> Outcome]
  <2>1. CASE results' = results
    BY <2>1 DEF TypeOK
  <2>2. CASE results' = [k \in Keys |->
             IF \E n \in DOMAIN refused : KeyOf(refused[n]) = k THEN "conflict"
             ELSE IF results[k] = "none" /\ \E i \in Slots : KeyOf(i) = k THEN "unreported"
             ELSE results[k]]
    BY <2>2 DEF TypeOK, Outcome
  <2> QED BY <2>1, <2>2 DEF NextStage
<1>3. UNCHANGED <<server, elsewhere, local, group, attempt, made>>
  BY DEF NextStage
<1> QED BY <1>1, <1>2, <1>3 DEF TypeOK, server

\* TypeOK is an invariant of the batch update.
THEOREM TypeCorrect == Spec => []TypeOK
<1>1. Init => TypeOK
  <2>1. Len(Patches) \in Nat
    BY Assumption
  <2>2. [i \in Slots |-> i] \in Seq(Slots)
    BY <2>1 DEF Slots
  <2> QED BY <2>2, Assumption DEF Init, TypeOK, Outcome
<1>2. TypeOK /\ [Next]_vars => TypeOK'
  <2> SUFFICES ASSUME TypeOK, [Next]_vars PROVE TypeOK'
    OBVIOUS
  <2>1. CASE UNCHANGED vars
    BY <2>1 DEF TypeOK, vars, server, client
  <2> QED BY <2>1, ElsewhereType, BuildType, AnswerType, FailType, StageType DEF Next, Call
<1> QED BY <1>1, <1>2, PTL DEF Spec

-----------------------------------------------------------------------------
\* What every key is told.
ReportInv == Staged /\ Tracked /\ NilMeansMade /\ EveryKeyReported

LEMMA ReportInit == Init => ReportInv
<1> SUFFICES ASSUME Init PROVE ReportInv
  OBVIOUS
<1>1. pc = "build" /\ results = [k \in Keys |-> "none"] /\ todo = [i \in Slots |-> i]
  BY DEF Init
<1>2. ASSUME NEW i \in Slots PROVE Pending(i)
  <2>1. i \in 1..Len(todo) /\ todo[i] = i
    BY <1>1, Assumption DEF Slots
  <2> QED BY <2>1 DEF Pending
<1>3. NilMeansMade
  BY <1>1, PatchFacts DEF NilMeansMade
<1> QED BY <1>1, <1>2, <1>3 DEF ReportInv, Staged, Tracked, EveryKeyReported

LEMMA ReportIdle ==
  ASSUME ReportInv, UNCHANGED <<todo, group, refused, results, made>>,
         pc' = pc \/ pc' = "failed", pc \in {"post", "failed"} \/ pc' = pc
  PROVE  ReportInv'
  BY DEF ReportInv, Staged, Tracked, NilMeansMade, EveryKeyReported, Pending, Settled

LEMMA ReportBuild == ASSUME TypeOK, ReportInv, Build \/ Refresh PROVE ReportInv'
<1>0. PICK i \in Slots : i = Head(todo)
  BY BuildFacts
<1> DEFINE k == KeyOf(i)
<1>1. /\ pc' = pc /\ pc \in {"build", "refresh"} /\ k \in Keys /\ i = todo[1]
      /\ todo' = Tail(todo) /\ refused' = refused /\ made' = made /\ todo \in Seq(Slots)
      /\ todo # <<>>
  BY <1>0, BuildFacts DEF TypeOK
<1>2. \/ results' = results /\ \E e \in Entry : group' = Append(group, e) /\ e.slot = i
      \/ results' = [results EXCEPT ![k] = "error"] /\ group' = group
  BY <1>0, BuildFacts
<1> HIDE DEF k
<1>3. ASSUME NEW n \in 1..Len(group)
      PROVE  n \in 1..Len(group') /\ group'[n] = group[n]
  <2>1. CASE group' = group
    BY <2>1
  <2>2. ASSUME NEW e \in Entry, group' = Append(group, e)
        PROVE  n \in 1..Len(group') /\ group'[n] = group[n]
    BY <2>2 DEF TypeOK
  <2> QED BY <1>2, <2>1, <2>2
<1>4. ASSUME NEW n \in 1..Len(todo), n # 1
      PROVE  n - 1 \in 1..Len(todo') /\ todo'[n - 1] = todo[n]
  BY <1>1, <1>4
<1>5. Settled(i)' \/ Pending(i)'
  <2>1. CASE results' = [results EXCEPT ![k] = "error"]
    BY <2>1, <1>1 DEF Settled, TypeOK, k
  <2>2. ASSUME NEW e \in Entry, group' = Append(group, e), e.slot = i
        PROVE  Pending(i)'
    <3>1. Len(group) + 1 \in 1..Len(group') /\ group'[Len(group) + 1].slot = i
      BY <2>2 DEF TypeOK
    <3> QED BY <3>1 DEF Pending
  <2> QED BY <1>2, <2>1, <2>2
<1>6. ASSUME NEW j \in Slots PROVE Settled(j)' \/ Pending(j)'
  <2>1. Settled(j) \/ Pending(j)
    BY <1>1 DEF ReportInv, Tracked
  <2>2. CASE Settled(j)
    BY <2>2, <1>2, PatchFacts DEF Settled, TypeOK
  <2>3. CASE Pending(j)
    <3>1. CASE \E n \in 1..Len(todo) : todo[n] = j
      <4>1. PICK n \in 1..Len(todo) : todo[n] = j
        BY <3>1
      <4> QED BY <4>1, <1>1, <1>4, <1>5 DEF Pending
    <3>2. CASE \E n \in 1..Len(group) : group[n].slot = j
      BY <3>2, <1>3 DEF Pending
    <3>3. CASE \E n \in 1..Len(refused) : refused[n] = j
      BY <3>3, <1>1 DEF Pending
    <3> QED BY <2>3, <3>1, <3>2, <3>3 DEF Pending
  <2> QED BY <2>1, <2>2, <2>3
<1>7. NilMeansMade'
  BY <1>1, <1>2, PatchFacts DEF ReportInv, NilMeansMade, TypeOK
<1> QED BY <1>1, <1>6, <1>7 DEF ReportInv, Staged, Tracked, EveryKeyReported

LEMMA ReportAnswer == ASSUME TypeOK, ReportInv, AnswerPost PROVE ReportInv'
<1> DEFINE of(N, k) == \E n \in N : KeyOf(Chunk[n].slot) = k
           Others == DOMAIN Chunk \ (Accepted \union Conflicting)
<1>1. /\ pc = "post" /\ pc' = pc /\ todo' = todo /\ todo = <<>>
      /\ group' = Rest /\ refused' = refused \o SlotsAt(Conflicting)
  BY DEF AnswerPost, ReportInv, Staged
<1>2. results' = [k \in Keys |-> IF of(Accepted, k) THEN "nil"
                                 ELSE IF of(Others, k) THEN "error" ELSE results[k]]
  BY DEF AnswerPost, SlotAt
<1>3. made' = made \union {Chunk[n].slot : n \in Accepted}
  BY CommitFacts DEF AnswerPost
<1>4. /\ DOMAIN Chunk = 1..Len(Chunk) /\ Len(Chunk) \in 0..Len(group)
      /\ Len(Rest) = Len(group) - Len(Chunk) /\ Rest \in Seq(Entry)
      /\ \A n \in 1..Len(Chunk) : Chunk[n] = group[n]
      /\ \A n \in 1..Len(Rest) : Rest[n] = group[Len(Chunk) + n]
  BY ChunkFacts DEF TypeOK
<1>5. \A n \in Accepted : Chunk[n].slot \in Slots
  BY CommitFacts, EntryFacts DEF AnswerPost
<1>6. NilMeansMade'
  <2> SUFFICES ASSUME NEW i \in Slots, results'[KeyOf(i)] = "nil" PROVE i \in made'
    BY DEF NilMeansMade
  <2>1. CASE of(Accepted, KeyOf(i))
    <3>1. PICK n \in Accepted : KeyOf(Chunk[n].slot) = KeyOf(i)
      BY <2>1
    <3>2. Chunk[n].slot = i
      BY <3>1, <1>5, PatchFacts
    <3> QED BY <3>2, <1>3
  <2>2. CASE ~of(Accepted, KeyOf(i))
    <3>1. results[KeyOf(i)] = "nil"
      BY <2>2, <1>2, PatchFacts
    <3> QED BY <3>1, <1>3 DEF ReportInv, NilMeansMade
  <2> QED BY <2>1, <2>2
<1>7. ASSUME NEW i \in Slots PROVE Pending(i)' \/ Settled(i)'
  <2>1. Pending(i) \/ Settled(i)
    BY <1>1 DEF ReportInv, Tracked
  <2>2. CASE Settled(i)
    BY <2>2, <1>2, PatchFacts DEF Settled
  <2>3. ASSUME NEW n \in 1..Len(group), group[n].slot = i PROVE Pending(i)' \/ Settled(i)'
    <3>1. CASE n > Len(Chunk)
      <4>1. n - Len(Chunk) \in 1..Len(Rest) /\ Rest[n - Len(Chunk)] = group[n]
        BY <3>1, <1>4
      <4> QED BY <4>1, <2>3, <1>1 DEF Pending
    <3>2. CASE n <= Len(Chunk)
      <4>1. n \in DOMAIN Chunk /\ Chunk[n].slot = i
        BY <3>2, <2>3, <1>4
      <4>2. CASE n \in Conflicting
        <5>1. /\ SlotsAt(Conflicting) \in Seq(Slots)
              /\ \E m \in 1..Len(SlotsAt(Conflicting)) : SlotsAt(Conflicting)[m] = i
          BY <4>1, <4>2, SlotsAtFacts DEF TypeOK
        <5> DEFINE more == SlotsAt(Conflicting)
        <5>2. PICK m \in 1..Len(more) : more[m] = i
          BY <5>1
        <5>3. more \in Seq(Slots) /\ refused \in Seq(Slots) /\ refused' = refused \o more
          BY <5>1, <1>1 DEF TypeOK
        <5> HIDE DEF more
        <5>4. Len(refused) + m \in 1..Len(refused') /\ refused'[Len(refused) + m] = i
          BY <5>2, <5>3
        <5> QED BY <5>4 DEF Pending
      <4>3. CASE n \notin Conflicting
        <5>1. of(Accepted, KeyOf(i)) \/ of(Others, KeyOf(i))
          BY <4>1, <4>3
        <5> QED BY <5>1, <1>2, PatchFacts DEF Settled
      <4> QED BY <4>2, <4>3
    <3> QED BY <3>1, <3>2, <1>4
  <2>4. ASSUME NEW n \in 1..Len(refused), refused[n] = i PROVE Pending(i)'
    <3>1. SlotsAt(Conflicting) \in Seq(Slots) /\ refused \in Seq(Slots)
      BY SlotsAtFacts DEF TypeOK
    <3>2. n \in 1..Len(refused') /\ refused'[n] = i
      BY <3>1, <2>4, <1>1
    <3> QED BY <3>2 DEF Pending
  <2> QED BY <2>1, <2>2, <2>3, <2>4, <1>1 DEF Pending
<1> QED BY <1>1, <1>6, <1>7 DEF ReportInv, Staged, Tracked, EveryKeyReported

LEMMA ReportStage == ASSUME TypeOK, ReportInv, NextStage PROVE ReportInv'
<1>1. CASE /\ pc \in {"build", "refresh"} /\ todo = <<>> /\ pc' = "post"
           /\ UNCHANGED <<round, todo, refused, results>>
  BY <1>1 DEF NextStage, ReportInv, Staged, Tracked, NilMeansMade, EveryKeyReported, Pending, Settled
<1>2. CASE /\ pc = "post" /\ group = <<>> /\ round = 0 /\ refused # <<>>
           /\ pc' = "refresh" /\ round' = 1 /\ todo' = refused /\ refused' = <<>>
           /\ UNCHANGED results
  <2>1. \A i \in Slots : Pending(i) => Pending(i)'
    BY <1>2 DEF NextStage, ReportInv, Staged, Pending
  <2> QED BY <2>1, <1>2 DEF NextStage, ReportInv, Staged, Tracked, NilMeansMade, EveryKeyReported, Settled
<1>3. CASE /\ pc = "post" /\ group = <<>> /\ pc' = "done"
           /\ results' = [k \in Keys |->
                IF \E n \in DOMAIN refused : KeyOf(refused[n]) = k THEN "conflict"
                ELSE IF results[k] = "none" /\ \E i \in Slots : KeyOf(i) = k THEN "unreported"
                ELSE results[k]]
  <2>1. NilMeansMade'
    BY <1>3, PatchFacts DEF NextStage, ReportInv, NilMeansMade
  <2>2. ASSUME NEW i \in Slots PROVE results'[KeyOf(i)] \in {"nil", "error", "conflict"}
    <3>1. (\E n \in 1..Len(refused) : refused[n] = i) \/ Settled(i)
      BY <1>3 DEF ReportInv, Staged, Tracked, Pending
    <3>2. DOMAIN refused = 1..Len(refused)
      BY DEF TypeOK
    <3>3. KeyOf(i) \in Keys
      BY PatchFacts
    <3> QED BY <3>1, <3>2, <3>3, <1>3 DEF Settled
  <2> QED BY <2>1, <2>2, <1>3 DEF ReportInv, Staged, Tracked, EveryKeyReported
<1> QED BY <1>1, <1>2, <1>3 DEF NextStage

LEMMA ReportFail == ASSUME TypeOK, ReportInv, PostFails \/ PostLost PROVE ReportInv'
<1>1. UNCHANGED <<todo, group, refused, results>> /\ pc = "post" /\ pc' \in {pc, "failed"}
  BY SendAgainType DEF PostFails, PostLost
<1>2. made \subseteq made'
  BY CommitFacts DEF PostFails, PostLost
<1> QED BY <1>1, <1>2 DEF ReportInv, Staged, Tracked, NilMeansMade, EveryKeyReported, Pending, Settled

LEMMA ReportNext == ASSUME TypeOK, ReportInv, [Next]_vars PROVE ReportInv'
<1>1. ASSUME NEW k \in Keys, ElsewhereWrite(k) PROVE ReportInv'
  BY <1>1, ReportIdle DEF ElsewhereWrite, client
<1>2. CASE UNCHANGED vars
  BY <1>2, ReportIdle DEF vars, client
<1> QED BY <1>1, <1>2, ReportBuild, ReportAnswer, ReportFail, ReportStage DEF Next, Call

LEMMA ReportAlways == Spec => []ReportInv
<1> QED BY ReportInit, ReportNext, TypeCorrect, PTL DEF Spec

\* items.go:392-394: a key is reported nil only if its edit was in force at some
\* moment of the call.
THEOREM NilMadeHolds == Spec => []NilMeansMade
<1>1. ReportInv => NilMeansMade
  BY DEF ReportInv
<1> QED BY <1>1, ReportAlways, PTL

\* items.go:534-541: a call that returns normally has an outcome for every patch.
THEOREM EveryKeyReportedHolds == Spec => []EveryKeyReported
<1>1. ReportInv => EveryKeyReported
  BY DEF ReportInv
<1> QED BY <1>1, ReportAlways, PTL

-----------------------------------------------------------------------------
\* Appends.
FreshInv == VersionsOwn /\ EntriesFresh

LEMMA FreshInit == Init => FreshInv
  BY Assumption DEF Init, FreshInv, VersionsOwn, EntriesFresh

LEMMA FreshElsewhere == ASSUME TypeOK, FreshInv, NEW k \in Keys, ElsewhereWrite(k) PROVE FreshInv'
<1>1. /\ libver' = libver + 1 /\ libver \in Nat /\ version' = [version EXCEPT ![k] = libver + 1]
      /\ \A j \in Keys : j # k => data'[j] = data[j]
      /\ UNCHANGED <<local, group>>
  BY DEF ElsewhereWrite, client, TypeOK
<1>2. VersionsOwn'
  BY <1>1 DEF FreshInv, VersionsOwn, TypeOK
<1>3. EntriesFresh'
  <2> SUFFICES ASSUME NEW n \in 1..Len(group)
               PROVE  /\ group[n].version <= libver'
                      /\ /\ Patches[group[n].slot].how = "append"
                         /\ group[n].version = version'[KeyOf(group[n].slot)]
                         => data'[KeyOf(group[n].slot)] \subseteq group[n].load
    BY <1>1 DEF EntriesFresh
  <2> DEFINE j == KeyOf(group[n].slot)
  <2>1. group[n].version \in Nat /\ j \in Keys /\ group[n].version <= libver
    BY EntryFacts DEF FreshInv, EntriesFresh
  <2>2. group[n].version <= libver' /\ (j = k => group[n].version # version'[j])
    BY <1>1, <2>1 DEF TypeOK
  <2>3. CASE j # k
    <3>1. version'[j] = version[j] /\ data'[j] = data[j]
      BY <1>1, <2>1, <2>3 DEF TypeOK
    <3> QED BY <2>2, <3>1 DEF FreshInv, EntriesFresh
  <2> QED BY <2>2, <2>3
<1> QED BY <1>2, <1>3 DEF FreshInv

LEMMA FreshBuild == ASSUME AppendsLoaded, TypeOK, FreshInv, Build \/ Refresh PROVE FreshInv'
<1>0. PICK i \in Slots : i = Head(todo)
  BY BuildFacts
<1> DEFINE k == KeyOf(i)
<1>1. k \in Keys /\ UNCHANGED <<server, local>>
  BY <1>0, BuildFacts
<1>2. \/ \E e \in Entry :
           /\ group' = Append(group, e) /\ e.slot = i
           /\ \/ Patches[i].loaded /\ e.version = local[k].version /\ e.load = Load(i, local[k].data)
              \/ /\ e.version = version[k]
                 /\ \/ Patches[i].how = "append" /\ e.load = Load(i, data[k])
                    \/ Patches[i].how = "append" /\ ~Patches[i].loaded
                    \/ Patches[i].how # "append"
      \/ group' = group
  BY <1>0, BuildFacts
<1> HIDE DEF k
<1>3. VersionsOwn'
  BY <1>1 DEF FreshInv, VersionsOwn, server
<1>4. CASE group' = group
  BY <1>1, <1>3, <1>4 DEF FreshInv, EntriesFresh, server
<1>5. ASSUME NEW e \in Entry, group' = Append(group, e), e.slot = i,
             \/ Patches[i].loaded /\ e.version = local[k].version /\ e.load = Load(i, local[k].data)
             \/ /\ e.version = version[k]
                /\ \/ Patches[i].how = "append" /\ e.load = Load(i, data[k])
                   \/ Patches[i].how = "append" /\ ~Patches[i].loaded
                   \/ Patches[i].how # "append"
      PROVE FreshInv'
  <2>1. /\ e.version <= libver
        /\ Patches[i].how = "append" /\ e.version = version[k] => data[k] \subseteq e.load
    BY <1>1, <1>5 DEF FreshInv, VersionsOwn, AppendsLoaded, Load
  <2>2. ASSUME NEW n \in 1..Len(group')
        PROVE  (n \in 1..Len(group) /\ group'[n] = group[n]) \/ group'[n] = e
    BY <1>5 DEF TypeOK
  <2>3. EntriesFresh'
    <3> SUFFICES ASSUME NEW n \in 1..Len(group')
                 PROVE  /\ group'[n].version <= libver
                        /\ /\ Patches[group'[n].slot].how = "append"
                           /\ group'[n].version = version[KeyOf(group'[n].slot)]
                           => data[KeyOf(group'[n].slot)] \subseteq group'[n].load
      BY <1>1 DEF EntriesFresh, server
    <3>1. CASE n \in 1..Len(group) /\ group'[n] = group[n]
      BY <3>1 DEF FreshInv, EntriesFresh
    <3>2. CASE group'[n] = e
      BY <3>2, <2>1, <1>5 DEF k
    <3> QED BY <2>2, <3>1, <3>2
  <2> QED BY <1>3, <2>3 DEF FreshInv
<1> QED BY <1>2, <1>4, <1>5

\* A commit keeps the versions own and the entries in hand fresh.
LEMMA FreshCommit ==
  ASSUME TypeOK, FreshInv, Commit, UNCHANGED local
  PROVE  /\ VersionsOwn'
         /\ \A n \in 1..Len(group) :
              /\ group[n].version <= libver'
              /\ Patches[group[n].slot].how = "append" /\ group[n].version = version'[KeyOf(group[n].slot)]
                   => data'[KeyOf(group[n].slot)] \subseteq group[n].load
<1>1. /\ libver \in Nat /\ libver' \in {libver, libver + 1}
      /\ \A k \in Keys : \/ data'[k] = data[k] /\ version'[k] = version[k]
                         \/ version'[k] = libver + 1 /\ libver' = libver + 1
  BY CommitFacts DEF TypeOK
<1>2. \A k \in Keys : local[k].version \in Nat /\ version[k] \in Nat
  BY DEF TypeOK
<1>3. VersionsOwn'
  BY <1>1, <1>2 DEF FreshInv, VersionsOwn
<1>4. ASSUME NEW n \in 1..Len(group)
      PROVE  /\ group[n].version <= libver'
             /\ Patches[group[n].slot].how = "append" /\ group[n].version = version'[KeyOf(group[n].slot)]
                  => data'[KeyOf(group[n].slot)] \subseteq group[n].load
  <2>1. group[n].version \in Nat /\ KeyOf(group[n].slot) \in Keys
    BY EntryFacts
  <2> QED BY <1>1, <2>1 DEF FreshInv, EntriesFresh
<1> QED BY <1>3, <1>4

LEMMA FreshNext == ASSUME AppendsLoaded, TypeOK, FreshInv, [Next]_vars PROVE FreshInv'
<1>1. CASE AnswerPost
  <2>1. /\ VersionsOwn' /\ group' = Rest
        /\ \A n \in 1..Len(group) :
              /\ group[n].version <= libver'
              /\ Patches[group[n].slot].how = "append" /\ group[n].version = version'[KeyOf(group[n].slot)]
                   => data'[KeyOf(group[n].slot)] \subseteq group[n].load
    BY <1>1, FreshCommit DEF AnswerPost
  <2>2. \A n \in 1..Len(Rest) : Len(Chunk) + n \in 1..Len(group) /\ Rest[n] = group[Len(Chunk) + n]
    BY ChunkFacts DEF TypeOK
  <2> QED BY <2>1, <2>2 DEF FreshInv, EntriesFresh
<1>2. CASE PostLost
  BY <1>2, FreshCommit DEF PostLost, FreshInv, EntriesFresh
<1>3. CASE UNCHANGED <<server, local, group>>
  BY <1>3 DEF FreshInv, VersionsOwn, EntriesFresh, server
<1> QED BY <1>1, <1>2, <1>3, FreshElsewhere, FreshBuild DEF Next, Call, PostFails, NextStage, vars, client

LEMMA FreshAlways == ASSUME AppendsLoaded PROVE Spec => []FreshInv
<1>1. TypeOK /\ FreshInv /\ [Next]_vars => FreshInv'
  BY FreshNext
<1> QED BY <1>1, FreshInit, TypeCorrect, PTL DEF Spec

\* items.go:352-364: when the appends are loaded, no step of the call takes an element
\* out of an item that is only appended to, whoever else writes and whatever answer
\* is lost: either the item changed since the payload was composed, and the version
\* guard refuses it, or the payload holds all the item holds.
THEOREM AppendsKeep == ASSUME AppendsLoaded PROVE Spec => AppendKeeps
<1> DEFINE Keeps == \A i \in Slots : Patches[i].how = "append" /\ elsewhere' = elsewhere
                                       => data[KeyOf(i)] \subseteq data'[KeyOf(i)]
<1>1. TypeOK /\ FreshInv /\ [Next]_vars => [Keeps]_vars
  <2> SUFFICES ASSUME TypeOK, FreshInv, Next,
                      NEW i \in Slots, Patches[i].how = "append", elsewhere' = elsewhere
               PROVE  data[KeyOf(i)] \subseteq data'[KeyOf(i)]
    OBVIOUS
  <2>1. CASE Commit
    <3>1. KeyOf(i) \in Keys
      BY PatchFacts
    <3>2. ASSUME NEW n \in Accepted, KeyOf(group[n].slot) = KeyOf(i), data'[KeyOf(i)] = group[n].load
          PROVE  data[KeyOf(i)] \subseteq data'[KeyOf(i)]
      <4>1. n \in 1..Len(group) /\ version[KeyOf(group[n].slot)] = group[n].version
        BY <2>1, CommitFacts
      <4>2. group[n].slot = i
        BY <4>1, <3>2, EntryFacts, PatchFacts
      <4> QED BY <4>1, <4>2, <3>2 DEF FreshInv, EntriesFresh
    <3> QED BY <2>1, <3>1, <3>2, CommitFacts
  <2>2. CASE data' = data
    BY <2>2
  <2>3. ASSUME NEW k \in Keys, ElsewhereWrite(k) PROVE FALSE
    BY <2>3 DEF ElsewhereWrite, TypeOK
  <2> QED BY <2>1, <2>2, <2>3
       DEF Next, Call, Build, Refresh, AnswerPost, PostFails, PostLost, NextStage, server
<1>2. Spec => [][Keeps]_vars
  BY <1>1, FreshAlways, TypeCorrect, PTL DEF Spec
<1> QED BY <1>2 DEF AppendKeeps
=============================================================================
