------------------------- MODULE Window_proofs ------------------------------
(***************************************************************************)
(* Proofs about the two views of the window that keep a state of their     *)
(* own: Diagnostics, the log and the tab that polls it, for any number of  *)
(* threads and any capacities, and ProcessTree, for any finite set of pids *)
(* and any parents, also those that go in a circle.                        *)
(***************************************************************************)
EXTENDS Diagnostics, ProcessTree, SequenceTheorems, FiniteSetTheorems, WellFoundedInduction,
        TLAPS

-----------------------------------------------------------------------------
(* Numbers and sequences *)

\* A set of naturals has a least element.
LEMMA LeastNumber ==
  ASSUME NEW T \in SUBSET Nat, T # {}
  PROVE  \E n \in T : \A m \in T : n <= m
<1>. DEFINE R == OpToRel(<, Nat)
<1>1. IsWellFoundedOn(R, Nat)
  BY NatLessThanWellFounded
<1>2. PICK n \in T : \A m \in T : <<m, n>> \notin R
  <2>. HIDE DEF R
  <2>. QED BY <1>1, WFMin
<1>3. \A m \in T : ~ (m < n)
  BY <1>2 DEF OpToRel
<1>. QED BY <1>3

\* A bounded set of naturals has a greatest one.
LEMMA MaxIsGreatest ==
  ASSUME NEW n \in Nat, NEW S \in SUBSET (0 .. n), S # {}
  PROVE  Max(S) \in S /\ \A y \in S : y <= Max(S)
<1>. DEFINE T == {m \in 0 .. n : n - m \in S}
<1>1. T \in SUBSET Nat /\ T # {}
  <2>1. PICK y \in S : TRUE
    OBVIOUS
  <2>2. n - y \in 0 .. n /\ n - (n - y) = y
    BY <2>1
  <2>3. n - y \in T
    BY <2>1, <2>2
  <2>4. \A m \in T : m \in Nat
    OBVIOUS
  <2>. HIDE DEF T
  <2>. QED BY <2>3, <2>4
<1>2. PICK m \in T : \A k \in T : m <= k
  <2>. HIDE DEF T
  <2>. QED BY <1>1, LeastNumber
<1>3. n - m \in S
  BY <1>2
<1>4. \A y \in S : y <= n - m
  <2>. SUFFICES ASSUME NEW y \in S PROVE y <= n - m
    OBVIOUS
  <2>1. n - y \in 0 .. n /\ n - (n - y) = y
    OBVIOUS
  <2>2. n - y \in T
    BY <2>1
  <2>3. m <= n - y /\ m \in 0 .. n /\ y \in 0 .. n
    BY <1>2, <2>2
  <2>. HIDE DEF T
  <2>. QED BY <2>3
<1>5. \E x \in S : \A y \in S : x >= y
  BY <1>3, <1>4
<1>6. Max(S) \in S /\ \A y \in S : Max(S) >= y
  BY <1>5 DEF Max
<1>. QED BY <1>6

\* The second of two sequences follows the first.
LEMMA Joined ==
  ASSUME NEW S, NEW a \in Seq(S), NEW b \in Seq(S)
  PROVE  /\ a \o b \in Seq(S) /\ Len(a \o b) = Len(a) + Len(b)
         /\ \A i \in 1 .. Len(a) : (a \o b)[i] = a[i]
         /\ \A i \in 1 .. Len(b) : (a \o b)[Len(a) + i] = b[i]
  OBVIOUS

-----------------------------------------------------------------------------
(* Diagnostics: the ring *)

\* SnapshotSince hands out the end of the ring: all of it is new, and if it is
\* not cut off what is left out is not.
LEMMA SnapshotIsNew ==
  ASSUME ring \in Seq(Seqs), NEW since \in Nat
  PROVE  \E m \in 0 .. Len(ring) :
           /\ SnapshotSince(since) = SubSeq(ring, m + 1, Len(ring))
           /\ \A i \in 1 .. Len(ring) : ring[i] <= since => i <= m
           /\ Len(NewEntries(since)) <= kLogPollBatch /\ m # 0 => ring[m] <= since
           /\ Len(NewEntries(since)) \in Nat
<1>. DEFINE old == {i \in 1 .. Len(ring) : ring[i] <= since}
            k == Max(old \cup {0})
            new == SubSeq(ring, k + 1, Len(ring))
<1>1. Len(ring) \in Nat
  OBVIOUS
<1>2. k \in old \cup {0} /\ \A y \in old \cup {0} : y <= k
  <2>1. old \cup {0} \in SUBSET (0 .. Len(ring)) /\ old \cup {0} # {}
    BY <1>1
  <2>. HIDE DEF old
  <2>. QED BY <1>1, <2>1, MaxIsGreatest
<1>3. NewEntries(since) = new
  BY DEF NewEntries
<1>. HIDE DEF k
<1>4. k \in 0 .. Len(ring)
  BY <1>1, <1>2
<1>5. /\ new \in Seq(Seqs) /\ Len(new) = Len(ring) - k
      /\ \A i \in 1 .. Len(ring) - k : new[i] = ring[k + i]
  BY <1>1, <1>4
<1>. DEFINE m == IF Len(new) > kLogPollBatch THEN Len(ring) - kLogPollBatch ELSE k
<1>6. m \in 0 .. Len(ring) /\ m >= k
  BY <1>1, <1>4, <1>5, BatchAssumption
<1>7. SnapshotSince(since) = SubSeq(ring, m + 1, Len(ring))
  <2>. DEFINE s == SnapshotSince(since)
              u == SubSeq(ring, m + 1, Len(ring))
              c == IF Len(new) > kLogPollBatch THEN Len(new) - kLogPollBatch + 1 ELSE 1
  <2>1. s = SubSeq(new, c, Len(new))
    BY <1>3 DEF SnapshotSince
  <2>2. c - 1 + k = m /\ c \in 1 .. Len(new) + 1
    BY <1>1, <1>4, <1>5, BatchAssumption
  <2>. HIDE DEF c, m, new
  <2>3. s \in Seq(Seqs) /\ Len(s) = Len(new) - c + 1
        /\ \A i \in 1 .. Len(new) - c + 1 : s[i] = new[c - 1 + i]
    BY <1>5, <2>1, <2>2
  <2>4. u \in Seq(Seqs) /\ Len(u) = Len(ring) - m
        /\ \A i \in 1 .. Len(ring) - m : u[i] = ring[m + i]
    BY <1>1, <1>6
  <2>. HIDE DEF s, u
  <2>5. Len(s) = Len(u)
    <3>1. Len(s) = Len(new) - c + 1 /\ Len(u) = Len(ring) - m
      BY <2>3, <2>4
    <3>2. Len(new) = Len(ring) - k
      BY <1>5
    <3>3. k \in Int /\ m \in Int /\ Len(ring) \in Int /\ c \in Int
      BY <1>1, <1>4, <1>5, <1>6, <2>2
    <3>4. c - 1 + k = m
      BY <2>2
    <3>. QED BY <3>1, <3>2, <3>3, <3>4
  <2>6. ASSUME NEW i \in 1 .. Len(s) PROVE s[i] = u[i]
    <3>1. i \in 1 .. Len(new) - c + 1 /\ i \in 1 .. Len(ring) - m
      BY <2>3, <2>4, <2>5
    <3>2. c - 1 + i \in 1 .. Len(ring) - k /\ k + (c - 1 + i) = m + i
      BY <1>1, <1>4, <1>5, <2>2, <3>1
    <3>. QED BY <1>5, <2>3, <2>4, <3>1, <3>2
  <2>7. s = u
    BY <2>3, <2>4, <2>5, <2>6, SeqEqual
  <2>. QED BY <2>7 DEF s, u
<1>8. \A i \in 1 .. Len(ring) : ring[i] <= since => i <= m
  BY <1>1, <1>2, <1>4, <1>6
<1>9. Len(NewEntries(since)) <= kLogPollBatch /\ m # 0 => ring[m] <= since
  <2>. SUFFICES ASSUME Len(new) <= kLogPollBatch, m # 0 PROVE ring[m] <= since
    BY <1>3
  <2>1. m = k /\ k \in old
    BY <1>1, <1>2, <1>5, BatchAssumption
  <2>. QED BY <2>1
<1>10. Len(NewEntries(since)) \in Nat
  BY <1>1, <1>3, <1>4, <1>5
<1>. HIDE DEF m
<1>. QED BY <1>6, <1>7, <1>8, <1>9, <1>10

\* A full ring forgets its oldest entry for a new one.
LEMMA PushForgetsOldest ==
  ASSUME ring \in Seq(Seqs), Len(ring) <= kRingCapacity, NEW e \in Seqs
  PROVE  \E d \in {0, 1} :
           /\ Push(ring, e) \in Seq(Seqs)
           /\ Len(Push(ring, e)) = Len(ring) - d + 1 /\ Len(ring) - d \in Nat
           /\ Len(Push(ring, e)) <= kRingCapacity
           /\ \A i \in 1 .. Len(ring) - d : Push(ring, e)[i] = ring[i + d]
           /\ Push(ring, e)[Len(ring) - d + 1] = e
<1>0. Len(ring) \in Nat
  OBVIOUS
<1>1. CASE Len(ring) >= kRingCapacity
  <2>1. ring # << >>
    BY <1>1, CapacityAssumption, EmptySeq
  <2>2. /\ Tail(ring) \in Seq(Seqs) /\ Len(Tail(ring)) = Len(ring) - 1
        /\ \A i \in 1 .. Len(ring) - 1 : Tail(ring)[i] = ring[i + 1]
    BY <2>1, HeadTailProperties
  <2>3. Push(ring, e) = Append(Tail(ring), e)
    BY <1>1 DEF Push
  <2>4. Len(ring) - 1 \in Nat
    BY <1>0, <1>1, CapacityAssumption
  <2>5. /\ Push(ring, e) \in Seq(Seqs) /\ Len(Push(ring, e)) = Len(ring) - 1 + 1
        /\ \A i \in 1 .. Len(ring) - 1 : Push(ring, e)[i] = ring[i + 1]
        /\ Push(ring, e)[Len(ring) - 1 + 1] = e
    BY <2>2, <2>3, <2>4
  <2>6. Len(Push(ring, e)) <= kRingCapacity
    BY <1>0, <2>5, CapacityAssumption
  <2>. QED BY <2>4, <2>5, <2>6
<1>2. CASE Len(ring) < kRingCapacity
  <2>1. Push(ring, e) = Append(ring, e)
    BY <1>0, <1>2, CapacityAssumption DEF Push
  <2>2. /\ Push(ring, e) \in Seq(Seqs) /\ Len(Push(ring, e)) = Len(ring) - 0 + 1
        /\ \A i \in 1 .. Len(ring) - 0 : Push(ring, e)[i] = ring[i + 0]
        /\ Push(ring, e)[Len(ring) - 0 + 1] = e
    BY <1>0, <2>1
  <2>. QED BY <1>0, <1>2, <2>2, CapacityAssumption
<1>. QED BY <1>0, <1>1, <1>2, CapacityAssumption

-----------------------------------------------------------------------------
(* Diagnostics: the steps *)

\* What the ring holds and what was shown are numbers that were given away.
LEMMA EntriesAreNumbers ==
  ASSUME DiagnosticsInv
  PROVE  /\ \A i \in 1 .. Len(ring) : ring[i] \in Nat \ {0} /\ ring[i] < next_seq
         /\ \A i \in 1 .. Len(displayed) : displayed[i] \in Nat \ {0} /\ displayed[i] < next_seq
<1>1. /\ \A i \in 1 .. Len(ring) : ring[i] \in Seqs
      /\ \A i \in 1 .. Len(displayed) : displayed[i] \in Seqs
  BY DEF DiagnosticsInv, DiagnosticsTypeOK
<1>2. Seqs \subseteq Nat \ {0}
  BY EntriesAssumption DEF Seqs
<1>. QED BY <1>1, <1>2 DEF DiagnosticsInv, Numbered

\* The number that an entry is given is new.
LEMMA StepTakeSeq ==
  ASSUME DiagnosticsInv, NEW t \in Threads, TakeSeq(t)
  PROVE  DiagnosticsInv'
<1>1. UNCHANGED <<ring, last_seen, log_view, displayed, overtaken, outrun>>
  BY DEF TakeSeq
<1>2. next_seq \in Seqs /\ next_seq' = next_seq + 1 /\ next_seq \in Nat
  BY EntriesAssumption DEF TakeSeq, DiagnosticsInv, DiagnosticsTypeOK, Seqs
<1>3. entry' \in [Threads -> Seqs \cup {0}]
  BY <1>2 DEF TakeSeq, DiagnosticsInv, DiagnosticsTypeOK
<1>4. \A u \in Threads : entry'[u] = IF u = t THEN next_seq ELSE entry[u]
  BY DEF TakeSeq, DiagnosticsInv, DiagnosticsTypeOK
<1>5. \A u \in Threads : entry[u] \in Nat /\ entry[u] < next_seq
  BY DEF DiagnosticsInv, DiagnosticsTypeOK, Numbered, Seqs
<1>6. \A i \in 1 .. Len(ring) : ring[i] \in Nat /\ ring[i] < next_seq
  BY EntriesAreNumbers
<1>7. \A i \in 1 .. Len(displayed) : displayed[i] \in Nat /\ displayed[i] < next_seq
  BY EntriesAreNumbers
<1>8. DiagnosticsTypeOK'
  BY <1>1, <1>2, <1>3, EntriesAssumption DEF DiagnosticsInv, DiagnosticsTypeOK, Seqs
<1>9. Numbered'
  <2>1. ~ Contains(ring, next_seq) /\ ~ Contains(displayed, next_seq)
    BY <1>2, <1>6, <1>7 DEF Contains
  <2>2. \A u \in Threads : entry'[u] # 0 =>
          ~ Contains(ring, entry'[u]) /\ ~ Contains(displayed, entry'[u])
    BY <1>4, <2>1 DEF DiagnosticsInv, Numbered
  <2>3. \A u, v \in Threads : u # v /\ entry'[u] = entry'[v] => entry'[u] = 0
    BY <1>2, <1>4, <1>5 DEF DiagnosticsInv, Numbered
  <2>4. \A u \in Threads : entry'[u] < next_seq'
    BY <1>2, <1>4, <1>5
  <2>5. /\ \A i \in 1 .. Len(ring) : ring[i] < next_seq'
        /\ \A i \in 1 .. Len(displayed) : displayed[i] < next_seq'
    BY <1>2, <1>6, <1>7
  <2>. QED BY <1>1, <2>2, <2>3, <2>4, <2>5 DEF DiagnosticsInv, Numbered, Contains, IsInjective
<1>. QED
  BY <1>1, <1>8, <1>9
  DEF DiagnosticsInv, NothingTwice, ShownIsBehind, OrderedWithoutRaces, LostOnlyInRaces, Contains, Last, IsInjective

\* The entry that is appended was not there, and the rest keeps its order.
LEMMA StepLogAppend ==
  ASSUME DiagnosticsInv, NEW t \in Threads, LogAppend(t)
  PROVE  DiagnosticsInv'
<1>1. /\ UNCHANGED <<next_seq, last_seen, log_view, displayed, outrun>>
      /\ entry[t] \in Seqs /\ entry[t] \in Nat \ {0} /\ next_seq \in Nat
      /\ ring \in Seq(Seqs) /\ Len(ring) \in Nat /\ Len(ring) <= kRingCapacity
  BY DEF LogAppend, DiagnosticsInv, DiagnosticsTypeOK, Seqs
<1>2. PICK d \in {0, 1} :
        /\ ring' \in Seq(Seqs)
        /\ Len(ring') = Len(ring) - d + 1 /\ Len(ring) - d \in Nat
        /\ Len(ring') <= kRingCapacity
        /\ \A i \in 1 .. Len(ring) - d : ring'[i] = ring[i + d]
        /\ ring'[Len(ring) - d + 1] = entry[t]
  BY <1>1, PushForgetsOldest DEF LogAppend
<1>. DEFINE n == Len(ring) - d
<1>3. /\ n \in Nat /\ Len(ring') = n + 1 /\ ring'[n + 1] = entry[t]
      /\ \A i \in 1 .. n : i + d \in 1 .. Len(ring) /\ ring'[i] = ring[i + d]
      /\ \A i \in 1 .. n + 1 : i \in 1 .. n \/ i = n + 1
  BY <1>1, <1>2
<1>3a. n + d = Len(ring)
  BY <1>1
<1>. HIDE DEF n
<1>4. \A i \in 1 .. Len(ring) : ring[i] # entry[t] /\ ring[i] \in Nat \ {0} /\ ring[i] < next_seq
  <2>1. ~ Contains(ring, entry[t])
    BY <1>1 DEF DiagnosticsInv, Numbered
  <2>. QED BY <2>1, EntriesAreNumbers DEF Contains
<1>5. \A u \in Threads : entry'[u] = IF u = t THEN 0 ELSE entry[u]
  BY DEF LogAppend, DiagnosticsInv, DiagnosticsTypeOK
<1>6. DiagnosticsTypeOK'
  <2>1. overtaken' \in BOOLEAN /\ entry' \in [Threads -> Seqs \cup {0}]
    BY DEF LogAppend, DiagnosticsInv, DiagnosticsTypeOK
  <2>. QED BY <1>1, <1>2, <2>1 DEF DiagnosticsInv, DiagnosticsTypeOK
<1>7. Numbered'
  <2>1. \A i \in 1 .. Len(ring') : ring'[i] < next_seq
    BY <1>3, <1>4 DEF DiagnosticsInv, Numbered
  <2>2. \A u \in Threads : entry'[u] # 0 => ~ Contains(ring', entry'[u])
    <3>. SUFFICES ASSUME NEW u \in Threads, entry'[u] # 0, NEW i \in 1 .. Len(ring')
         PROVE  ring'[i] # entry'[u]
      BY DEF Contains
    <3>1. u # t /\ entry'[u] = entry[u] /\ entry[u] # entry[t]
      BY <1>1, <1>5 DEF DiagnosticsInv, Numbered
    <3>2. ~ Contains(ring, entry[u])
      BY <3>1 DEF DiagnosticsInv, Numbered
    <3>. QED BY <1>3, <3>1, <3>2 DEF Contains
  <2>3. IsInjective(ring')
    <3>. SUFFICES ASSUME NEW i \in 1 .. Len(ring'), NEW j \in 1 .. Len(ring'), ring'[i] = ring'[j]
         PROVE  i = j
      BY <1>2 DEF IsInjective
    <3>1. \A x, y \in 1 .. Len(ring) : ring[x] = ring[y] => x = y
      BY <1>1 DEF DiagnosticsInv, Numbered, IsInjective
    <3>2. CASE i \in 1 .. n /\ j \in 1 .. n
      <4>1. i + d \in 1 .. Len(ring) /\ j + d \in 1 .. Len(ring) /\ ring[i + d] = ring[j + d]
        BY <1>3, <3>2
      <4>2. i + d = j + d
        BY <3>1, <4>1
      <4>. QED BY <1>2, <4>2
    <3>3. CASE i = n + 1 \/ j = n + 1
      BY <1>3, <1>4, <3>3
    <3>. QED BY <1>3, <3>2, <3>3
  <2>4. /\ \A u, v \in Threads : u # v /\ entry'[u] = entry'[v] => entry'[u] = 0
        /\ \A u \in Threads : entry'[u] < next_seq
    BY <1>1, <1>5 DEF DiagnosticsInv, Numbered
  <2>5. \A u \in Threads : entry'[u] # 0 => ~ Contains(displayed, entry'[u])
    BY <1>5 DEF DiagnosticsInv, Numbered
  <2>. QED BY <1>1, <2>1, <2>2, <2>3, <2>4, <2>5 DEF DiagnosticsInv, Numbered, Contains
<1>8. ShownIsBehind'
  <2>. SUFFICES ASSUME NEW i \in 1 .. Len(ring'), Contains(displayed, ring'[i])
       PROVE  \E k \in i .. Len(ring') : ring'[k] = last_seen
    BY <1>1 DEF ShownIsBehind
  <2>1. i # n + 1
    BY <1>1, <1>3 DEF DiagnosticsInv, Numbered
  <2>2. i + d \in 1 .. Len(ring) /\ ring'[i] = ring[i + d] /\ i \in 1 .. n
    BY <1>3, <2>1
  <2>3. PICK k \in i + d .. Len(ring) : ring[k] = last_seen
    BY <2>2 DEF DiagnosticsInv, ShownIsBehind
  <2>4. k - d \in i .. Len(ring') /\ k - d \in 1 .. n /\ k - d + d = k
    BY <1>1, <1>2, <1>3, <1>3a, <2>2, <2>3
  <2>. QED BY <1>3, <2>3, <2>4
<1>9. OrderedWithoutRaces' /\ LostOnlyInRaces'
  <2>. SUFFICES ASSUME ~ overtaken'
       PROVE  /\ \A i, j \in 1 .. Len(ring') : i < j => ring'[i] < ring'[j]
              /\ last_seen = 0 \/ (ring' # << >> /\ last_seen <= Last(ring'))
              /\ outrun \/ \A i \in 1 .. Len(ring') :
                             ring'[i] <= last_seen => Contains(displayed, ring'[i])
    BY <1>1 DEF OrderedWithoutRaces, LostOnlyInRaces
  <2>1. ~ overtaken /\ \A i \in 1 .. Len(ring) : ring[i] < entry[t]
    <3>1. ~ overtaken /\ \A i \in 1 .. Len(ring) : ~ (ring[i] > entry[t])
      BY DEF LogAppend
    <3>2. ASSUME NEW i \in 1 .. Len(ring) PROVE ring[i] < entry[t]
      BY <1>1, <1>4, <3>1
    <3>. QED BY <3>1, <3>2
  <2>2. /\ \A i, j \in 1 .. Len(ring) : i < j => ring[i] < ring[j]
        /\ last_seen = 0 \/ (ring # << >> /\ last_seen <= Last(ring))
    BY <2>1 DEF DiagnosticsInv, OrderedWithoutRaces
  <2>3. \A i, j \in 1 .. Len(ring') : i < j => ring'[i] < ring'[j]
    <3>. SUFFICES ASSUME NEW i \in 1 .. Len(ring'), NEW j \in 1 .. Len(ring'), i < j
         PROVE  ring'[i] < ring'[j]
      OBVIOUS
    <3>1. i \in 1 .. n
      BY <1>3
    <3>2. CASE j \in 1 .. n
      <4>1. i + d < j + d
        BY <1>2, <3>1, <3>2
      <4>. QED BY <1>3, <2>2, <3>1, <3>2, <4>1
    <3>3. CASE j = n + 1
      BY <1>3, <2>1, <3>1, <3>3
    <3>. QED BY <1>3, <3>2, <3>3
  <2>4. last_seen \in Nat /\ last_seen < entry[t]
    <3>1. last_seen \in Nat
      BY DEF DiagnosticsInv, DiagnosticsTypeOK, Seqs
    <3>2. CASE last_seen = 0
      BY <1>1, <3>2
    <3>3. CASE last_seen # 0
      <4>1. Len(ring) \in 1 .. Len(ring) /\ last_seen <= ring[Len(ring)]
        BY <1>1, <2>2, <3>3, EmptySeq DEF Last
      <4>2. ring[Len(ring)] < entry[t] /\ ring[Len(ring)] \in Nat
        BY <1>4, <2>1, <4>1
      <4>. QED BY <1>1, <3>1, <4>1, <4>2
    <3>. QED BY <3>1, <3>2, <3>3
  <2>5. ring' # << >> /\ Last(ring') = entry[t]
    BY <1>2, <1>3, EmptySeq DEF Last
  <2>6. outrun \/ \A i \in 1 .. Len(ring') : ring'[i] <= last_seen => Contains(displayed, ring'[i])
    <3>. SUFFICES ASSUME ~ outrun, NEW i \in 1 .. Len(ring'), ring'[i] <= last_seen
         PROVE  Contains(displayed, ring'[i])
      OBVIOUS
    <3>1. i \in 1 .. n
      BY <1>1, <1>3, <2>4
    <3>. QED BY <1>3, <2>1, <3>1 DEF DiagnosticsInv, LostOnlyInRaces
  <2>. QED BY <1>1, <2>3, <2>4, <2>5, <2>6
<1>10. NothingTwice'
  BY <1>1 DEF DiagnosticsInv, NothingTwice, IsInjective
<1>. QED BY <1>6, <1>7, <1>8, <1>9, <1>10 DEF DiagnosticsInv

\* The tab is given the ring's end: what is behind the entry it was given last
\* was shown before, and nothing after it was.
LEMMA StepRefresh ==
  ASSUME DiagnosticsInv, Refresh
  PROVE  DiagnosticsInv'
<1>1. /\ UNCHANGED <<next_seq, entry, ring, overtaken>>
      /\ ring \in Seq(Seqs) /\ Len(ring) \in Nat
      /\ displayed \in Seq(Seqs) /\ Len(displayed) \in Nat
      /\ log_view \in Seq(Seqs)
      /\ last_seen \in Nat
  BY EntriesAssumption DEF Refresh, DiagnosticsInv, DiagnosticsTypeOK, Seqs
<1>. DEFINE entries == SnapshotSince(last_seen)
<1>2. PICK m \in 0 .. Len(ring) :
        /\ entries = SubSeq(ring, m + 1, Len(ring))
        /\ \A i \in 1 .. Len(ring) : ring[i] <= last_seen => i <= m
        /\ Len(NewEntries(last_seen)) <= kLogPollBatch /\ m # 0 => ring[m] <= last_seen
        /\ Len(NewEntries(last_seen)) \in Nat
  BY <1>1, SnapshotIsNew
<1>3. /\ entries # << >>
      /\ log_view' = log_view \o entries /\ displayed' = displayed \o entries
      /\ last_seen' = Last(entries)
      /\ ~ outrun' => ~ outrun /\ ~ (Len(NewEntries(last_seen)) > kLogPollBatch)
  BY DEF Refresh
<1>. HIDE DEF entries
<1>4. /\ entries \in Seq(Seqs) /\ Len(entries) = Len(ring) - m
      /\ \A i \in 1 .. Len(ring) - m : entries[i] = ring[m + i]
  BY <1>1, <1>2
<1>5. m < Len(ring) /\ Len(entries) \in Nat \ {0}
  BY <1>1, <1>3, <1>4, EmptySeq
<1>6. last_seen' = ring[Len(ring)] /\ Len(ring) \in 1 .. Len(ring)
  <2>1. Len(entries) \in 1 .. Len(ring) - m /\ m + Len(entries) = Len(ring)
    BY <1>1, <1>4, <1>5
  <2>. QED BY <1>1, <1>3, <1>4, <1>5, <2>1 DEF Last
<1>. DEFINE n == Len(displayed)
<1>7. /\ Len(displayed') = n + Len(ring) - m
      /\ \A i \in 1 .. n : displayed'[i] = displayed[i]
      /\ \A i \in 1 .. Len(ring) - m : displayed'[n + i] = ring[m + i]
      /\ displayed' \in Seq(Seqs) /\ log_view' \in Seq(Seqs)
  <2>1. /\ Len(displayed') = n + Len(entries)
        /\ \A i \in 1 .. n : displayed'[i] = displayed[i]
        /\ \A i \in 1 .. Len(entries) : displayed'[n + i] = entries[i]
        /\ displayed' \in Seq(Seqs) /\ log_view' \in Seq(Seqs)
    <3>1. entries \in Seq(Seqs) /\ displayed \in Seq(Seqs) /\ log_view \in Seq(Seqs)
      BY <1>1, <1>4
    <3>2. displayed' = displayed \o entries /\ log_view' = log_view \o entries
      BY <1>3
    <3>3. log_view' \in Seq(Seqs)
      BY <3>1, <3>2, Joined
    <3>. QED BY <3>1, <3>2, <3>3, Joined
  <2>. QED BY <1>1, <1>4, <2>1
<1>8. ASSUME NEW i \in 1 .. Len(displayed')
      PROVE  \/ i \in 1 .. n
             \/ i - n \in 1 .. Len(ring) - m /\ n + (i - n) = i /\ m + (i - n) \in 1 .. Len(ring)
  BY <1>1, <1>2, <1>7
<1>9. \A x : Contains(displayed, x) => Contains(displayed', x)
  <2>1. 1 .. n \subseteq 1 .. Len(displayed')
    BY <1>1, <1>2, <1>7
  <2>. QED BY <1>7, <2>1 DEF Contains
<1>. HIDE DEF n
<1>10. DiagnosticsTypeOK'
  <2>1. last_seen' \in Seqs
    BY <1>1, <1>6
  <2>2. outrun' \in BOOLEAN
    BY DEF Refresh, DiagnosticsInv, DiagnosticsTypeOK
  <2>. QED BY <1>1, <1>7, <2>1, <2>2 DEF DiagnosticsInv, DiagnosticsTypeOK
<1>11. Numbered'
  <2>1. \A i \in 1 .. Len(displayed') : displayed'[i] < next_seq
    BY <1>7, <1>8 DEF DiagnosticsInv, Numbered, n
  <2>2. \A t \in Threads : entry[t] # 0 => ~ Contains(displayed', entry[t])
    <3>. SUFFICES ASSUME NEW t \in Threads, entry[t] # 0, NEW i \in 1 .. Len(displayed')
         PROVE  displayed'[i] # entry[t]
      BY DEF Contains
    <3>1. ~ Contains(ring, entry[t]) /\ ~ Contains(displayed, entry[t])
      BY DEF DiagnosticsInv, Numbered
    <3>2. CASE i \in 1 .. n
      BY <1>7, <3>1, <3>2 DEF Contains, n
    <3>3. CASE i \notin 1 .. n
      <4>1. m + (i - n) \in 1 .. Len(ring) /\ displayed'[i] = ring[m + (i - n)]
        BY <1>7, <1>8, <3>3
      <4>. QED BY <3>1, <4>1 DEF Contains
    <3>. QED BY <3>2, <3>3
  <2>. QED BY <1>1, <2>1, <2>2 DEF DiagnosticsInv, Numbered
<1>12. \A i \in 1 .. Len(ring) : Contains(displayed, ring[i]) => i <= m
  <2>. SUFFICES ASSUME NEW i \in 1 .. Len(ring), Contains(displayed, ring[i])
       PROVE  i <= m
    OBVIOUS
  <2>1. PICK k \in i .. Len(ring) : ring[k] = last_seen
    BY DEF DiagnosticsInv, ShownIsBehind
  <2>2. k \in 1 .. Len(ring) /\ k <= m
    BY <1>1, <1>2, <2>1
  <2>. QED BY <1>1, <1>2, <2>1, <2>2
<1>13. NothingTwice'
  <2>1. DOMAIN displayed = 1 .. n /\ DOMAIN displayed' = 1 .. Len(displayed')
        /\ DOMAIN ring = 1 .. Len(ring)
    BY <1>1, <1>7 DEF n
  <2>2. ASSUME NEW i \in 1 .. n, NEW j \in 1 .. Len(displayed'), j \notin 1 .. n
        PROVE  displayed'[i] # displayed'[j]
    <3>1. m + (j - n) \in 1 .. Len(ring) /\ displayed'[j] = ring[m + (j - n)] /\ j - n >= 1
      BY <1>7, <1>8, <2>2
    <3>2. ~ Contains(displayed, ring[m + (j - n)])
      <4>1. ~ (m + (j - n) <= m)
        BY <1>1, <1>2, <1>8, <2>2, <3>1
      <4>. QED BY <1>12, <3>1, <4>1
    <3>. QED BY <1>7, <3>1, <3>2 DEF Contains, n
  <2>3. ASSUME NEW i \in 1 .. Len(displayed'), NEW j \in 1 .. Len(displayed'), displayed'[i] = displayed'[j]
        PROVE  i = j
    <3>1. CASE i \in 1 .. n /\ j \in 1 .. n
      BY <1>7, <2>1, <2>3, <3>1 DEF DiagnosticsInv, NothingTwice, IsInjective
    <3>2. CASE i \notin 1 .. n /\ j \notin 1 .. n
      <4>1. m + (i - n) \in 1 .. Len(ring) /\ displayed'[i] = ring[m + (i - n)]
        BY <1>7, <1>8, <3>2
      <4>2. m + (j - n) \in 1 .. Len(ring) /\ displayed'[j] = ring[m + (j - n)]
        BY <1>7, <1>8, <3>2
      <4>3. m + (i - n) = m + (j - n)
        BY <2>1, <2>3, <4>1, <4>2 DEF DiagnosticsInv, Numbered, IsInjective
      <4>. QED BY <1>1, <4>3 DEF n
    <3>. QED BY <2>2, <2>3, <3>1, <3>2
  <2>. QED BY <2>1, <2>3 DEF NothingTwice, IsInjective
<1>14. ShownIsBehind'
  <2>. SUFFICES ASSUME NEW i \in 1 .. Len(ring) PROVE \E k \in i .. Len(ring) : ring[k] = last_seen'
    BY <1>1 DEF ShownIsBehind
  <2>1. Len(ring) \in i .. Len(ring)
    BY <1>1
  <2>. QED BY <1>6, <2>1
<1>15. OrderedWithoutRaces'
  <2>1. last_seen' <= Last(ring) /\ ring # << >>
    <3>1. ring[Len(ring)] \in Nat
      BY <1>6, EntriesAreNumbers
    <3>. QED BY <1>1, <1>6, <3>1, EmptySeq DEF Last
  <2>. QED BY <1>1, <2>1 DEF DiagnosticsInv, OrderedWithoutRaces, Last
<1>16. LostOnlyInRaces'
  <2>. SUFFICES ASSUME ~ overtaken, ~ outrun', NEW i \in 1 .. Len(ring)
       PROVE  Contains(displayed', ring[i])
    BY <1>1 DEF LostOnlyInRaces
  <2>1. CASE i <= m
    <3>1. m # 0 /\ m \in 1 .. Len(ring)
      BY <1>1, <1>2, <2>1
    <3>2. Len(NewEntries(last_seen)) <= kLogPollBatch
      BY <1>2, <1>3, BatchAssumption
    <3>3. ring[m] <= last_seen
      BY <1>2, <3>1, <3>2
    <3>4. ring[i] <= ring[m]
      <4>1. i = m \/ ring[i] < ring[m]
        BY <1>1, <2>1, <3>1 DEF DiagnosticsInv, OrderedWithoutRaces
      <4>. QED BY <3>1, <4>1, EntriesAreNumbers
    <3>5. ring[i] <= last_seen
      BY <1>1, <3>1, <3>3, <3>4, EntriesAreNumbers
    <3>6. Contains(displayed, ring[i])
      BY <1>3, <3>5 DEF DiagnosticsInv, LostOnlyInRaces
    <3>. QED BY <1>9, <3>6
  <2>2. CASE ~ (i <= m)
    <3>1. i - m \in 1 .. Len(ring) - m /\ m + (i - m) = i /\ n + (i - m) \in 1 .. Len(displayed')
      BY <1>1, <1>2, <1>7, <2>2 DEF n
    <3>. QED BY <1>7, <3>1 DEF Contains
  <2>. QED BY <2>1, <2>2
<1>. QED BY <1>10, <1>11, <1>13, <1>14, <1>15, <1>16 DEF DiagnosticsInv

\* Clearing the view forgets nothing that the tab goes by.
LEMMA StepElse ==
  ASSUME DiagnosticsInv, ClearLog \/ UNCHANGED diagnostics_vars
  PROVE  DiagnosticsInv'
<1>1. UNCHANGED <<next_seq, entry, ring, last_seen, displayed, overtaken, outrun>>
  BY DEF ClearLog, diagnostics_vars
<1>2. log_view' \in Seq(Seqs)
  <2>1. << >> \in Seq(Seqs)
    OBVIOUS
  <2>. QED BY <2>1 DEF ClearLog, diagnostics_vars, DiagnosticsInv, DiagnosticsTypeOK
<1>. QED
  BY <1>1, <1>2
  DEF DiagnosticsInv, DiagnosticsTypeOK, Numbered, NothingTwice, ShownIsBehind, OrderedWithoutRaces, LostOnlyInRaces,
      Contains, Last, IsInjective

\* In every reachable state the ring's entries are numbered once, and what was
\* shown is behind the entry the tab was given last.
THEOREM DiagnosticsInvariance == DiagnosticsSpec => []DiagnosticsInv
<1>1. DiagnosticsInit => DiagnosticsInv
  <2>. SUFFICES ASSUME DiagnosticsInit PROVE DiagnosticsInv
    OBVIOUS
  <2>1. /\ ring = << >> /\ displayed = << >> /\ log_view = << >> /\ Len(ring) = 0 /\ Len(displayed) = 0
        /\ << >> \in Seq(Seqs)
    BY DEF DiagnosticsInit
  <2>2. DiagnosticsTypeOK
    <3>1. entry \in [Threads -> Seqs \cup {0}]
      BY DEF DiagnosticsInit
    <3>2. Len(ring) <= kRingCapacity /\ next_seq \in 1 .. MaxEntries + 1
      BY <2>1, EntriesAssumption, CapacityAssumption DEF DiagnosticsInit
    <3>. QED BY <2>1, <3>1, <3>2 DEF DiagnosticsInit, DiagnosticsTypeOK
  <2>3. Numbered
    BY <2>1 DEF DiagnosticsInit, Numbered, IsInjective
  <2>4. NothingTwice /\ ShownIsBehind /\ OrderedWithoutRaces /\ LostOnlyInRaces
    BY <2>1 DEF DiagnosticsInit, NothingTwice, ShownIsBehind, OrderedWithoutRaces, LostOnlyInRaces, IsInjective
  <2>. QED BY <2>2, <2>3, <2>4 DEF DiagnosticsInv
<1>2. DiagnosticsInv /\ [DiagnosticsNext]_diagnostics_vars => DiagnosticsInv'
  BY StepTakeSeq, StepLogAppend, StepRefresh, StepElse DEF DiagnosticsNext
<1>. QED BY <1>1, <1>2, PTL DEF DiagnosticsSpec

\* The tab shows no entry twice.
THEOREM ShownOnce == DiagnosticsSpec => []NothingTwice
<1>1. DiagnosticsInv => NothingTwice
  BY DEF DiagnosticsInv
<1>. QED BY <1>1, DiagnosticsInvariance, PTL

\* The tab loses an entry that the ring holds only in a race of two threads in
\* Log, or when more entries were new than it takes at once.
THEOREM LostInRaces == DiagnosticsSpec => []LostOnlyInRaces
<1>1. DiagnosticsInv => LostOnlyInRaces
  BY DEF DiagnosticsInv
<1>. QED BY <1>1, DiagnosticsInvariance, PTL

-----------------------------------------------------------------------------
(* ProcessTree: what a walk over the items reaches *)

\* Steps is the function its equation describes.
LEMMA StepsDef ==
  ASSUME NEW start, NEW next, Cardinality(DOMAIN next) \in Nat
  PROVE  Steps(start, next) =
           [n \in 0 .. Cardinality(DOMAIN next) |->
              IF n = 0 THEN start ELSE start \cup UNION {next[p] : p \in Steps(start, next)[n - 1]}]
<1>. DEFINE N == Cardinality(DOMAIN next)
            P(g, m) == g = [n \in 0 .. m |->
                              IF n = 0 THEN start ELSE start \cup UNION {next[p] : p \in g[n - 1]}]
            T == {m \in Nat : ~ \E g : P(g, m)}
<1>1. T = {}
  <2>. SUFFICES ASSUME T # {} PROVE FALSE
    OBVIOUS
  <2>1. PICK m \in T : \A i \in T : m <= i
    BY LeastNumber
  <2>2. m # 0
    <3>1. P([n \in 0 .. 0 |-> start], 0)
      OBVIOUS
    <3>. QED BY <3>1
  <2>3. PICK g : P(g, m - 1)
    <3>1. m - 1 \in Nat /\ m - 1 \notin T
      BY <2>1, <2>2
    <3>. QED BY <3>1
  <2>. DEFINE h == [n \in 0 .. m |->
                      IF n = 0 THEN start ELSE start \cup UNION {next[p] : p \in g[n - 1]}]
  <2>4. P(h, m)
    <3>1. \A n \in 0 .. m : n # 0 => h[n - 1] = g[n - 1]
      BY <2>3
    <3>. QED BY <3>1
  <2>. QED BY <2>1, <2>4
<1>2. \E g : P(g, N)
  BY <1>1
<1>3. Steps(start, next) = CHOOSE g : P(g, N)
  BY DEF Steps
<1>. HIDE DEF P
<1>4. P(CHOOSE g : P(g, N), N)
  BY <1>2
<1>. USE DEF P
<1>. QED BY <1>3, <1>4

\* So is FoundWithin.
LEMMA FoundWithinDef ==
  ASSUME NEW up, NEW t, Cardinality(DOMAIN up) \in Nat
  PROVE  FoundWithin(up, t) =
           [n \in 0 .. Cardinality(DOMAIN up) |->
              {p \in InTree(up) :
                 Matches(p, t) \/ (n > 0 /\ Children(up, p) \cap FoundWithin(up, t)[n - 1] # {})}]
<1>. DEFINE N == Cardinality(DOMAIN up)
            F(n, S) == {p \in InTree(up) : Matches(p, t) \/ (n > 0 /\ Children(up, p) \cap S # {})}
            P(g, m) == g = [n \in 0 .. m |-> F(n, g[n - 1])]
            T == {m \in Nat : ~ \E g : P(g, m)}
<1>0. \A S : F(0, S) = F(0, {})
  OBVIOUS
<1>1. FoundWithin(up, t) = CHOOSE g : P(g, N)
  BY DEF FoundWithin
<1>. HIDE DEF F
<1>2. T = {}
  <2>. SUFFICES ASSUME T # {} PROVE FALSE
    OBVIOUS
  <2>1. PICK m \in T : \A i \in T : m <= i
    <3>1. T \in SUBSET Nat
      OBVIOUS
    <3>. HIDE DEF T
    <3>. QED BY <3>1, LeastNumber
  <2>2. m # 0
    <3>. DEFINE g == [n \in 0 .. 0 |-> F(0, {})]
    <3>1. \A n \in 0 .. 0 : F(n, g[n - 1]) = F(0, {})
      BY <1>0
    <3>2. P(g, 0)
      BY <3>1
    <3>. QED BY <3>2
  <2>3. PICK g : P(g, m - 1)
    <3>1. m - 1 \in Nat /\ m - 1 \notin T
      <4>1. m \in Nat
        BY <2>1
      <4>2. m - 1 \in Nat /\ ~ (m <= m - 1)
        BY <2>2, <4>1
      <4>. QED BY <2>1, <4>2
    <3>. QED BY <3>1
  <2>. DEFINE h == [n \in 0 .. m |-> F(n, g[n - 1])]
  <2>4. P(h, m)
    <3>1. ASSUME NEW n \in 0 .. m PROVE F(n, h[n - 1]) = F(n, g[n - 1])
      <4>1. CASE n = 0
        BY <1>0, <4>1
      <4>2. CASE n # 0
        <5>1. n - 1 \in 0 .. m - 1 /\ n - 1 \in 0 .. m
          BY <2>1, <4>2
        <5>2. h[n - 1] = F(n - 1, g[n - 1 - 1])
          BY <5>1
        <5>3. g[n - 1] = F(n - 1, g[n - 1 - 1])
          BY <2>3, <5>1
        <5>. QED BY <5>2, <5>3
      <4>. QED BY <4>1, <4>2
    <3>2. h = [n \in 0 .. m |-> F(n, h[n - 1])]
      BY <3>1
    <3>. QED BY <3>2
  <2>. QED BY <2>1, <2>4
<1>3. \E g : P(g, N)
  BY <1>2
<1>. HIDE DEF P
<1>4. P(CHOOSE g : P(g, N), N)
  BY <1>3
<1>. USE DEF P, F
<1>. QED BY <1>1, <1>4

\* X[n] is what n steps from start reach.
Walks(X, start, next, last) ==
  /\ X[0] = start
  /\ \A n \in 1 .. last : X[n] = start \cup UNION {next[p] : p \in X[n - 1]}

\* A walk over a finite set of items has seen all it can see after as many steps
\* as there are items, and nothing that it need not see.
LEMMA WalkEnds ==
  ASSUME NEW U, IsFiniteSet(U), NEW next \in [U -> SUBSET U], NEW start \in SUBSET U,
         NEW X, Walks(X, start, next, Cardinality(U))
  PROVE  /\ start \subseteq X[Cardinality(U)] /\ X[Cardinality(U)] \subseteq U
         /\ \A p \in X[Cardinality(U)] : next[p] \subseteq X[Cardinality(U)]
         /\ \A S \in SUBSET U : start \subseteq S /\ (\A p \in S : next[p] \subseteq S)
                                 => X[Cardinality(U)] \subseteq S
<1>. DEFINE N == Cardinality(U)
            Closed(S) == \A p \in S : next[p] \subseteq S
<1>0. X[0] = start /\ \A n \in 1 .. N : X[n] = start \cup UNION {next[p] : p \in X[n - 1]}
  BY DEF Walks
<1>1. N \in Nat
  BY FS_CardinalityType
<1>2. \A n \in 0 .. N : start \subseteq X[n] /\ X[n] \subseteq U
  <2>. DEFINE T == {n \in 0 .. N : ~ (start \subseteq X[n] /\ X[n] \subseteq U)}
  <2>. SUFFICES ASSUME T # {} PROVE FALSE
    OBVIOUS
  <2>1. PICK n \in T : \A i \in T : n <= i
    <3>1. T \in SUBSET Nat
      OBVIOUS
    <3>. HIDE DEF T
    <3>. QED BY <3>1, LeastNumber
  <2>2. n # 0
    BY <1>0
  <2>3. n - 1 \in 0 .. N /\ n \in 1 .. N /\ X[n - 1] \subseteq U
    BY <1>1, <2>1, <2>2
  <2>4. X[n] = start \cup UNION {next[p] : p \in X[n - 1]}
    BY <1>0, <2>3
  <2>. QED BY <2>3, <2>4
<1>3. \A n \in 1 .. N : X[n - 1] \subseteq X[n]
  <2>. DEFINE T == {n \in 1 .. N : ~ (X[n - 1] \subseteq X[n])}
  <2>. SUFFICES ASSUME T # {} PROVE FALSE
    OBVIOUS
  <2>1. PICK n \in T : \A i \in T : n <= i
    <3>1. T \in SUBSET Nat
      OBVIOUS
    <3>. HIDE DEF T
    <3>. QED BY <3>1, LeastNumber
  <2>2. n # 1
    <3>1. n = 1 => X[0] = start /\ start \subseteq X[1] /\ n - 1 = 0
      BY <1>0, <1>1, <1>2
    <3>. QED BY <3>1
  <2>3. n - 1 \in 1 .. N /\ n \in 1 .. N /\ X[n - 1 - 1] \subseteq X[n - 1]
    BY <1>1, <2>1, <2>2
  <2>4. /\ X[n] = start \cup UNION {next[p] : p \in X[n - 1]}
        /\ X[n - 1] = start \cup UNION {next[p] : p \in X[n - 1 - 1]}
    BY <1>0, <2>3
  <2>5. X[n - 1] \subseteq X[n]
    BY <2>3, <2>4
  <2>. QED BY <2>5
<1>4. \A n \in 0 .. N : Closed(X[n]) \/ n <= Cardinality(X[n])
  <2>. DEFINE T == {n \in 0 .. N : ~ (Closed(X[n]) \/ n <= Cardinality(X[n]))}
  <2>. SUFFICES ASSUME T # {} PROVE FALSE
    OBVIOUS
  <2>1. PICK n \in T : \A i \in T : n <= i
    <3>1. T \in SUBSET Nat
      OBVIOUS
    <3>. HIDE DEF T
    <3>. QED BY <3>1, LeastNumber
  <2>2. n \in 0 .. N /\ ~ Closed(X[n]) /\ ~ (n <= Cardinality(X[n]))
    BY <2>1
  <2>3. \A m \in 0 .. N : IsFiniteSet(X[m]) /\ Cardinality(X[m]) \in Nat
    BY <1>2, FS_Subset, FS_CardinalityType
  <2>4. n # 0
    BY <2>2, <2>3
  <2>5. n - 1 \in 0 .. N /\ n \in 1 .. N
    BY <1>1, <2>2, <2>4
  <2>6. Closed(X[n - 1]) \/ n - 1 <= Cardinality(X[n - 1])
    <3>1. n - 1 \notin T
      BY <2>1, <2>5
    <3>. HIDE DEF Closed
    <3>. QED BY <2>5, <3>1
  <2>7. X[n] = start \cup UNION {next[p] : p \in X[n - 1]}
    BY <1>0, <2>5
  <2>8. X[n - 1] \subseteq X[n] /\ X[n - 1] # X[n]
    <3>1. X[n - 1] \subseteq X[n]
      BY <1>3, <2>5
    <3>2. CASE Closed(X[n - 1])
      <4>1. X[n] \subseteq X[n - 1]
        BY <1>2, <2>5, <2>7, <3>2
      <4>2. X[n] = X[n - 1]
        BY <3>1, <4>1
      <4>. QED BY <2>2, <3>2, <4>2
    <3>3. CASE ~ Closed(X[n - 1])
      <4>1. PICK p \in X[n - 1] : ~ (next[p] \subseteq X[n - 1])
        BY <3>3
      <4>2. next[p] \subseteq X[n]
        BY <2>7, <4>1
      <4>. QED BY <3>1, <4>1, <4>2
    <3>. QED BY <3>2, <3>3
  <2>9. ~ Closed(X[n - 1])
    <3>. SUFFICES ASSUME Closed(X[n - 1]) PROVE FALSE
      OBVIOUS
    <3>1. X[n] \subseteq X[n - 1]
      BY <1>2, <2>5, <2>7
    <3>. QED BY <2>8, <3>1
  <2>10. Cardinality(X[n - 1]) <= Cardinality(X[n]) /\ Cardinality(X[n - 1]) # Cardinality(X[n])
    BY <2>3, <2>5, <2>8, FS_Subset
  <2>. HIDE DEF Closed
  <2>. QED BY <2>2, <2>3, <2>5, <2>6, <2>9, <2>10
<1>5. Closed(X[N])
  <2>1. N \in 0 .. N /\ X[N] \subseteq U
    BY <1>1, <1>2
  <2>2. CASE N <= Cardinality(X[N])
    <3>1. Cardinality(X[N]) <= N /\ Cardinality(X[N]) \in Nat
      BY <2>1, FS_Subset, FS_CardinalityType
    <3>2. X[N] = U
      BY <1>1, <2>1, <2>2, <3>1, FS_Subset
    <3>. QED BY <3>2
  <2>. QED BY <1>4, <2>1, <2>2
<1>6. ASSUME NEW S \in SUBSET U, start \subseteq S, Closed(S)
      PROVE  X[N] \subseteq S
  <2>. DEFINE T == {n \in 0 .. N : ~ (X[n] \subseteq S)}
  <2>1. T = {}
    <3>. SUFFICES ASSUME T # {} PROVE FALSE
      OBVIOUS
    <3>1. PICK n \in T : \A i \in T : n <= i
      <4>1. T \in SUBSET Nat
        OBVIOUS
      <4>. HIDE DEF T
      <4>. QED BY <4>1, LeastNumber
    <3>2. n # 0
      BY <1>0, <1>6
    <3>3. n - 1 \in 0 .. N /\ n \in 1 .. N /\ X[n - 1] \subseteq S
      BY <1>1, <3>1, <3>2
    <3>4. X[n] = start \cup UNION {next[p] : p \in X[n - 1]}
      BY <1>0, <3>3
    <3>. QED BY <1>6, <3>3, <3>4
  <2>. QED BY <1>1, <2>1
<1>7. start \subseteq X[N] /\ X[N] \subseteq U
  BY <1>1, <1>2
<1>. QED BY <1>5, <1>6, <1>7

\* What is reached is the least set with start that no step leaves.
LEMMA ReachedIsLeast ==
  ASSUME NEW U, IsFiniteSet(U), NEW next \in [U -> SUBSET U], NEW start \in SUBSET U
  PROVE  /\ start \subseteq Reached(start, next) /\ Reached(start, next) \subseteq U
         /\ \A p \in Reached(start, next) : next[p] \subseteq Reached(start, next)
         /\ \A S \in SUBSET U :
              start \subseteq S /\ (\A p \in S : next[p] \subseteq S) => Reached(start, next) \subseteq S
<1>. DEFINE X == Steps(start, next)
<1>1. DOMAIN next = U /\ Cardinality(U) \in Nat
  BY FS_CardinalityType
<1>2. X = [n \in 0 .. Cardinality(U) |->
             IF n = 0 THEN start ELSE start \cup UNION {next[p] : p \in X[n - 1]}]
  BY <1>1, StepsDef
<1>3. Reached(start, next) = X[Cardinality(U)]
  BY <1>1 DEF Reached
<1>. HIDE DEF X
<1>4. X[0] = start
  BY <1>1, <1>2
<1>5. ASSUME NEW n \in 1 .. Cardinality(U)
      PROVE  X[n] = start \cup UNION {next[p] : p \in X[n - 1]}
  <2>1. n \in 0 .. Cardinality(U) /\ n # 0
    BY <1>1
  <2>. QED BY <1>2, <2>1
<1>6. /\ start \subseteq X[Cardinality(U)] /\ X[Cardinality(U)] \subseteq U
      /\ \A p \in X[Cardinality(U)] : next[p] \subseteq X[Cardinality(U)]
      /\ \A S \in SUBSET U :
           start \subseteq S /\ (\A p \in S : next[p] \subseteq S) => X[Cardinality(U)] \subseteq S
  <2>1. \A n \in 1 .. Cardinality(U) : X[n] = start \cup UNION {next[p] : p \in X[n - 1]}
    BY <1>5
  <2>2. Walks(X, start, next, Cardinality(U))
    BY <1>4, <2>1 DEF Walks
  <2>. QED BY <2>2, WalkEnds
<1>. QED BY <1>3, <1>6

\* The tree: what hangs at the top or below something that is in it, and
\* nothing else.
LEMMA TreeHangsTogether ==
  ASSUME NEW I \in SUBSET Pids, NEW up \in [I -> I \cup {NoPid}]
  PROVE  /\ InTree(up) \subseteq I
         /\ \A c \in I : c \in InTree(up) <=> (up[c] = NoPid \/ up[c] \in InTree(up))
<1>. DEFINE next == [p \in I |-> Children(up, p)]
            start == Children(up, NoPid)
            R == Reached(start, next)
<1>1. IsFiniteSet(I) /\ DOMAIN up = I
  BY PidsAssumption, FS_Subset
<1>2. next \in [I -> SUBSET I] /\ start \in SUBSET I
  BY <1>1 DEF Children
<1>3. InTree(up) = R
  BY <1>1 DEF InTree
<1>. HIDE DEF next, start
<1>4. /\ start \subseteq R /\ R \subseteq I
      /\ \A p \in R : next[p] \subseteq R
      /\ \A S \in SUBSET I : start \subseteq S /\ (\A p \in S : next[p] \subseteq S) => R \subseteq S
  BY <1>1, <1>2, ReachedIsLeast
<1>. HIDE DEF R
<1>5. /\ \A c \in I : up[c] = NoPid <=> c \in start
      /\ \A p \in I, c \in I : c \in next[p] <=> up[c] = p
  BY <1>1 DEF start, next, Children
<1>6. ASSUME NEW c \in I, up[c] = NoPid \/ up[c] \in R PROVE c \in R
  BY <1>4, <1>5, <1>6
<1>7. ASSUME NEW c \in R PROVE up[c] = NoPid \/ up[c] \in R
  <2>. DEFINE S == {d \in R : up[d] = NoPid \/ up[d] \in R}
  <2>1. S \in SUBSET I /\ start \subseteq S
    BY <1>2, <1>4, <1>5
  <2>2. ASSUME NEW p \in S, NEW d \in next[p] PROVE d \in S
    <3>1. p \in R /\ p \in I /\ d \in R /\ d \in I
      BY <1>4, <2>2
    <3>. QED BY <1>5, <3>1
  <2>3. R \subseteq S
    <3>. HIDE DEF S
    <3>. QED BY <1>4, <2>1, <2>2
  <2>. QED BY <2>3
<1>. QED BY <1>3, <1>4, <1>6, <1>7

\* The items above p: the one above it and the ones above those.
LEMMA AncestorsAreAbove ==
  ASSUME NEW I \in SUBSET Pids, NEW up \in [I -> I \cup {NoPid}], NEW p \in I
  PROVE  /\ Ancestors(up, p) \subseteq I
         /\ \A q \in {p} \cup Ancestors(up, p) : up[q] = NoPid \/ up[q] \in Ancestors(up, p)
         /\ \A a \in Ancestors(up, p) : \E c \in {p} \cup Ancestors(up, p) : up[c] = a
         /\ \A S \in SUBSET I :
              (\A q \in {p} \cup S : up[q] = NoPid \/ up[q] \in S) => Ancestors(up, p) \subseteq S
<1>. DEFINE next == [q \in I |-> Above(up, q)]
            start == Above(up, p)
            R == Reached(start, next)
<1>1. IsFiniteSet(I) /\ DOMAIN up = I
  BY PidsAssumption, FS_Subset
<1>2. next \in [I -> SUBSET I] /\ start \in SUBSET I
  BY <1>1 DEF Above
<1>3. Ancestors(up, p) = R
  BY <1>1 DEF Ancestors
<1>. HIDE DEF next, start
<1>4. /\ start \subseteq R /\ R \subseteq I
      /\ \A q \in R : next[q] \subseteq R
      /\ \A S \in SUBSET I : start \subseteq S /\ (\A q \in S : next[q] \subseteq S) => R \subseteq S
  BY <1>1, <1>2, ReachedIsLeast
<1>. HIDE DEF R
<1>5. /\ NoPid \notin I
      /\ \A a \in I : a \in start <=> up[p] = a
      /\ \A q \in I, a \in I : a \in next[q] <=> up[q] = a
  BY <1>1, PidsAssumption DEF start, next, Above
<1>6. \A q \in I : up[q] = NoPid \/ up[q] \in I
  OBVIOUS
<1>7. ASSUME NEW q \in {p} \cup R PROVE up[q] = NoPid \/ up[q] \in R
  BY <1>4, <1>5, <1>6
<1>8. ASSUME NEW a \in R PROVE \E c \in {p} \cup R : up[c] = a
  <2>. DEFINE S == {b \in R : \E c \in {p} \cup R : up[c] = b}
  <2>1. S \in SUBSET I /\ start \subseteq S
    BY <1>2, <1>4, <1>5
  <2>2. ASSUME NEW q \in S, NEW b \in next[q] PROVE b \in S
    <3>1. q \in R /\ q \in I /\ b \in R /\ b \in I
      BY <1>4, <2>2
    <3>. QED BY <1>5, <3>1
  <2>3. R \subseteq S
    <3>. HIDE DEF S
    <3>. QED BY <1>4, <2>1, <2>2
  <2>. QED BY <2>3
<1>9. ASSUME NEW S \in SUBSET I, \A q \in {p} \cup S : up[q] = NoPid \/ up[q] \in S
      PROVE  R \subseteq S
  <2>1. start \subseteq S
    BY <1>2, <1>5, <1>9
  <2>2. ASSUME NEW q \in S PROVE next[q] \subseteq S
    BY <1>2, <1>5, <1>9
  <2>. QED BY <1>4, <2>1, <2>2
<1>10. R \subseteq I
  BY <1>4
<1>. QED BY <1>3, <1>7, <1>8, <1>9, <1>10

\* What is above an item of the tree is in the tree.
LEMMA AncestorsAreInTree ==
  ASSUME NEW I \in SUBSET Pids, NEW up \in [I -> I \cup {NoPid}], NEW p \in InTree(up)
  PROVE  Ancestors(up, p) \subseteq InTree(up)
<1>1. InTree(up) \subseteq I /\ \A c \in InTree(up) : up[c] = NoPid \/ up[c] \in InTree(up)
  BY TreeHangsTogether
<1>2. \A q \in {p} \cup InTree(up) : up[q] = NoPid \/ up[q] \in InTree(up)
  BY <1>1
<1>. QED BY <1>1, <1>2, AncestorsAreAbove

\* FilterTreeItem finds the items of the tree that match or have a child that
\* is found, and no others.
LEMMA FilterIsLeast ==
  ASSUME NEW I \in SUBSET Pids, NEW up \in [I -> I \cup {NoPid}], NEW t
  PROVE  LET F == FilterTreeItem(up, t)
             M == {q \in InTree(up) : Matches(q, t)}
         IN  /\ M \subseteq F /\ F \subseteq InTree(up)
             /\ \A c \in F : up[c] = NoPid \/ up[c] \in F
             /\ \A S \in SUBSET InTree(up) :
                  M \subseteq S /\ (\A c \in S : up[c] = NoPid \/ up[c] \in S) => F \subseteq S
<1>. DEFINE X == FoundWithin(up, t)
            N == Cardinality(I)
            M == {q \in InTree(up) : Matches(q, t)}
            next == [c \in I |-> Above(up, c) \cap InTree(up)]
<1>1. IsFiniteSet(I) /\ DOMAIN up = I /\ N \in Nat
  BY PidsAssumption, FS_Subset, FS_CardinalityType
<1>2. X = [n \in 0 .. N |->
             {p \in InTree(up) : Matches(p, t) \/ (n > 0 /\ Children(up, p) \cap X[n - 1] # {})}]
  BY <1>1, FoundWithinDef
<1>3. FilterTreeItem(up, t) = X[N]
  BY <1>1 DEF FilterTreeItem
<1>4. InTree(up) \subseteq I /\ \A c \in InTree(up) : up[c] = NoPid \/ up[c] \in InTree(up)
  BY TreeHangsTogether
<1>5. next \in [I -> SUBSET I] /\ M \in SUBSET I
  BY <1>4
<1>6. \A c \in I, p \in InTree(up) : p \in next[c] <=> c \in Children(up, p)
  BY <1>1, <1>4, PidsAssumption DEF Children, Above
<1>6a. \A c \in I : next[c] \subseteq InTree(up)
  OBVIOUS
<1>. HIDE DEF next, X
<1>7. X[0] = M
  BY <1>1, <1>2
<1>8. ASSUME NEW n \in 1 .. N PROVE X[n] = M \cup UNION {next[c] : c \in X[n - 1]}
  <2>1. n \in 0 .. N /\ n > 0 /\ n - 1 \in 0 .. N
    BY <1>1
  <2>2. X[n] = {p \in InTree(up) : Matches(p, t) \/ Children(up, p) \cap X[n - 1] # {}}
    BY <1>2, <2>1
  <2>3. X[n - 1] \subseteq InTree(up)
    BY <1>2, <2>1
  <2>4. \A p \in InTree(up) : Children(up, p) \cap X[n - 1] # {} <=> \E c \in X[n - 1] : p \in next[c]
    BY <1>4, <1>6, <2>3
  <2>5. \A c \in X[n - 1] : next[c] \subseteq InTree(up)
    BY <1>4, <1>6a, <2>3
  <2>. QED BY <2>2, <2>4, <2>5
<1>. HIDE DEF M
<1>9. /\ M \subseteq X[N] /\ X[N] \subseteq I
      /\ \A c \in X[N] : next[c] \subseteq X[N]
      /\ \A S \in SUBSET I : M \subseteq S /\ (\A c \in S : next[c] \subseteq S) => X[N] \subseteq S
  <2>1. \A n \in 1 .. Cardinality(I) : X[n] = M \cup UNION {next[c] : c \in X[n - 1]}
    BY <1>8
  <2>2. IsFiniteSet(I)
    BY <1>1
  <2>3. /\ M \subseteq X[Cardinality(I)] /\ X[Cardinality(I)] \subseteq I
        /\ \A p \in X[Cardinality(I)] : next[p] \subseteq X[Cardinality(I)]
        /\ \A S \in SUBSET I : M \subseteq S /\ (\A p \in S : next[p] \subseteq S)
                                 => X[Cardinality(I)] \subseteq S
    <3>1. Walks(X, M, next, Cardinality(I))
      BY <1>7, <2>1 DEF Walks
    <3>. QED BY <1>5, <2>2, <3>1, WalkEnds
  <2>. QED BY <2>3
<1>10. X[N] \subseteq InTree(up)
  BY <1>1, <1>2
<1>11. ASSUME NEW c \in X[N] PROVE up[c] = NoPid \/ up[c] \in X[N]
  <2>1. c \in I /\ (up[c] = NoPid \/ up[c] \in InTree(up))
    BY <1>4, <1>10
  <2>2. up[c] \in InTree(up) => up[c] \in next[c]
    BY <1>1, <1>6, <2>1 DEF Children
  <2>. QED BY <1>9, <2>1, <2>2
<1>12. ASSUME NEW S \in SUBSET InTree(up), M \subseteq S, \A c \in S : up[c] = NoPid \/ up[c] \in S
       PROVE  X[N] \subseteq S
  <2>1. ASSUME NEW c \in S, NEW p \in next[c] PROVE p \in S
    <3>1. c \in I /\ p \in InTree(up) /\ up[c] = p
      BY <1>1, <1>4, <1>6, <1>6a DEF Children
    <3>2. p # NoPid
      BY <1>4, <3>1, PidsAssumption
    <3>. QED BY <1>12, <3>1, <3>2
  <2>. QED BY <1>4, <1>9, <1>12, <2>1
<1>. USE DEF M
<1>. QED BY <1>3, <1>9, <1>10, <1>11, <1>12

\* An item is found exactly if it or something below it matches.
LEMMA FoundIfSomethingMatches ==
  ASSUME NEW I \in SUBSET Pids, NEW up \in [I -> I \cup {NoPid}], NEW t, NEW p \in InTree(up)
  PROVE  p \in FilterTreeItem(up, t) <=>
           \E q \in InTree(up) : Matches(q, t) /\ p \in {q} \cup Ancestors(up, q)
<1>. DEFINE F == FilterTreeItem(up, t)
            S == {a \in InTree(up) : \E q \in InTree(up) : Matches(q, t) /\ a \in {q} \cup Ancestors(up, q)}
<1>1. InTree(up) \subseteq I /\ \A c \in InTree(up) : up[c] = NoPid \/ up[c] \in InTree(up)
  BY TreeHangsTogether
<1>2. /\ {q \in InTree(up) : Matches(q, t)} \subseteq F /\ F \subseteq InTree(up)
      /\ \A c \in F : up[c] = NoPid \/ up[c] \in F
      /\ {q \in InTree(up) : Matches(q, t)} \subseteq S
           /\ (\A c \in S : up[c] = NoPid \/ up[c] \in S) => F \subseteq S
  <2>1. S \in SUBSET InTree(up)
    OBVIOUS
  <2>. HIDE DEF S
  <2>. QED BY <2>1, FilterIsLeast
<1>3. ASSUME NEW q \in InTree(up), Matches(q, t), p \in {q} \cup Ancestors(up, q)
      PROVE  p \in F
  <2>1. q \in F /\ F \in SUBSET I
    BY <1>1, <1>2, <1>3
  <2>2. \A c \in {q} \cup F : up[c] = NoPid \/ up[c] \in F
    BY <1>2, <2>1
  <2>. HIDE DEF F
  <2>3. Ancestors(up, q) \subseteq F
    BY <1>1, <2>1, <2>2, AncestorsAreAbove
  <2>. QED BY <1>3, <2>1, <2>3
<1>4. \A c \in S : up[c] = NoPid \/ up[c] \in S
  <2>. SUFFICES ASSUME NEW c \in S, up[c] # NoPid PROVE up[c] \in S
    OBVIOUS
  <2>1. PICK q \in InTree(up) : Matches(q, t) /\ c \in {q} \cup Ancestors(up, q)
    OBVIOUS
  <2>2. up[c] \in Ancestors(up, q)
    BY <1>1, <2>1, AncestorsAreAbove
  <2>. QED BY <1>1, <2>1, <2>2
<1>5. {q \in InTree(up) : Matches(q, t)} \subseteq S
  OBVIOUS
<1>. HIDE DEF F
<1>6. F \subseteq S
  BY <1>2, <1>4, <1>5
<1>. QED BY <1>3, <1>6 DEF F

-----------------------------------------------------------------------------
(* ProcessTree: the steps *)

\* The items of a new list, each below the item of its parent's pid.
LEMMA NewItems ==
  ASSUME IInv
  PROVE  /\ Listed \in SUBSET Pids
         /\ ParentItems \in [Listed -> Listed \cup {NoPid}]
         /\ Reselected \in Listed \cup {NoPid}
         /\ Opened \subseteq Listed
         /\ HiddenBy(ParentItems, text) \subseteq Listed
         /\ ExpandedBy(ParentItems, text) \subseteq Listed
<1>1. Listed \in SUBSET Pids
  BY DEF IInv, TypeOK
<1>2. ParentItems \in [Listed -> Listed \cup {NoPid}]
  BY DEF ParentItems
<1>3. InTree(ParentItems) \subseteq Listed
  BY <1>1, <1>2, TreeHangsTogether
<1>4. Reselected \in Listed \cup {NoPid}
  BY <1>3 DEF Reselected
<1>5. \A p \in Listed : Ancestors(ParentItems, p) \subseteq Listed
  BY <1>1, <1>2, AncestorsAreAbove
<1>6. Children(ParentItems, NoPid) \subseteq Listed
  BY <1>2 DEF Children
<1>7. Opened \subseteq Listed
  BY <1>4, <1>5, <1>6 DEF Opened
<1>. QED BY <1>1, <1>2, <1>3, <1>4, <1>7 DEF HiddenBy, ExpandedBy

\* What the filter hides and opens is an item.
LEMMA FilterIsOfItems ==
  ASSUME IInv, NEW t
  PROVE  HiddenBy(parent, t) \subseteq Items /\ ExpandedBy(parent, t) \subseteq Items
<1>1. InTree(parent) \subseteq Items
  BY TreeHangsTogether DEF IInv, TypeOK
<1>. QED BY <1>1 DEF HiddenBy, ExpandedBy

\* The invariant when a process starts or exits.
LEMMA StepProcesses ==
  ASSUME IInv, NEW p \in Pids,
         (\E creator \in Pids \cup {NoPid} : ProcessStarts(p, creator)) \/ ProcessExits(p)
  PROVE  IInv'
<1>1. UNCHANGED <<item_vars, hidden, expanded, selected, text>>
  BY DEF ProcessStarts, ProcessExits
<1>2. /\ processes \in [Listed -> [parent : Pids \cup {NoPid}, birth : Births]]
      /\ Listed \subseteq Pids /\ births \in 0 .. MaxBirths /\ MaxBirths \in Nat
      /\ \A q \in Listed : processes[q].birth <= births /\ processes[q].birth \in Nat
      /\ \A q, r \in Listed : q # r => processes[q].birth # processes[r].birth
  BY BirthsAssumption DEF IInv, TypeOK, BirthsDiffer, Births
<1>3. /\ births' \in 0 .. MaxBirths /\ DOMAIN processes' \subseteq Pids
      /\ processes' \in [DOMAIN processes' -> [parent : Pids \cup {NoPid}, birth : Births]]
      /\ \A q \in DOMAIN processes' : processes'[q].birth <= births'
      /\ \A q, r \in DOMAIN processes' : q # r => processes'[q].birth # processes'[r].birth
  <2>1. ASSUME NEW creator \in Pids \cup {NoPid}, ProcessStarts(p, creator)
        PROVE  <1>3!:
    <3>. DEFINE new == [parent |-> creator, birth |-> births']
    <3>1. births' = births + 1 /\ births' \in Births /\ births' \in 0 .. MaxBirths
          /\ p \notin Listed
      BY <1>2, <2>1 DEF ProcessStarts, Births
    <3>2. new \in [parent : Pids \cup {NoPid}, birth : Births] /\ new.birth = births'
      BY <3>1
    <3>. HIDE DEF new
    <3>3. processes' = [q \in Listed \cup {p} |-> IF q = p THEN new ELSE processes[q]]
      BY <2>1 DEF ProcessStarts, new
    <3>4. /\ DOMAIN processes' = Listed \cup {p}
          /\ processes'[p] = new
          /\ \A q \in Listed : processes'[q] = processes[q]
      BY <3>1, <3>3
    <3>5. processes' \in [DOMAIN processes' -> [parent : Pids \cup {NoPid}, birth : Births]]
      BY <1>2, <3>2, <3>3, <3>4
    <3>6. \A q \in Listed : processes'[q].birth <= births /\ processes'[q].birth \in Nat
      BY <1>2, <3>4
    <3>7. \A q \in DOMAIN processes' : processes'[q].birth <= births'
      BY <1>2, <3>1, <3>2, <3>4, <3>6
    <3>8. \A q, r \in DOMAIN processes' : q # r => processes'[q].birth # processes'[r].birth
      BY <1>2, <3>1, <3>2, <3>4, <3>6
    <3>9. DOMAIN processes' \subseteq Pids
      BY <1>2, <3>4
    <3>. QED BY <3>1, <3>5, <3>7, <3>8, <3>9
  <2>2. CASE ProcessExits(p)
    <3>1. processes' = [q \in Listed \ {p} |-> processes[q]] /\ births' = births
      BY <2>2 DEF ProcessExits
    <3>2. DOMAIN processes' = Listed \ {p} /\ \A q \in Listed \ {p} : processes'[q] = processes[q]
      BY <3>1
    <3>3. processes' \in [Listed \ {p} -> [parent : Pids \cup {NoPid}, birth : Births]]
      BY <1>2, <3>1
    <3>. QED BY <1>2, <3>1, <3>2, <3>3
  <2>. QED BY <2>1, <2>2
<1>4. TypeOK' /\ BirthsDiffer'
  BY <1>1, <1>3 DEF IInv, TypeOK, BirthsDiffer, item_vars, Listed, Items
<1>5. (hidden = HiddenBy(parent, text))'
  BY <1>1 DEF IInv, item_vars
<1>. QED BY <1>4, <1>5 DEF IInv

\* The invariant when a new list is shown.
LEMMA StepList ==
  ASSUME IInv, ProcessListReady
  PROVE  IInv'
<1>1. /\ UNCHANGED <<processes, births, text>>
      /\ parent' = ParentItems /\ selected' = Reselected
      /\ birth' = [p \in Listed |-> processes[p].birth]
      /\ hidden' = HiddenBy(ParentItems, text)
      /\ expanded' = Opened \cup ExpandedBy(ParentItems, text)
  BY DEF ProcessListReady, system_vars
<1>2. /\ Listed \in SUBSET Pids
      /\ parent' \in [Listed -> Listed \cup {NoPid}]
      /\ selected' \in Listed \cup {NoPid}
      /\ hidden' \subseteq Listed /\ expanded' \subseteq Listed
  BY <1>1, NewItems
<1>3. DOMAIN parent' = Listed
  BY <1>2
<1>4. /\ birth' \in [Listed -> Births] /\ DOMAIN birth' = Listed
      /\ \A p \in Listed : birth'[p] = processes[p].birth
  BY <1>1 DEF IInv, TypeOK
<1>5. TypeOK'
  BY <1>1, <1>2, <1>3, <1>4 DEF IInv, TypeOK, Listed, Items
<1>6. BirthsDiffer'
  <2>1. \A p \in Listed : parent'[p] # p
    <3>1. \A p \in Listed : p # NoPid
      BY <1>2, PidsAssumption
    <3>. QED BY <1>1, <3>1 DEF ParentItems
  <2>2. \A p, q \in Listed : p # q => birth'[p] # birth'[q]
    BY <1>4 DEF IInv, BirthsDiffer
  <2>. QED BY <1>1, <1>3, <1>4, <2>1, <2>2 DEF IInv, BirthsDiffer, Listed, Items
<1>. QED BY <1>1, <1>5, <1>6 DEF IInv

\* The invariant when the user types, expands, collapses and selects.
LEMMA StepUser ==
  ASSUME IInv,
         \/ \E t \in Texts : ProcessFilterChanged(t)
         \/ \E p \in Pids : Expand(p) \/ Collapse(p) \/ Select(p)
         \/ UNCHANGED vars
  PROVE  IInv'
<1>1. UNCHANGED <<processes, births, parent, birth>>
  BY DEF ProcessFilterChanged, Expand, Collapse, Select, vars, system_vars, item_vars
<1>2. BirthsDiffer'
  BY <1>1 DEF IInv, BirthsDiffer, Listed, Items
<1>3. InTree(parent) \subseteq Items
  BY TreeHangsTogether DEF IInv, TypeOK
<1>4. ASSUME NEW t \in Texts, ProcessFilterChanged(t) PROVE IInv'
  <2>1. /\ text' = t /\ hidden' = HiddenBy(parent, t) /\ selected' = selected
        /\ expanded' = expanded \cup ExpandedBy(parent, t)
    BY <1>4 DEF ProcessFilterChanged
  <2>2. hidden' \subseteq Items /\ expanded' \subseteq Items
    BY <2>1, FilterIsOfItems DEF IInv, TypeOK
  <2>. QED BY <1>1, <1>2, <1>4, <2>1, <2>2 DEF IInv, TypeOK, Listed, Items
<1>5. ASSUME NEW p \in Pids, Expand(p) \/ Collapse(p) \/ Select(p) PROVE IInv'
  <2>1. p \in Items
    <3>1. Visible(p) => p \in InTree(parent)
      BY DEF Visible
    <3>. QED BY <1>3, <1>5, <3>1 DEF Expand, Collapse, Select
  <2>2. hidden' = hidden /\ text' = text /\ expanded' \subseteq Items /\ selected' \in Items \cup {NoPid}
    BY <1>5, <2>1 DEF Expand, Collapse, Select, IInv, TypeOK
  <2>. QED BY <1>1, <1>2, <2>2 DEF IInv, TypeOK, Listed, Items
<1>6. CASE UNCHANGED vars
  BY <1>1, <1>2, <1>6 DEF vars, IInv, TypeOK, Listed, Items
<1>. QED BY <1>4, <1>5, <1>6

\* In every reachable state what is hidden is what the present text hides of
\* the present items, and no two items stand for one process.
THEOREM Invariance == Spec => []IInv
<1>1. Init => IInv
  <2>. SUFFICES ASSUME Init PROVE IInv
    OBVIOUS
  <2>1. Listed = {} /\ Items = {} /\ DOMAIN birth = {}
    BY DEF Init, Listed, Items
  <2>2. TypeOK
    <3>1. \A f, S : DOMAIN f = {} /\ f = << >> => f \in [{} -> S]
      OBVIOUS
    <3>2. births \in 0 .. MaxBirths /\ text \in Texts
      BY BirthsAssumption DEF Init, Texts
    <3>. QED BY <2>1, <3>1, <3>2 DEF Init, TypeOK, Listed, Items
  <2>3. InTree(parent) = {}
    BY <2>1, <2>2, TreeHangsTogether DEF TypeOK
  <2>. QED BY <2>1, <2>2, <2>3 DEF Init, IInv, BirthsDiffer, HiddenBy
<1>2. IInv /\ [Next]_vars => IInv'
  BY StepProcesses, StepList, StepUser DEF Next
<1>. QED BY <1>1, <1>2, PTL DEF Spec

\* A process is missing from the tree only if above it a pid has been reused.
THEOREM MissingByReuse == Spec => []MissingOnlyByReuse
<1>1. IInv => MissingOnlyByReuse
  <2>. SUFFICES ASSUME IInv, NEW p \in Items \ InTree(parent),
                       \A q \in {p} \cup Ancestors(parent, p) :
                         ~ (parent[q] # NoPid /\ birth[parent[q]] > birth[q])
                PROVE  FALSE
    BY DEF MissingOnlyByReuse
  <2>1. /\ Items \in SUBSET Pids /\ parent \in [Items -> Items \cup {NoPid}]
        /\ \A q \in Items : birth[q] \in Nat /\ parent[q] # q
        /\ \A q, r \in Items : q # r => birth[q] # birth[r]
    BY BirthsAssumption DEF IInv, TypeOK, BirthsDiffer, Births
  <2>. DEFINE A == {p} \cup Ancestors(parent, p)
              T == {birth[q] : q \in A \ InTree(parent)}
  <2>2. /\ A \subseteq Items
        /\ \A q \in A : parent[q] = NoPid \/ parent[q] \in A
    BY <2>1, AncestorsAreAbove
  <2>3. \A c \in Items : c \in InTree(parent) <=> (parent[c] = NoPid \/ parent[c] \in InTree(parent))
    BY <2>1, TreeHangsTogether
  <2>4. PICK q \in A \ InTree(parent) : \A r \in A \ InTree(parent) : birth[q] <= birth[r]
    <3>. HIDE DEF A
    <3>1. T \in SUBSET Nat
      BY <2>1, <2>2
    <3>2. p \in A \ InTree(parent)
      BY DEF A
    <3>3. T # {}
      BY <3>2
    <3>4. PICK n \in T : \A m \in T : n <= m
      <4>. HIDE DEF T
      <4>. QED BY <3>1, <3>3, LeastNumber
    <3>. QED BY <3>4
  <2>5. parent[q] # NoPid /\ parent[q] \in A \ InTree(parent)
    BY <2>2, <2>3, <2>4
  <2>6. birth[q] <= birth[parent[q]] /\ ~ (birth[parent[q]] > birth[q])
    BY <2>4, <2>5
  <2>. QED BY <2>1, <2>2, <2>4, <2>5, <2>6
<1>. QED BY <1>1, Invariance, PTL

\* An item is hidden exactly if neither it nor anything below it matches.
THEOREM HiddenAsFiltered == Spec => []HiddenIfNothingMatches
<1>1. IInv => HiddenIfNothingMatches
  <2>. SUFFICES ASSUME IInv, NEW p \in InTree(parent)
       PROVE  p \in hidden <=> \A q \in InTree(parent) :
                                 Matches(q, text) => p \notin {q} \cup Ancestors(parent, q)
    BY DEF HiddenIfNothingMatches
  <2>1. Items \in SUBSET Pids /\ parent \in [Items -> Items \cup {NoPid}]
    BY DEF IInv, TypeOK
  <2>2. p \in FilterTreeItem(parent, text) <=>
          \E q \in InTree(parent) : Matches(q, text) /\ p \in {q} \cup Ancestors(parent, q)
    BY <2>1, FoundIfSomethingMatches
  <2>3. p \in hidden <=> p \notin FilterTreeItem(parent, text)
    BY DEF IInv, HiddenBy
  <2>. QED BY <2>2, <2>3
<1>. QED BY <1>1, Invariance, PTL

\* What is above an item that is found is found, and is opened for it.
LEMMA FoundIsOpened ==
  ASSUME NEW I \in SUBSET Pids, NEW up \in [I -> I \cup {NoPid}], NEW t, NEW p,
         p \in FilterTreeItem(up, t)
  PROVE  /\ p \in InTree(up)
         /\ ({p} \cup Ancestors(up, p)) \cap HiddenBy(up, t) = {}
         /\ t # NoText => Ancestors(up, p) \subseteq ExpandedBy(up, t)
<1>. DEFINE F == FilterTreeItem(up, t)
<1>1. F \subseteq InTree(up) /\ \A c \in F : up[c] = NoPid \/ up[c] \in F
  BY FilterIsLeast
<1>2. InTree(up) \subseteq I
  BY TreeHangsTogether
<1>3. Ancestors(up, p) \subseteq F
  <2>1. F \in SUBSET I /\ p \in I /\ \A q \in {p} \cup F : up[q] = NoPid \/ up[q] \in F
    BY <1>1, <1>2
  <2>. HIDE DEF F
  <2>. QED BY <2>1, AncestorsAreAbove
<1>4. ASSUME NEW a \in Ancestors(up, p) PROVE Children(up, a) \cap F # {}
  <2>1. PICK c \in {p} \cup Ancestors(up, p) : up[c] = a
    BY <1>1, <1>2, AncestorsAreAbove
  <2>2. c \in F /\ c \in I
    BY <1>1, <1>2, <1>3
  <2>. QED BY <2>1, <2>2 DEF Children
<1>. QED BY <1>1, <1>3, <1>4 DEF HiddenBy, ExpandedBy

\* Who types a text sees every process in the tree that matches it.
THEOREM TextsReveal == Spec => TypingReveals
<1>1. IInv /\ [Next]_vars =>
        [text' # text /\ text' # NoText =>
           \A p \in InTree(parent) : Matches(p, text') => Visible(p)']_vars
  <2>. SUFFICES ASSUME IInv, Next, text' # text, text' # NoText,
                       NEW p \in InTree(parent), Matches(p, text')
       PROVE  Visible(p)'
    BY DEF vars
  <2>1. PICK t \in Texts : ProcessFilterChanged(t)
    BY DEF Next, ProcessStarts, ProcessExits, Expand, Collapse, Select, ProcessListReady
  <2>2. /\ text' = t /\ parent' = parent
        /\ hidden' = HiddenBy(parent, t) /\ ExpandedBy(parent, t) \subseteq expanded'
    BY <2>1 DEF ProcessFilterChanged, item_vars
  <2>3. Items \in SUBSET Pids /\ parent \in [Items -> Items \cup {NoPid}]
    BY DEF IInv, TypeOK
  <2>4. p \in FilterTreeItem(parent, t)
    BY <2>2, <2>3, FilterIsLeast
  <2>. QED BY <2>2, <2>3, <2>4, FoundIsOpened DEF Visible
<1>. QED BY <1>1, Invariance, PTL DEF Spec, TypingReveals

\* A new list takes the selection neither from a pid that is still listed and
\* can be reached, nor out of sight unless the filter hides it.
THEOREM SelectionKept == Spec => SelectionStays
<1>1. IInv /\ [Next]_vars =>
        [ProcessListReady /\ selected \in Listed /\ selected \in InTree(parent') =>
           /\ selected' = selected
           /\ selected \notin hidden' => Visible(selected)']_vars
  <2>. SUFFICES ASSUME IInv, ProcessListReady, selected \in Listed, selected \in InTree(parent')
       PROVE  /\ selected' = selected
              /\ selected \notin hidden' => Visible(selected)'
    BY DEF vars
  <2>1. /\ parent' = ParentItems /\ selected' = Reselected /\ hidden' = HiddenBy(ParentItems, text)
        /\ Opened \subseteq expanded'
    BY DEF ProcessListReady
  <2>2. /\ Listed \in SUBSET Pids /\ NoPid \notin Pids
        /\ ParentItems \in [Listed -> Listed \cup {NoPid}]
    BY NewItems, PidsAssumption
  <2>3. selected' = selected /\ Reselected # NoPid
    BY <2>1, <2>2 DEF Reselected
  <2>4. ASSUME selected \notin hidden' PROVE Visible(selected)'
    <3>1. selected \in FilterTreeItem(ParentItems, text)
      BY <2>1, <2>4 DEF HiddenBy
    <3>2. /\ selected \in InTree(ParentItems)
          /\ ({selected} \cup Ancestors(ParentItems, selected)) \cap HiddenBy(ParentItems, text) = {}
      BY <2>2, <3>1, FoundIsOpened
    <3>3. Ancestors(ParentItems, selected) \subseteq Opened
      BY <2>1, <2>3 DEF Opened
    <3>. QED BY <2>1, <2>3, <3>2, <3>3 DEF Visible
  <2>. QED BY <2>3, <2>4
<1>. QED BY <1>1, Invariance, PTL DEF Spec, SelectionStays

=============================================================================
