------------------------ MODULE EffectEngine_proofs ------------------------
(***************************************************************************)
(* Proofs about EffectEngine for all settings, rates, lengths and copies,  *)
(* and however many packets, changes and ticks there are.                  *)
(***************************************************************************)
EXTENDS EffectEngine, SequenceTheorems, WellFoundedInduction, TLAPS

-----------------------------------------------------------------------------
(* Numbers *)

\* A set of naturals has a least element: what takes the place of induction here.
LEMMA LeastNumber ==
  ASSUME NEW T \in SUBSET Nat, T # {}
  PROVE  \E n \in T : \A m \in T : n <= m
<1> DEFINE R == OpToRel(<, Nat)
<1>1. IsWellFoundedOn(R, Nat)
  BY NatLessThanWellFounded
<1>2. PICK n \in T : \A m \in T : <<m, n>> \notin R
  <2> HIDE DEF R
  <2> QED BY <1>1, WFMin
<1>3. \A m \in T : ~ (m < n)
  BY <1>2 DEF OpToRel
<1> QED BY <1>3

\* A product grows with its factor.
LEMMA ProductGrows ==
  ASSUME NEW a \in Int, NEW b \in Int, NEW c \in Nat, a <= b
  PROVE  /\ a * c <= b * c /\ c * a <= c * b
         /\ a * c \in Int /\ b * c \in Int
  OBVIOUS

\* At rate r a packet takes as long as its bytes need, or longer.
LEMMA TransmissionTakesLongEnough ==
  ASSUME NEW l \in Lengths, NEW r \in Nat, r > 0
  PROVE  /\ TransmissionTime(l, r) \in Nat
         /\ l * Second <= TransmissionTime(l, r) * r
<1> DEFINE x == l * Second + r - 1
           q == x \div r
<1>1. l \in Nat /\ l > 0 /\ Second \in Nat /\ l * Second \in Nat
  BY LengthsAssumption, SecondAssumption
<1>2. x \in Nat
  BY <1>1
<1>3. q \in Nat /\ q * r + (x % r) = x /\ x % r \in 0 .. r - 1
  <2> HIDE DEF x
  <2> QED BY <1>2
<1>4. q * r >= l * Second
  BY <1>1, <1>3
<1>5. TransmissionTime(l, r) = Larger(q, 1)
  BY <1>1 DEF TransmissionTime
<1>6. Larger(q, 1) \in Nat /\ Larger(q, 1) >= q
  BY <1>3 DEF Larger
<1>7. Larger(q, 1) * r >= q * r
  BY <1>3, <1>6, ProductGrows
<1> HIDE DEF q
<1> QED BY <1>1, <1>3, <1>4, <1>5, <1>6, <1>7

-----------------------------------------------------------------------------
(* The two recursive functions: their equations hold for every argument *)

\* BytesOf is the sum it says it is.
LEMMA BytesOfDef ==
  ASSUME NEW l, Len(l) \in Nat
  PROVE  BytesOf(l) = [k \in 0 .. Len(l) |->
                         IF k = 0 THEN 0
                         ELSE BytesOf(l)[k - 1] + l[k].length * Len(l[k].releases)]
<1> DEFINE P(g, m) == g = [k \in 0 .. m |-> IF k = 0 THEN 0
                             ELSE g[k - 1] + l[k].length * Len(l[k].releases)]
           T == {m \in Nat : ~ \E g : P(g, m)}
<1>1. T = {}
  <2> SUFFICES ASSUME T # {} PROVE FALSE
    OBVIOUS
  <2>1. PICK m \in T : \A i \in T : m <= i
    BY LeastNumber
  <2>2. m # 0
    <3>1. P([k \in 0 .. 0 |-> 0], 0)
      OBVIOUS
    <3> QED BY <3>1
  <2>3. PICK g : P(g, m - 1)
    <3>1. m - 1 \in Nat /\ m - 1 \notin T
      BY <2>1, <2>2
    <3> QED BY <3>1
  <2> DEFINE h == [k \in 0 .. m |-> IF k = 0 THEN 0
                     ELSE g[k - 1] + l[k].length * Len(l[k].releases)]
  <2>4. P(h, m)
    <3>1. \A k \in 0 .. m : k # 0 => h[k - 1] = g[k - 1]
      BY <2>3
    <3> QED BY <3>1
  <2> QED BY <2>1, <2>4
<1>2. \E g : P(g, Len(l))
  BY <1>1
<1>3. BytesOf(l) = CHOOSE g : P(g, Len(l))
  BY DEF BytesOf
<1> HIDE DEF P
<1>4. P(CHOOSE g : P(g, Len(l)), Len(l))
  BY <1>2
<1> USE DEF P
<1> QED BY <1>3, <1>4

\* The parts of a decision.
LEMMA DecisionType ==
  ASSUME NEW d \in Decisions
  PROVE  /\ d.length \in Lengths /\ d.length \in Nat /\ d.length > 0
         /\ d.releases \in Seq(Nat)
         /\ d.base \in Nat
         /\ d.snapshot.revision \in Nat
         /\ d.snapshot.settings.throttle \in Nat
         /\ d.snapshot.settings.burst_length \in Nat
         /\ d.snapshot.settings.burst_enabled \in BOOLEAN
<1>1. /\ d.length \in Lengths /\ d.releases \in Seq(Nat) /\ d.base \in Nat
      /\ d.snapshot \in [settings : SettingsType, revision : Nat]
  BY DEF Decisions
<1>2. d.snapshot.settings \in SettingsType /\ d.snapshot.revision \in Nat
  BY <1>1
<1>3. /\ d.snapshot.settings.throttle \in 0 .. kMaxThrottle
      /\ d.snapshot.settings.burst_length \in 1 .. kMaxBurstDropLength
      /\ d.snapshot.settings.burst_enabled \in BOOLEAN
  BY <1>2 DEF SettingsType
<1>4. 0 .. kMaxThrottle \subseteq Nat /\ 1 .. kMaxBurstDropLength \subseteq Nat
  BY LimitsAssumption
<1>5. \A n \in Lengths : n \in Nat /\ n > 0
  BY LengthsAssumption
<1> QED BY <1>1, <1>2, <1>3, <1>4, <1>5

\* It is a number for every packet, and a longer log does not change it.
LEMMA BytesOfType ==
  ASSUME NEW l \in Seq(Decisions)
  PROVE  \A k \in 0 .. Len(l) : BytesOf(l)[k] \in Nat
<1> DEFINE T == {k \in 0 .. Len(l) : BytesOf(l)[k] \notin Nat}
<1> SUFFICES ASSUME T # {} PROVE FALSE
  OBVIOUS
<1>1. PICK k \in T : \A i \in T : k <= i
  <2>1. T \in SUBSET Nat
    OBVIOUS
  <2> HIDE DEF T
  <2> QED BY <2>1, LeastNumber
<1>2. k # 0
  BY BytesOfDef
<1>3. k - 1 \in 0 .. Len(l) /\ BytesOf(l)[k - 1] \in Nat
  BY <1>1, <1>2
<1>4. l[k].length * Len(l[k].releases) \in Nat
  <2>1. l[k] \in Decisions
    BY <1>2
  <2>2. l[k].length \in Nat /\ Len(l[k].releases) \in Nat
    BY <2>1, DecisionType, LengthsAssumption
  <2> QED BY <2>2
<1>5. BytesOf(l)[k] = BytesOf(l)[k - 1] + l[k].length * Len(l[k].releases)
  BY <1>2, BytesOfDef
<1> QED BY <1>3, <1>4, <1>5

LEMMA BytesOfAppend ==
  ASSUME NEW l \in Seq(Decisions), NEW d \in Decisions
  PROVE  LET m == Append(l, d)
         IN  /\ \A k \in 0 .. Len(l) : BytesOf(m)[k] = BytesOf(l)[k]
             /\ BytesOf(m)[Len(m)] = BytesOf(l)[Len(l)] + d.length * Len(d.releases)
<1> DEFINE m == Append(l, d)
           T == {k \in 0 .. Len(l) : BytesOf(m)[k] # BytesOf(l)[k]}
<1>1. Len(m) = Len(l) + 1 /\ Len(l) \in Nat /\ m[Len(m)] = d
      /\ \A k \in 1 .. Len(l) : m[k] = l[k]
  OBVIOUS
<1> HIDE DEF m
<1>2. T = {}
  <2> SUFFICES ASSUME T # {} PROVE FALSE
    OBVIOUS
  <2>1. PICK k \in T : \A i \in T : k <= i
    <3>1. T \in SUBSET Nat
      BY <1>1
    <3> HIDE DEF T
    <3> QED BY <3>1, LeastNumber
  <2>2. k # 0
    BY <1>1, BytesOfDef
  <2>3. BytesOf(m)[k - 1] = BytesOf(l)[k - 1]
    <3>1. k - 1 \in 0 .. Len(l) /\ k - 1 \notin T
      BY <2>1, <2>2
    <3> QED BY <3>1
  <2>4. BytesOf(l)[k] = BytesOf(l)[k - 1] + l[k].length * Len(l[k].releases)
    BY <1>1, <2>2, BytesOfDef
  <2>5. BytesOf(m)[k] = BytesOf(m)[k - 1] + m[k].length * Len(m[k].releases)
    BY <1>1, <2>2, BytesOfDef
  <2>6. m[k] = l[k]
    BY <1>1, <2>2
  <2> QED BY <2>3, <2>4, <2>5, <2>6
<1>3. BytesOf(m)[Len(m)] = BytesOf(m)[Len(l)] + m[Len(m)].length * Len(m[Len(m)].releases)
  <2>1. Len(m) \in 0 .. Len(m) /\ Len(m) # 0 /\ Len(m) - 1 = Len(l) /\ Len(m) \in Nat
    BY <1>1
  <2> QED BY <2>1, BytesOfDef
<1>4. BytesOf(m)[Len(l)] = BytesOf(l)[Len(l)]
  BY <1>1, <1>2
<1> QED BY <1>1, <1>2, <1>3, <1>4 DEF m

\* The release times of the copies, as EmitPacketCopies goes through them.
LEMMA ReleasesDef ==
  ASSUME NEW n \in Nat, NEW base
  PROVE  Releases(n, base) =
           [k \in 1 .. n |->
              IF snapshot.settings.throttle = 0 THEN base
              ELSE Larger(base, IF k = 1 THEN Larger(now, Backlog)
                                ELSE Releases(n, base)[k - 1]
                                       + TransmissionTime(length, snapshot.settings.throttle))]
<1> DEFINE free == snapshot.settings.throttle = 0
           time == TransmissionTime(length, snapshot.settings.throttle)
           start == Larger(now, Backlog)
           P(g, m) == g = [k \in 1 .. m |-> IF free THEN base
                             ELSE Larger(base, IF k = 1 THEN start ELSE g[k - 1] + time)]
           T == {m \in Nat : ~ \E g : P(g, m)}
<1>3. Releases(n, base) = CHOOSE g : P(g, n)
  BY DEF Releases
<1> HIDE DEF free, time, start
<1>1. T = {}
  <2> SUFFICES ASSUME T # {} PROVE FALSE
    OBVIOUS
  <2>1. PICK m \in T : \A i \in T : m <= i
    BY LeastNumber
  <2>2. m # 0
    <3>1. P(<< >>, 0)
      OBVIOUS
    <3> QED BY <3>1
  <2>3. PICK g : P(g, m - 1)
    <3> HIDE DEF P
    <3>1. m - 1 \in Nat /\ m - 1 \notin T
      BY <2>1, <2>2
    <3> QED BY <3>1
  <2> DEFINE h == [k \in 1 .. m |-> IF free THEN base
                     ELSE Larger(base, IF k = 1 THEN start ELSE g[k - 1] + time)]
  <2>4. P(h, m)
    <3>1. \A k \in 1 .. m : k # 1 => h[k - 1] = g[k - 1]
      BY <2>3
    <3> QED BY <3>1
  <2> QED BY <2>1, <2>4
<1>2. \E g : P(g, n)
  BY <1>1
<1> HIDE DEF P
<1>4. P(CHOOSE g : P(g, n), n)
  BY <1>2
<1> USE DEF P, free, time, start
<1> QED BY <1>3, <1>4

-----------------------------------------------------------------------------
(* What Process decides *)

\* The settings in hand, and the backlog that is left of the old ones.
LEMMA InHand ==
  ASSUME TypeOK
  PROVE  /\ snapshot.settings \in SettingsType /\ snapshot.revision \in Nat
         /\ snapshot.settings.throttle \in Nat
         /\ snapshot.settings.delay \in Nat
         /\ snapshot.settings.jitter \in Nat
         /\ snapshot.settings.burst_enabled \in BOOLEAN
         /\ snapshot.settings.burst_length \in 1 .. kMaxBurstDropLength
         /\ snapshot.settings.duplicate_count \in 1 .. kMaxDuplicateCopies
         /\ Backlog \in Nat /\ now \in Nat
<1>1. snapshot.settings \in SettingsType /\ snapshot.revision \in Nat /\ now \in Nat
  BY DEF TypeOK
<1>2. /\ snapshot.settings.throttle \in 0 .. kMaxThrottle
      /\ snapshot.settings.delay \in Nat
      /\ snapshot.settings.jitter \in 0 .. kMaxDelayJitterMs
      /\ snapshot.settings.burst_enabled \in BOOLEAN
      /\ snapshot.settings.burst_length \in 1 .. kMaxBurstDropLength
      /\ snapshot.settings.duplicate_count \in 1 .. kMaxDuplicateCopies
  BY <1>1 DEF SettingsType
<1>3. 0 .. kMaxThrottle \subseteq Nat /\ 0 .. kMaxDelayJitterMs \subseteq Nat
  BY LimitsAssumption
<1>4. Backlog \in Nat
  BY DEF Backlog, TypeOK
<1> QED BY <1>1, <1>2, <1>3, <1>4

\* With a throttle the copies queue up behind the backlog, a transmission apart.
LEMMA ReleasesPaced ==
  ASSUME TypeOK, capture_pc = "process",
         NEW n \in Nat \ {0}, NEW base \in Nat, base >= now
  PROVE  LET release == Releases(n, base)
             rate == snapshot.settings.throttle
             time == TransmissionTime(length, rate)
         IN  /\ release \in Seq(Nat) /\ Len(release) = n
             /\ rate = 0 => release[1] = base
             /\ rate > 0 => /\ release[1] >= Backlog
                            /\ release[1] > base => Backlog > 0
                            /\ \A k \in 1 .. n : release[k] >= release[1] + (k - 1) * time
<1> DEFINE release == Releases(n, base)
           rate == snapshot.settings.throttle
           time == TransmissionTime(length, rate)
           first == Larger(now, Backlog)
<1>1. rate \in Nat /\ Backlog \in Nat /\ now \in Nat
  BY InHand
<1>2. length \in Lengths
  BY DEF TypeOK
<1>3. rate > 0 => time \in Nat
  BY <1>1, <1>2, TransmissionTakesLongEnough
<1>4. release = [k \in 1 .. n |->
                   IF rate = 0 THEN base
                   ELSE Larger(base, IF k = 1 THEN first ELSE release[k - 1] + time)]
  BY ReleasesDef
<1>5. first \in Nat /\ first >= Backlog /\ (first > now => first = Backlog)
  BY <1>1 DEF Larger
<1> HIDE DEF release, rate, time, first
<1>6. CASE rate = 0
  <2>1. release = [k \in 1 .. n |-> base]
    BY <1>4, <1>6
  <2> QED BY <2>1, <1>6 DEF release, rate
<1>7. CASE rate > 0
  <2>1. /\ release[1] = Larger(base, first)
        /\ \A k \in 2 .. n : release[k] = Larger(base, release[k - 1] + time)
    BY <1>4, <1>7
  <2>2. release[1] \in Nat /\ release[1] >= Backlog /\ (release[1] > base => Backlog > 0)
    BY <2>1, <1>1, <1>5 DEF Larger
  <2> DEFINE Late(k) == release[k] \in Nat /\ release[k] >= release[1] + (k - 1) * time
             T == {k \in 1 .. n : ~ Late(k)}
  <2>3. T = {}
    <3> SUFFICES ASSUME T # {} PROVE FALSE
      OBVIOUS
    <3>1. PICK k \in T : \A i \in T : k <= i
      <4>1. T \in SUBSET Nat
        OBVIOUS
      <4> HIDE DEF T
      <4> QED BY <4>1, LeastNumber
    <3>2. k \in 2 .. n
      BY <2>2, <1>3, <1>7
    <3>3. Late(k - 1)
      BY <3>1, <3>2
    <3>4. release[k] = Larger(base, release[k - 1] + time)
      BY <3>2, <2>1
    <3>5. /\ release[k - 1] + time \in Nat
          /\ release[k - 1] + time >= release[1] + (k - 1) * time
      <4>1. (k - 1 - 1) * time + time = (k - 1) * time
        BY <3>2, <1>3, <1>7
      <4> QED BY <3>3, <4>1, <1>3, <1>7, <2>2, <3>2
    <3>6. release[k] \in Nat /\ release[k] >= release[k - 1] + time
      BY <3>4, <3>5 DEF Larger
    <3> QED BY <3>5, <3>6, <2>2, <3>2, <1>3, <1>7
  <2>4. \A k \in 1 .. n : Late(k)
    BY <2>3
  <2>5. release = [k \in 1 .. n |-> release[k]]
    BY <1>4
  <2>6. release \in [1 .. n -> Nat]
    BY <2>4, <2>5
  <2>7. release \in Seq(Nat) /\ Len(release) = n
    BY <2>6
  <2> QED BY <2>2, <2>4, <2>7, <1>7 DEF release, rate, time
<1> QED BY <1>1, <1>6, <1>7

\* What a decision is like: one that drops leaves the backlog alone, and one that
\* emits spaces its copies, and what comes next, by the bytes sent.
Paced(backlog, outcome, base, releases) ==
  LET rate == snapshot.settings.throttle
      copies == Len(releases)
  IN  /\ outcome \in {"burst", "burst_start", "drop", "emit"}
      /\ base \in Nat /\ releases \in Seq(Nat) /\ backlog \in Nat
      /\ outcome = "emit" <=> copies > 0
      /\ outcome # "emit" => backlog = Backlog
      /\ outcome = "emit" /\ rate = 0 => backlog = Backlog /\ releases[1] = base
      /\ outcome = "emit" /\ rate > 0 =>
           /\ releases[1] >= Backlog
           /\ releases[1] > base => Backlog > 0
           /\ (length * copies - length) * Second <= (releases[copies] - releases[1]) * rate
           /\ length * copies * Second <= (backlog - releases[1]) * rate

LEMMA DroppedIsPaced ==
  ASSUME TypeOK, NEW outcome \in {"burst", "burst_start", "drop"}
  PROVE  Paced(Backlog, outcome, 0, << >>)
<1>1. Backlog \in Nat
  BY InHand
<1>2. << >> \in Seq(Nat) /\ Len(<< >>) = 0
  OBVIOUS
<1> QED BY <1>1, <1>2 DEF Paced

\* n copies, a transmission apart, take the time of their bytes.
LEMMA CopiesTakeTime ==
  ASSUME NEW l \in Nat, NEW rate \in Nat, NEW time \in Nat, l * Second <= time * rate,
         NEW n \in Nat \ {0}, NEW first \in Nat, NEW last \in Nat,
         last >= first + (n - 1) * time
  PROVE  /\ last + time \in Nat
         /\ (l * n - l) * Second <= (last - first) * rate
         /\ l * n * Second <= (last + time - first) * rate
<1> DEFINE m == n - 1
           gap == last - first
           bytes == l * Second
           paced == time * rate
<1>1. m \in Nat /\ n = m + 1 /\ gap \in Int /\ Second \in Nat /\ bytes \in Nat /\ paced \in Nat
  BY SecondAssumption
<1>2. m * time \in Nat /\ m * time <= gap
  BY <1>1
<1>3. m * bytes <= m * paced
  <2> HIDE DEF m, bytes, paced
  <2> QED BY <1>1, ProductGrows DEF bytes, paced
<1>4. m * paced = (m * time) * rate
  <2> HIDE DEF m
  <2> QED BY <1>1 DEF paced
<1>5. (m * time) * rate <= gap * rate
  <2> DEFINE apart == m * time
  <2> HIDE DEF m, gap, apart
  <2>1. apart \in Nat /\ apart <= gap
    BY <1>2 DEF apart
  <2>2. apart * rate <= gap * rate
    BY <1>1, <2>1, ProductGrows
  <2> QED BY <2>2 DEF apart
<1>6. (l * n - l) * Second = m * bytes
  <2>1. (l * (m + 1) - l) * Second = m * (l * Second)
    <3> HIDE DEF m
    <3> QED BY <1>1
  <2> QED BY <1>1, <2>1
<1>7. (l * n - l) * Second <= gap * rate
  <2>1. m * bytes \in Int /\ m * paced \in Int /\ gap * rate \in Int
    <3> HIDE DEF m, bytes, paced, gap
    <3> QED BY <1>1
  <2> HIDE DEF m, bytes, paced, gap
  <2> QED BY <2>1, <1>3, <1>4, <1>5, <1>6
<1>8. l * n * Second = (l * n - l) * Second + bytes
  BY <1>1
<1>9. (last + time - first) * rate = gap * rate + paced
  OBVIOUS
<1>10. l * n * Second <= (last + time - first) * rate
  <2>1. (l * n - l) * Second \in Int /\ gap * rate \in Int
    BY <1>1
  <2>2. bytes <= paced
    OBVIOUS
  <2> HIDE DEF bytes, paced, gap
  <2> QED BY <2>1, <2>2, <1>1, <1>7, <1>8, <1>9
<1> QED BY <1>7, <1>10

\* What is emitted is paced.
LEMMA EmitIsPaced ==
  ASSUME TypeOK, Emit
  PROVE  \E backlog, base, releases :
           Decided(backlog, "emit", base, releases) /\ Paced(backlog, "emit", base, releases)
<1> DEFINE rate == snapshot.settings.throttle
<1>1. PICK n \in CopyCounts, jitter \in 0 .. snapshot.settings.jitter :
        LET base == now + snapshot.settings.delay + jitter
            releases == Releases(n, base)
        IN  Decided(IF rate = 0 THEN Backlog
                    ELSE releases[n] + TransmissionTime(length, rate),
                    "emit", base, releases)
  BY DEF Emit
<1> DEFINE base == now + snapshot.settings.delay + jitter
           releases == Releases(n, base)
           backlog == IF rate = 0 THEN Backlog
                      ELSE releases[n] + TransmissionTime(length, rate)
<1>2. Decided(backlog, "emit", base, releases)
  BY <1>1
<1>3. capture_pc = "process" /\ length \in Lengths
  BY <1>2 DEF Decided, TypeOK
<1>4. n \in Nat \ {0}
  <2>1. snapshot.settings.duplicate_count \in Nat
    BY InHand, LimitsAssumption
  <2> QED BY <2>1 DEF CopyCounts
<1>5. base \in Nat /\ base >= now
  BY InHand
<1>6. rate \in Nat /\ Backlog \in Nat
  BY InHand
<1> HIDE DEF base
<1>7. /\ releases \in Seq(Nat) /\ Len(releases) = n
      /\ rate = 0 => releases[1] = base
      /\ rate > 0 => /\ releases[1] >= Backlog
                     /\ releases[1] > base => Backlog > 0
                     /\ \A k \in 1 .. n :
                          releases[k] >= releases[1] + (k - 1) * TransmissionTime(length, rate)
  BY <1>3, <1>4, <1>5, ReleasesPaced
<1> HIDE DEF releases
<1> DEFINE time == TransmissionTime(length, rate)
           first == releases[1]
           last == releases[n]
           next == last + time
<1>8. rate > 0 => /\ next \in Nat
                  /\ (length * n - length) * Second <= (last - first) * rate
                  /\ length * n * Second <= (next - first) * rate
  <2>1. SUFFICES ASSUME rate > 0
                 PROVE  /\ next \in Nat
                        /\ (length * n - length) * Second <= (last - first) * rate
                        /\ length * n * Second <= (next - first) * rate
    OBVIOUS
  <2>2. time \in Nat /\ length * Second <= time * rate
    BY <2>1, <1>3, <1>6, TransmissionTakesLongEnough
  <2>3. first \in Nat /\ last \in Nat /\ last >= first + (n - 1) * time
    <3>1. 1 \in 1 .. n /\ n \in 1 .. n
      BY <1>4
    <3> QED BY <2>1, <3>1, <1>4, <1>7
  <2>4. length \in Nat
    BY <1>3, LengthsAssumption
  <2> HIDE DEF rate, time, first, last
  <2> QED BY <2>2, <2>3, <2>4, <1>4, <1>6, CopiesTakeTime
<1>9. Paced(backlog, "emit", base, releases)
  <2>1. CASE rate = 0
    BY <2>1, <1>4, <1>5, <1>6, <1>7 DEF Paced
  <2>2. CASE rate > 0
    <3>1. backlog = next
      BY <2>2
    <3>2. releases[1] >= Backlog /\ (releases[1] > base => Backlog > 0)
      BY <2>2, <1>7
    <3> HIDE DEF backlog
    <3>3. /\ backlog \in Nat
          /\ (length * n - length) * Second <= (last - first) * rate
          /\ length * n * Second <= (backlog - first) * rate
      <4> HIDE DEF rate, first, last, next
      <4> QED BY <2>2, <3>1, <1>8
    <3> QED BY <2>2, <3>2, <3>3, <1>4, <1>5, <1>6, <1>7 DEF Paced
  <2> QED BY <2>1, <2>2, <1>6
<1> QED BY <1>2, <1>9

\* Whatever Process does, it decides once, and paces what it emits; whether the
\* packet falls to a burst depends on what is left of one.
LEMMA ProcessDecides ==
  ASSUME TypeOK, Process
  PROVE  \E backlog, outcome, base, releases :
           /\ Decided(backlog, outcome, base, releases)
           /\ Paced(backlog, outcome, base, releases)
           /\ \/ /\ outcome = "burst" /\ snapshot.settings.burst_enabled
                 /\ burst_packets_remaining > 0
                 /\ burst_packets_remaining' = burst_packets_remaining - 1
              \/ /\ outcome = "burst_start" /\ snapshot.settings.burst_enabled
                 /\ burst_packets_remaining = 0
                 /\ burst_packets_remaining' = snapshot.settings.burst_length - 1
              \/ /\ outcome \in {"drop", "emit"}
                 /\ ~ snapshot.settings.burst_enabled \/ burst_packets_remaining = 0
                 /\ burst_packets_remaining' = 0
<1>1. CASE BurstContinues
  <2>1. Dropped("burst")
    BY <1>1 DEF BurstContinues
  <2> QED BY <1>1, <2>1, DroppedIsPaced DEF Dropped, BurstContinues
<1>2. CASE BurstStarts
  <2>1. Dropped("burst_start")
    BY <1>2 DEF BurstStarts
  <2> QED BY <1>2, <2>1, DroppedIsPaced DEF Dropped, BurstStarts
<1>3. CASE RandomDrop
  <2>1. Dropped("drop")
    BY <1>3 DEF RandomDrop
  <2> QED BY <1>3, <2>1, DroppedIsPaced DEF Dropped, RandomDrop
<1>4. CASE Emit
  <2>1. PICK backlog, base, releases :
          Decided(backlog, "emit", base, releases) /\ Paced(backlog, "emit", base, releases)
    BY <1>4, EmitIsPaced
  <2>2. /\ ~ snapshot.settings.burst_enabled \/ burst_packets_remaining = 0
        /\ burst_packets_remaining' = 0
    BY <1>4 DEF Emit, NotDropped
  <2> QED BY <2>1, <2>2
<1> QED BY <1>1, <1>2, <1>3, <1>4 DEF Process

-----------------------------------------------------------------------------
(* Types *)

\* It holds at the start.
LEMMA InitIInv == Init => IInv
<1> SUFFICES ASSUME Init PROVE IInv
  OBVIOUS
<1>1. log = << >> /\ Len(log) = 0 /\ burst_packets_remaining = 0 /\ next_throttle_release_at = 0
  BY DEF Init
<1>2. TypeOK
  <2>1. NoSettings \in SettingsType
    BY LimitsAssumption DEF NoSettings, SettingsType
  <2>2. NoSnapshot \in [settings : SettingsType, revision : Nat]
    BY <2>1 DEF NoSnapshot
  <2>3. << >> \in Seq(Decisions) /\ 0 \in 0 .. kMaxBurstDropLength - 1
    BY LimitsAssumption
  <2> QED BY <2>1, <2>2, <2>3 DEF Init, TypeOK
<1>3. ReleasesOK /\ ThrottleHolds /\ BacklogIsOfRevision /\ BurstsAreExact
  BY <1>1 DEF ReleasesOK, ThrottleHolds, BacklogIsOfRevision, BurstsAreExact
<1>4. RevisionsOK
  BY <1>1 DEF Init, RevisionsOK
<1>5. BacklogOK /\ BurstOK
  BY <1>1 DEF BacklogOK, BurstOK
<1> QED BY <1>2, <1>3, <1>4, <1>5 DEF IInv

\* What a setter stores is in the setting's range.
LEMMA StoredType ==
  ASSUME NEW s \in Settings, NEW v \in Inputs[s], config \in SettingsType
  PROVE  [config EXCEPT ![s] = Stored(s, v)] \in SettingsType
<1>1. /\ 0 <= kMaxDelayJitterMs /\ 0 <= kMaxThrottle /\ 1 <= kMaxBurstDropLength
      /\ 1 <= kMaxDuplicateCopies
      /\ kMaxDelayJitterMs \in Int /\ kMaxThrottle \in Int /\ kMaxBurstDropLength \in Int
      /\ kMaxDuplicateCopies \in Int
  BY LimitsAssumption
<1>2. s # "burst_enabled" => v \in Int
  BY InputsAssumption
<1>3. s = "burst_enabled" => v \in BOOLEAN
  BY InputsAssumption
<1>4. CASE s = "burst_enabled"
  BY <1>3, <1>4 DEF SettingsType, Stored
<1>5. CASE s = "delay"
  <2>1. Larger(v, 0) \in Nat
    BY <1>2, <1>5 DEF Larger
  <2>2. Stored(s, v) \in Nat
    BY <1>5, <2>1 DEF Stored
  <2> QED BY <1>5, <2>2 DEF SettingsType
<1>6. CASE s \in {"jitter", "throttle", "burst_length", "duplicate_count"}
  <2>1. /\ Clamp(v, 0, kMaxDelayJitterMs) \in 0 .. kMaxDelayJitterMs
        /\ Clamp(v, 0, kMaxThrottle) \in 0 .. kMaxThrottle
        /\ Clamp(v, 1, kMaxBurstDropLength) \in 1 .. kMaxBurstDropLength
        /\ Clamp(v, 1, kMaxDuplicateCopies) \in 1 .. kMaxDuplicateCopies
    <3>1. v \in Int
      BY <1>2, <1>6
    <3> QED BY <1>1, <3>1 DEF Clamp
  <2>2. CASE s = "jitter"
    BY <2>1, <2>2 DEF SettingsType, Stored
  <2>3. CASE s = "throttle"
    BY <2>1, <2>3 DEF SettingsType, Stored
  <2>4. CASE s = "burst_length"
    BY <2>1, <2>4 DEF SettingsType, Stored
  <2>5. CASE s = "duplicate_count"
    BY <2>1, <2>5 DEF SettingsType, Stored
  <2> QED BY <1>6, <2>2, <2>3, <2>4, <2>5
<1>7. CASE s \in {"burst_rate", "drop_rate", "duplicate_rate"}
  <2>1. Clamp(v, 0, 2) \in 0 .. 2
    <3>1. v \in Int
      BY <1>2, <1>7
    <3> QED BY <3>1 DEF Clamp
  <2>2. Stored(s, v) \in 0 .. 2
    BY <1>7, <2>1 DEF Stored
  <2> QED BY <1>7, <2>2 DEF SettingsType
<1> QED BY <1>4, <1>5, <1>6, <1>7 DEF Settings

\* The decision that is recorded.
Decision(outcome, base, releases) ==
  [at |-> now, length |-> length, snapshot |-> snapshot,
   outcome |-> outcome, base |-> base, releases |-> releases]

LEMMA DecidedType ==
  ASSUME TypeOK, NEW backlog, NEW outcome, NEW base, NEW releases,
         Decided(backlog, outcome, base, releases), Paced(backlog, outcome, base, releases)
  PROVE  /\ Decision(outcome, base, releases) \in Decisions
         /\ log' = Append(log, Decision(outcome, base, releases))
<1>1. now \in Nat /\ length \in Lengths /\ snapshot \in [settings : SettingsType, revision : Nat]
  BY DEF TypeOK, Decided
<1>2. /\ base \in Nat /\ releases \in Seq(Nat)
      /\ outcome \in {"burst", "burst_start", "drop", "emit"}
  BY DEF Paced
<1>3. Decision(outcome, base, releases) \in Decisions
  BY <1>1, <1>2 DEF Decision, Decisions
<1> QED BY <1>3 DEF Decided, Decision

\* Every step keeps every variable in its range.
LEMMA TypeStep == TypeOK /\ [Next]_vars => TypeOK'
<1> SUFFICES ASSUME TypeOK, [Next]_vars PROVE TypeOK'
  OBVIOUS
<1>1. ASSUME NEW s \in Settings, NEW v \in Inputs[s], Set(s, v) PROVE TypeOK'
  <2>1. config' \in SettingsType
    BY <1>1, StoredType DEF Set, TypeOK
  <2> QED BY <1>1, <2>1 DEF Set, engine_vars, TypeOK
<1>2. ASSUME NEW v \in Inputs["throttle"], SetThrottle(v) PROVE TypeOK'
  <2>1. config' \in SettingsType
    BY <1>2, StoredType DEF SetThrottle, TypeOK, Settings
  <2> QED BY <1>2, <2>1 DEF SetThrottle, engine_vars, TypeOK
<1>3. CASE SetThrottleBump
  BY <1>3 DEF SetThrottleBump, engine_vars, TypeOK
<1>4. ASSUME NEW l \in Lengths, Arrive(l) PROVE TypeOK'
  <2>1. snapshot' \in [settings : SettingsType, revision : Nat]
    BY <1>4 DEF Arrive, TypeOK, SettingsType
  <2>2. length' \in Lengths /\ length' # 0
    BY <1>4, LengthsAssumption DEF Arrive
  <2> QED BY <1>4, <2>1, <2>2 DEF Arrive, engine_vars, TypeOK
<1>5. CASE LoadThrottle
  <2>1. snapshot' \in [settings : SettingsType, revision : Nat]
    BY <1>5 DEF LoadThrottle, TypeOK, SettingsType
  <2> QED BY <1>5, <2>1 DEF LoadThrottle, engine_vars, TypeOK
<1>6. CASE LoadRevision
  BY <1>6 DEF LoadRevision, engine_vars, TypeOK
<1>7. CASE LoadRest
  <2>1. snapshot' \in [settings : SettingsType, revision : Nat]
    BY <1>7 DEF LoadRest, TypeOK, SettingsType
  <2> QED BY <1>7, <2>1 DEF LoadRest, engine_vars, TypeOK
<1>8. CASE Process
  <2>1. PICK backlog, outcome, base, releases :
          Decided(backlog, outcome, base, releases) /\ Paced(backlog, outcome, base, releases)
    BY <1>8, ProcessDecides
  <2>2. log' \in Seq(Decisions)
    BY <2>1, DecidedType DEF TypeOK
  <2>3. burst_packets_remaining' \in 0 .. kMaxBurstDropLength - 1
    <3>1. snapshot.settings.burst_length - 1 \in 0 .. kMaxBurstDropLength - 1
      BY InHand, LimitsAssumption
    <3>2. burst_packets_remaining \in 0 .. kMaxBurstDropLength - 1
      BY DEF TypeOK
    <3>3. 0 \in 0 .. kMaxBurstDropLength - 1
      BY LimitsAssumption
    <3>4. \/ burst_packets_remaining > 0 /\ burst_packets_remaining' = burst_packets_remaining - 1
          \/ burst_packets_remaining' = snapshot.settings.burst_length - 1
          \/ burst_packets_remaining' = 0
      BY <1>8 DEF Process, BurstContinues, BurstStarts, RandomDrop, Emit
    <3> QED BY <3>1, <3>2, <3>3, <3>4, LimitsAssumption
  <2>4. next_throttle_release_at' \in Nat /\ last_throttle_revision' \in Nat
    BY <2>1 DEF Decided, Paced, TypeOK
  <2>5. snapshot' \in [settings : SettingsType, revision : Nat]
    <3>1. NoSettings \in SettingsType
      BY LimitsAssumption DEF NoSettings, SettingsType
    <3> QED BY <2>1, <3>1 DEF Decided, NoSnapshot
  <2> QED BY <2>1, <2>2, <2>3, <2>4, <2>5 DEF Decided, TypeOK
<1>9. CASE Tick
  BY <1>9 DEF Tick, engine_vars, TypeOK
<1>10. CASE UNCHANGED vars
  BY <1>10 DEF vars, engine_vars, TypeOK
<1> QED
  BY <1>1, <1>2, <1>3, <1>4, <1>5, <1>6, <1>7, <1>8, <1>9, <1>10 DEF Next, Done

-----------------------------------------------------------------------------
(* What one more decision does to the log *)

\* The packets decided before stay as they were.
LEMMA LogGrows ==
  ASSUME TypeOK, NEW CONSTANT d \in Decisions, log' = Append(log, d),
         NEW CONSTANT n \in Nat, n = Len(log)
  PROVE  /\ Len(log') = n + 1 /\ log'[n + 1] = d /\ log' # << >>
         /\ \A k \in 1 .. n : log'[k] = log[k] /\ log[k] \in Decisions
         /\ \A i, j \in 1 .. n : OneSetting(i, j)' <=> OneSetting(i, j)
         /\ \A i, j \in 1 .. n : Bytes(i, j)' = Bytes(i, j) /\ Bytes(i, j) \in Int
         /\ \A i \in 1 .. n : Bytes(i, n + 1)' = Bytes(i, n) + d.length * Len(d.releases)
         /\ Bytes(n + 1, n + 1)' = d.length * Len(d.releases)
<1> DEFINE old == BytesOf(log)
           new == BytesOf(log')
<1>1. log \in Seq(Decisions) /\ n \in Nat
  BY DEF TypeOK
<1>2. /\ Len(log') = n + 1 /\ log'[n + 1] = d /\ log' # << >>
      /\ \A k \in 1 .. n : log'[k] = log[k] /\ log[k] \in Decisions
  BY <1>1
<1>3. \A i, j \in 1 .. n : OneSetting(i, j)' <=> OneSetting(i, j)
  <2> SUFFICES ASSUME NEW i \in 1 .. n, NEW j \in 1 .. n
               PROVE  OneSetting(i, j)' <=> OneSetting(i, j)
    OBVIOUS
  <2>1. \A k \in i .. j : k \in 1 .. n
    BY <1>1
  <2>2. log'[i] = log[i] /\ \A k \in i .. j : log'[k] = log[k]
    BY <1>2, <2>1
  <2> QED BY <2>2 DEF OneSetting
<1>4. \A k \in 0 .. n : new[k] = old[k] /\ old[k] \in Nat
  BY <1>1, BytesOfAppend, BytesOfType
<1>5. new[n + 1] = old[n] + d.length * Len(d.releases)
  BY <1>1, <1>2, BytesOfAppend
<1>6. d.length * Len(d.releases) \in Nat
  BY DecisionType
<1>7. \A i \in 1 .. n : i - 1 \in 0 .. n /\ i \in 0 .. n
  BY <1>1
<1>8. \A i, j \in 1 .. n : Bytes(i, j)' = Bytes(i, j) /\ Bytes(i, j) \in Int
  BY <1>4, <1>7 DEF Bytes
<1>9. \A i \in 1 .. n : Bytes(i, n + 1)' = Bytes(i, n) + d.length * Len(d.releases)
  <2> SUFFICES ASSUME NEW i \in 1 .. n
               PROVE  Bytes(i, n + 1)' = Bytes(i, n) + d.length * Len(d.releases)
    OBVIOUS
  <2>1. new[i - 1] = old[i - 1] /\ old[i - 1] \in Nat /\ old[n] \in Nat
    BY <1>1, <1>4, <1>7
  <2>2. new[n + 1] - new[i - 1] = old[n] - old[i - 1] + d.length * Len(d.releases)
    <3> DEFINE more == d.length * Len(d.releases)
    <3> HIDE DEF old, new, more
    <3>1. new[n + 1] = old[n] + more /\ more \in Nat
      BY <1>5, <1>6 DEF more
    <3>2. new[n + 1] - new[i - 1] = old[n] - old[i - 1] + more
      BY <2>1, <3>1
    <3> QED BY <3>2 DEF more
  <2> QED BY <2>2 DEF Bytes
<1>10. Bytes(n + 1, n + 1)' = d.length * Len(d.releases)
  <2>1. new[n] = old[n] /\ old[n] \in Nat /\ n + 1 - 1 = n
    BY <1>1, <1>4
  <2>2. new[n + 1] - new[n + 1 - 1] = d.length * Len(d.releases)
    BY <2>1, <1>5, <1>6
  <2> QED BY <2>2 DEF Bytes
<1> QED BY <1>1, <1>2, <1>3, <1>8, <1>9, <1>10

\* One stretch follows another that it does not overtake.
LEMMA Chained ==
  ASSUME NEW bytes \in Int, NEW more \in Int, NEW from \in Int, NEW to \in Int,
         NEW first \in Int, NEW last \in Int, NEW rate \in Nat, to <= first,
         bytes * Second <= (to - from) * rate, more * Second <= (last - first) * rate
  PROVE  (bytes + more) * Second <= (last - from) * rate
<1>1. Second \in Nat
  BY SecondAssumption
<1>2. (bytes + more) * Second = bytes * Second + more * Second
  BY <1>1
<1>3. (last - from) * rate = (last - first) * rate + (first - to) * rate + (to - from) * rate
  OBVIOUS
<1>4. (first - to) * rate >= 0
  OBVIOUS
<1> DEFINE a == bytes * Second
           b == more * Second
           c == (last - first) * rate
           e == (first - to) * rate
           f == (to - from) * rate
<1>5. a \in Int /\ b \in Int /\ c \in Int /\ e \in Int /\ f \in Int
  BY <1>1
<1>6. a + b <= c + e + f
  <2>1. a <= f /\ b <= c /\ e >= 0
    BY <1>4
  <2> HIDE DEF a, b, c, e, f
  <2> QED BY <2>1, <1>5
<1> QED BY <1>2, <1>3, <1>6

\* The decision of one more packet keeps what the log says of pace and backlog.
LEMMA PacingStep ==
  ASSUME IInv, NEW CONSTANT backlog, NEW CONSTANT outcome, NEW CONSTANT base,
         NEW CONSTANT releases,
         Decided(backlog, outcome, base, releases), Paced(backlog, outcome, base, releases)
  PROVE  ReleasesOK' /\ BacklogOK' /\ ThrottleHolds' /\ BacklogIsOfRevision'
<1>1. /\ TypeOK /\ ReleasesOK /\ BacklogOK /\ ThrottleHolds /\ BacklogIsOfRevision
  BY DEF IInv
<1>2. PICK d \in Decisions : d = Decision(outcome, base, releases)
  BY <1>1, DecidedType
<1>3. PICK n \in Nat : n = Len(log)
  BY <1>1 DEF TypeOK
<1>4. /\ Len(log') = n + 1 /\ log'[n + 1] = d /\ log' # << >>
      /\ \A k \in 1 .. n : log'[k] = log[k] /\ log[k] \in Decisions
      /\ \A i, j \in 1 .. n : OneSetting(i, j)' <=> OneSetting(i, j)
      /\ \A i, j \in 1 .. n : Bytes(i, j)' = Bytes(i, j) /\ Bytes(i, j) \in Int
      /\ \A i \in 1 .. n : Bytes(i, n + 1)' = Bytes(i, n) + d.length * Len(d.releases)
      /\ Bytes(n + 1, n + 1)' = d.length * Len(d.releases)
  <2>1. log' = Append(log, d)
    BY <1>1, <1>2, DecidedType
  <2> QED BY <1>1, <1>3, <2>1, LogGrows
<1>5. /\ d.length = length /\ d.snapshot = snapshot /\ d.outcome = outcome
      /\ d.base = base /\ d.releases = releases
  BY <1>2 DEF Decision
<1>6. next_throttle_release_at' = backlog /\ last_throttle_revision' = snapshot.revision
  BY DEF Decided
<1> DEFINE rate == snapshot.settings.throttle
           copies == Len(releases)
<1>7. /\ rate \in Nat /\ Backlog \in Nat /\ backlog \in Nat /\ length \in Nat
      /\ releases \in Seq(Nat) /\ base \in Nat /\ copies \in Nat
      /\ next_throttle_release_at \in Nat
  BY <1>1, <1>2, <1>5, InHand, DecisionType DEF Paced, TypeOK
<1>8. /\ outcome = "emit" <=> copies > 0
      /\ outcome # "emit" => backlog = Backlog
      /\ outcome = "emit" /\ rate = 0 => backlog = Backlog /\ releases[1] = base
      /\ outcome = "emit" /\ rate > 0 =>
           /\ releases[1] >= Backlog
           /\ releases[1] > base => Backlog > 0
           /\ (length * copies - length) * Second <= (releases[copies] - releases[1]) * rate
           /\ length * copies * Second <= (backlog - releases[1]) * rate
  BY DEF Paced
<1>9. Backlog > 0 => /\ Backlog = next_throttle_release_at
                     /\ snapshot.revision = last_throttle_revision
  BY DEF Backlog
<1>10. \A k \in 1 .. n : /\ Emitted(k)' <=> Emitted(k)
                         /\ Throttled(k)' <=> Throttled(k)
                         /\ Copies(k)' = Copies(k) /\ FirstRelease(k)' = FirstRelease(k)
                         /\ LastRelease(k)' = LastRelease(k)
  BY <1>4 DEF Emitted, Throttled, Copies, FirstRelease, LastRelease
<1>11. /\ Emitted(n + 1)' <=> outcome = "emit"
       /\ Throttled(n + 1)' <=> rate > 0
       /\ Copies(n + 1)' = copies /\ FirstRelease(n + 1)' = releases[1]
       /\ LastRelease(n + 1)' = releases[copies]
  BY <1>4, <1>5 DEF Emitted, Throttled, Copies, FirstRelease, LastRelease
<1>12. ReleasesOK'
  <2> SUFFICES ASSUME NEW k \in 1 .. n + 1 PROVE (Emitted(k) <=> Copies(k) > 0)'
    BY <1>4 DEF ReleasesOK
  <2>1. CASE k \in 1 .. n
    BY <1>1, <1>3, <1>10, <2>1 DEF ReleasesOK
  <2>2. CASE k = n + 1
    BY <1>8, <1>11, <2>2
  <2> QED BY <2>1, <2>2
\* The packets before, while the setting stays the same.
<1>13. ASSUME NEW i \in 1 .. n, Emitted(i), OneSetting(i, n + 1)', Throttled(i)
       PROVE  /\ OneSetting(i, n)
              /\ log[i].snapshot.settings.throttle = rate /\ rate > 0
              /\ Backlog = next_throttle_release_at
              /\ FirstRelease(i) \in Nat
              /\ Bytes(i, n) * Second <= (Backlog - FirstRelease(i)) * rate
  <2>1. n \in 1 .. n /\ n + 1 \in i .. n + 1 /\ n \in i .. n
    OBVIOUS
  <2>2. OneSetting(i, n)
    <3>1. i \in 1 .. n /\ \A k \in i .. n : k \in i .. n + 1 /\ k \in 1 .. n
      OBVIOUS
    <3>2. \A k \in i .. n + 1 :
            /\ log'[k].snapshot.revision = log'[i].snapshot.revision
            /\ log'[k].snapshot.settings.throttle = log'[i].snapshot.settings.throttle
      BY <1>13 DEF OneSetting
    <3>3. \A k \in 1 .. n : log'[k] = log[k]
      BY <1>4
    <3>4. \A k \in i .. n :
            /\ log[k].snapshot.revision = log[i].snapshot.revision
            /\ log[k].snapshot.settings.throttle = log[i].snapshot.settings.throttle
      BY <3>1, <3>2, <3>3
    <3> QED BY <3>4 DEF OneSetting
  <2>3. /\ snapshot.revision = log[i].snapshot.revision
        /\ rate = log[i].snapshot.settings.throttle
    BY <1>4, <1>5, <1>13, <2>1 DEF OneSetting
  <2>4. log[n].snapshot.revision = log[i].snapshot.revision
    BY <2>1, <2>2 DEF OneSetting
  <2>5. log # << >> /\ log[n].snapshot.revision = last_throttle_revision
    <3>1. log # << >>
      BY <1>3
    <3> QED BY <1>1, <1>3, <3>1 DEF BacklogOK
  <2>6. Backlog = next_throttle_release_at
    BY <2>3, <2>4, <2>5 DEF Backlog
  <2>7. FirstRelease(i) \in Nat
    <3>1. log[i].releases \in Seq(Nat) /\ Len(log[i].releases) > 0
      BY <1>1, <1>3, <1>4, <1>13, DecisionType DEF ReleasesOK, Copies
    <3> QED BY <3>1 DEF FirstRelease
  <2>8. Bytes(i, n) * Second
          <= (next_throttle_release_at - FirstRelease(i)) * log[i].snapshot.settings.throttle
    BY <1>1, <1>3, <1>13, <2>2 DEF BacklogOK
  <2> QED BY <1>13, <2>2, <2>3, <2>6, <2>7, <2>8 DEF Throttled
<1>14. \A i \in 1 .. n : Bytes(i, n) \in Int
  <2>1. n > 0 => n \in 1 .. n
    OBVIOUS
  <2> QED BY <1>4, <2>1
<1>15. outcome = "emit" => releases[1] \in Nat /\ releases[copies] \in Nat
  <2>1. outcome = "emit" => 1 \in 1 .. copies /\ copies \in 1 .. copies
    BY <1>7, <1>8
  <2> QED BY <1>7, <2>1
<1>16. BacklogOK'
  <2>1. log'[Len(log')].snapshot.revision = last_throttle_revision'
    BY <1>4, <1>5, <1>6
  <2>2. next_throttle_release_at' > 0 =>
          \E i \in 1 .. n + 1 :
            Emitted(i)' /\ log'[i].snapshot.revision = last_throttle_revision'
    <3> SUFFICES ASSUME backlog > 0
                 PROVE  \E i \in 1 .. n + 1 :
                          Emitted(i)' /\ log'[i].snapshot.revision = snapshot.revision
      BY <1>6
    <3>1. CASE outcome = "emit" /\ rate > 0
      <4>1. n + 1 \in 1 .. n + 1
        OBVIOUS
      <4> QED BY <3>1, <4>1, <1>4, <1>5, <1>11
    <3>2. CASE backlog = Backlog
      <4>1. next_throttle_release_at > 0 /\ snapshot.revision = last_throttle_revision
        BY <3>2, <1>9
      <4>2. PICK i \in 1 .. n :
              Emitted(i) /\ log[i].snapshot.revision = last_throttle_revision
        BY <4>1, <1>1, <1>3 DEF BacklogOK
      <4>3. i \in 1 .. n + 1
        OBVIOUS
      <4> QED BY <4>1, <4>2, <4>3, <1>4, <1>10
    <3> QED BY <3>1, <3>2, <1>7, <1>8
  <2>3. ASSUME NEW i \in 1 .. n + 1, Emitted(i)', OneSetting(i, n + 1)', Throttled(i)'
        PROVE  Bytes(i, n + 1)' * Second
                 <= (backlog - FirstRelease(i)') * log'[i].snapshot.settings.throttle
    <3>1. CASE i = n + 1
      <4>1. outcome = "emit" /\ rate > 0 /\ FirstRelease(i)' = releases[1]
        BY <2>3, <3>1, <1>11
      <4>2. Bytes(i, n + 1)' = length * copies
        BY <3>1, <1>4, <1>5
      <4>3. log'[i].snapshot.settings.throttle = rate
        BY <3>1, <1>4, <1>5
      <4>4. length * copies * Second <= (backlog - releases[1]) * rate
        BY <4>1, <1>8
      <4> HIDE DEF rate, copies
      <4> QED BY <4>1, <4>2, <4>3, <4>4
    <3>2. CASE i \in 1 .. n
      <4> DEFINE bytes == Bytes(i, n)
                 more == length * copies
                 from == FirstRelease(i)
                 time == log'[i].snapshot.settings.throttle
      <4>1. /\ time = rate /\ rate > 0 /\ from \in Nat
            /\ bytes * Second <= (Backlog - from) * rate
        BY <2>3, <3>2, <1>4, <1>10, <1>13
      <4>2. Bytes(i, n + 1)' = bytes + more /\ FirstRelease(i)' = from
        BY <3>2, <1>4, <1>5, <1>10
      <4>3. bytes \in Int /\ more \in Int
        BY <3>2, <1>7, <1>14
      <4>4. CASE outcome = "emit"
        <5> DEFINE first == releases[1]
        <5>1. more * Second <= (backlog - first) * rate /\ first \in Nat /\ Backlog <= first
          BY <4>1, <4>4, <1>8, <1>15
        <5>2. from \in Int /\ first \in Int /\ backlog \in Int /\ Backlog \in Int /\ rate \in Nat
          BY <4>1, <5>1, <1>7
        <5> HIDE DEF bytes, more, from, first, rate, time
        <5>3. (bytes + more) * Second <= (backlog - from) * rate
          BY <4>1, <4>3, <5>1, <5>2, Chained, Zenon
        <5> QED BY <4>1, <4>2, <5>3, Zenon DEF time
      <4>5. CASE outcome # "emit"
        <5>1. more = 0 /\ backlog = Backlog
          BY <4>5, <1>7, <1>8
        <5> HIDE DEF bytes, more, from, rate, time
        <5>2. bytes + more = bytes
          BY <4>3, <5>1
        <5> QED BY <4>1, <4>2, <5>1, <5>2, Zenon DEF time
      <4> QED BY <4>4, <4>5
    <3> QED BY <3>1, <3>2
  <2> QED BY <2>1, <2>2, <2>3, <1>4, <1>6 DEF BacklogOK
<1>17. ThrottleHolds'
  <2> SUFFICES ASSUME NEW i \in 1 .. n + 1, NEW j \in 1 .. n + 1, i <= j, Emitted(i)', Emitted(j)',
                      OneSetting(i, j)', Throttled(i)'
               PROVE  (Bytes(i, j)' - log'[j].length) * Second
                        <= (LastRelease(j)' - FirstRelease(i)') * log'[i].snapshot.settings.throttle
    BY <1>4 DEF ThrottleHolds
  <2>1. CASE j \in 1 .. n
    <3>1. i \in 1 .. n
      BY <2>1
    <3>2. /\ Bytes(i, j)' = Bytes(i, j) /\ log'[j] = log[j] /\ log'[i] = log[i]
          /\ LastRelease(j)' = LastRelease(j) /\ FirstRelease(i)' = FirstRelease(i)
          /\ Emitted(i) /\ Emitted(j) /\ OneSetting(i, j) /\ Throttled(i)
      BY <2>1, <3>1, <1>4, <1>10
    <3>3. (Bytes(i, j) - log[j].length) * Second
            <= (LastRelease(j) - FirstRelease(i)) * log[i].snapshot.settings.throttle
      BY <2>1, <3>1, <3>2, <1>1, <1>3 DEF ThrottleHolds
    <3> QED BY <3>2, <3>3
  <2>2. CASE j = n + 1
    <3>1. outcome = "emit" /\ LastRelease(j)' = releases[copies] /\ log'[j].length = length
      BY <2>2, <1>4, <1>5, <1>11
    <3>2. CASE i = n + 1
      <4>1. rate > 0 /\ log'[i].snapshot.settings.throttle = rate /\ FirstRelease(i)' = releases[1]
        BY <3>2, <1>4, <1>5, <1>11
      <4>2. Bytes(i, j)' = length * copies
        BY <2>2, <3>2, <1>4, <1>5
      <4>3. (length * copies - length) * Second <= (releases[copies] - releases[1]) * rate
        BY <3>1, <4>1, <1>8
      <4> HIDE DEF rate, copies
      <4> QED BY <3>1, <4>1, <4>2, <4>3
    <3>3. CASE i \in 1 .. n
      <4> DEFINE bytes == Bytes(i, n)
                 more == length * copies - length
                 from == FirstRelease(i)
                 first == releases[1]
                 last == releases[copies]
      <4>1. /\ log'[i].snapshot.settings.throttle = rate /\ rate > 0 /\ from \in Nat
            /\ bytes * Second <= (Backlog - from) * rate
        BY <2>2, <3>3, <1>4, <1>10, <1>13
      <4>2. Bytes(i, j)' - log'[j].length = bytes + more /\ FirstRelease(i)' = from
        <5>1. Bytes(i, j)' = bytes + length * copies /\ FirstRelease(i)' = from
          BY <2>2, <3>3, <1>4, <1>5, <1>10
        <5>2. bytes \in Int /\ length * copies \in Int /\ length \in Int
          BY <3>3, <1>7, <1>14
        <5> HIDE DEF bytes, copies, from
        <5> QED BY <3>1, <5>1, <5>2
      <4>3. bytes \in Int /\ more \in Int
        BY <3>3, <1>7, <1>14
      <4>4. more * Second <= (last - first) * rate /\ first \in Nat /\ last \in Nat /\ Backlog <= first
        BY <3>1, <4>1, <1>8, <1>15
      <4>5. LastRelease(j)' = last
        BY <3>1
      <4>6. from \in Int /\ first \in Int /\ last \in Int /\ Backlog \in Int /\ rate \in Nat
        BY <4>1, <4>4, <1>7
      <4> HIDE DEF bytes, more, from, first, last, rate
      <4>7. (bytes + more) * Second <= (last - from) * rate
        <5>1. bytes * Second <= (Backlog - from) * rate
          BY <4>1
        <5>2. more * Second <= (last - first) * rate
          BY <4>4
        <5>3. Backlog <= first
          BY <4>4
        <5> QED BY <4>3, <4>6, <5>1, <5>2, <5>3, Chained, Zenon
      <4> QED BY <4>1, <4>2, <4>5, <4>7, Zenon
    <3> QED BY <3>2, <3>3
  <2> QED BY <2>1, <2>2
<1>18. BacklogIsOfRevision'
  <2> SUFFICES ASSUME NEW j \in 1 .. n + 1, Emitted(j)', FirstRelease(j)' > log'[j].base
               PROVE  \E i \in 1 .. j - 1 :
                        Emitted(i)' /\ log'[i].snapshot.revision = log'[j].snapshot.revision
    BY <1>4 DEF BacklogIsOfRevision
  <2>1. CASE j \in 1 .. n
    <3>1. PICK i \in 1 .. j - 1 :
            Emitted(i) /\ log[i].snapshot.revision = log[j].snapshot.revision
      BY <2>1, <1>1, <1>3, <1>4, <1>10 DEF BacklogIsOfRevision
    <3>2. i \in 1 .. n
      BY <2>1
    <3> QED BY <2>1, <3>1, <3>2, <1>4, <1>10
  <2>2. CASE j = n + 1
    <3>1. outcome = "emit" /\ releases[1] > base
      BY <2>2, <1>4, <1>5, <1>11
    <3>2. Backlog > 0
      BY <3>1, <1>7, <1>8
    <3>3. next_throttle_release_at > 0 /\ snapshot.revision = last_throttle_revision
      BY <3>2, <1>9
    <3>4. PICK i \in 1 .. n : Emitted(i) /\ log[i].snapshot.revision = last_throttle_revision
      BY <3>3, <1>1, <1>3 DEF BacklogOK
    <3>5. i \in 1 .. j - 1
      BY <2>2
    <3> QED BY <2>2, <3>3, <3>4, <3>5, <1>4, <1>5, <1>10
  <2> QED BY <2>1, <2>2
<1> QED BY <1>12, <1>16, <1>17, <1>18

\* The decision of one more packet keeps what the log says of bursts.
LEMMA BurstStep ==
  ASSUME IInv, NEW CONSTANT backlog, NEW CONSTANT outcome, NEW CONSTANT base,
         NEW CONSTANT releases,
         Decided(backlog, outcome, base, releases), Paced(backlog, outcome, base, releases),
         \/ /\ outcome = "burst" /\ snapshot.settings.burst_enabled
            /\ burst_packets_remaining > 0
            /\ burst_packets_remaining' = burst_packets_remaining - 1
         \/ /\ outcome = "burst_start" /\ snapshot.settings.burst_enabled
            /\ burst_packets_remaining = 0
            /\ burst_packets_remaining' = snapshot.settings.burst_length - 1
         \/ /\ outcome \in {"drop", "emit"}
            /\ ~ snapshot.settings.burst_enabled \/ burst_packets_remaining = 0
            /\ burst_packets_remaining' = 0
  PROVE  BurstOK' /\ BurstsAreExact'
<1>1. TypeOK /\ BurstOK /\ BurstsAreExact
  BY DEF IInv
<1>2. PICK d \in Decisions : d = Decision(outcome, base, releases)
  BY <1>1, DecidedType
<1>3. PICK n \in Nat : n = Len(log)
  BY <1>1 DEF TypeOK
<1>4. /\ Len(log') = n + 1 /\ log'[n + 1] = d
      /\ \A k \in 1 .. n : log'[k] = log[k] /\ log[k] \in Decisions
  <2>1. log' = Append(log, d)
    BY <1>1, <1>2, DecidedType
  <2> QED BY <1>1, <1>3, <2>1, LogGrows
<1>5. d.snapshot = snapshot /\ d.outcome = outcome
  BY <1>2 DEF Decision
<1> DEFINE enabled == snapshot.settings.burst_enabled
           burst_length == snapshot.settings.burst_length
           left == burst_packets_remaining
<1>6. left \in Nat /\ burst_length \in Nat /\ burst_length > 0
  <2>1. left \in 0 .. kMaxBurstDropLength - 1 /\ burst_length \in 1 .. kMaxBurstDropLength
    BY <1>1, InHand DEF TypeOK
  <2> QED BY <2>1, LimitsAssumption
<1>7. /\ left > 0 => \E i \in 1 .. n : BurstIsOn(i)
      /\ \A i \in 1 .. n : BurstIsOn(i) => left = BurstLeft(i)
  BY <1>1, <1>3 DEF BurstOK
<1>8. \A i \in 1 .. n : /\ log[i].snapshot.settings.burst_length \in Nat
                        /\ BurstLeft(i) = log[i].snapshot.settings.burst_length - 1 - (n - i)
                        /\ BurstLeft(i)' = BurstLeft(i) - 1 /\ BurstLeft(i) \in Int
  <2> SUFFICES ASSUME NEW i \in 1 .. n
               PROVE  /\ log[i].snapshot.settings.burst_length \in Nat
                      /\ BurstLeft(i) = log[i].snapshot.settings.burst_length - 1 - (n - i)
                      /\ BurstLeft(i)' = BurstLeft(i) - 1 /\ BurstLeft(i) \in Int
    OBVIOUS
  <2>1. log[i].snapshot.settings.burst_length \in Nat
    BY <1>4, DecisionType
  <2>2. BurstLeft(i)' = log[i].snapshot.settings.burst_length - 1 - (n + 1 - i)
    BY <1>4 DEF BurstLeft
  <2>3. BurstLeft(i) = log[i].snapshot.settings.burst_length - 1 - (n - i)
    BY <1>3 DEF BurstLeft
  <2> QED BY <2>1, <2>2, <2>3
<1>9. BurstLeft(n + 1)' = burst_length - 1
  BY <1>4, <1>5, <1>6 DEF BurstLeft
\* A burst is on after the packet if it was on before, was not over and was seen on.
<1>10. \A i \in 1 .. n : BurstIsOn(i)' <=> BurstIsOn(i) /\ BurstLeft(i) > 0 /\ enabled
  <2> SUFFICES ASSUME NEW i \in 1 .. n
               PROVE  BurstIsOn(i)' <=> BurstIsOn(i) /\ BurstLeft(i) > 0 /\ enabled
    OBVIOUS
  <2>1. (\A k \in i .. n + 1 : log'[k].snapshot.settings.burst_enabled)
          <=> (\A k \in i .. n : log[k].snapshot.settings.burst_enabled) /\ enabled
    <3>1. i .. n + 1 = (i .. n) \cup {n + 1} /\ \A k \in i .. n : k \in 1 .. n
      OBVIOUS
    <3> QED BY <3>1, <1>4, <1>5
  <2>2. log'[i].outcome = log[i].outcome
    BY <1>4
  <2> QED BY <2>1, <2>2, <1>3, <1>4, <1>8 DEF BurstIsOn
<1>11. BurstIsOn(n + 1)' <=> outcome = "burst_start" /\ enabled
  <2>1. \A k \in n + 1 .. n + 1 : k = n + 1
    OBVIOUS
  <2> QED BY <2>1, <1>4, <1>5, <1>6, <1>9 DEF BurstIsOn
<1>12. BurstOK'
  <2>1. ASSUME burst_packets_remaining' > 0 PROVE \E i \in 1 .. n + 1 : BurstIsOn(i)'
    <3>1. CASE outcome = "burst"
      <4>1. PICK i \in 1 .. n : BurstIsOn(i)
        BY <2>1, <3>1, <1>6, <1>7
      <4>2. BurstLeft(i) > 0 /\ enabled /\ i \in 1 .. n + 1
        BY <2>1, <3>1, <4>1, <1>7
      <4> QED BY <4>1, <4>2, <1>10
    <3>2. CASE outcome = "burst_start"
      <4>1. n + 1 \in 1 .. n + 1
        OBVIOUS
      <4> QED BY <3>2, <4>1, <1>11
    <3> QED BY <2>1, <3>1, <3>2
  <2>2. ASSUME NEW i \in 1 .. n + 1, BurstIsOn(i)'
        PROVE  burst_packets_remaining' = BurstLeft(i)'
    <3>1. CASE i \in 1 .. n
      <4>1. left = BurstLeft(i) /\ left > 0 /\ enabled
        BY <2>2, <3>1, <1>7, <1>10
      <4>2. outcome = "burst"
        BY <4>1
      <4> QED BY <3>1, <4>1, <4>2, <1>8
    <3>2. CASE i = n + 1
      BY <2>2, <3>2, <1>9, <1>11
    <3> QED BY <3>1, <3>2
  <2> QED BY <2>1, <2>2, <1>4 DEF BurstOK
<1>13. BurstsAreExact'
  <2> DEFINE Falls(j) ==
        \E i \in 1 .. j - 1 :
          /\ log'[i].outcome = "burst_start"
          /\ j - i < log'[i].snapshot.settings.burst_length
          /\ \A k \in i .. j : log'[k].snapshot.settings.burst_enabled
  <2> SUFFICES ASSUME NEW j \in 1 .. n + 1 PROVE log'[j].outcome = "burst" <=> Falls(j)
    BY <1>4 DEF BurstsAreExact
  <2>1. CASE j \in 1 .. n
    <3>1. \A i \in 1 .. j - 1 : i \in 1 .. n /\ \A k \in i .. j : k \in 1 .. n
      BY <2>1
    <3>2. Falls(j) <=>
            \E i \in 1 .. j - 1 :
              /\ log[i].outcome = "burst_start"
              /\ j - i < log[i].snapshot.settings.burst_length
              /\ \A k \in i .. j : log[k].snapshot.settings.burst_enabled
      BY <3>1, <1>4
    <3> HIDE DEF Falls
    <3> QED BY <2>1, <3>2, <1>1, <1>3, <1>4 DEF BurstsAreExact
  <2>2. CASE j = n + 1
    <3>1. \A i \in 1 .. n :
            (/\ log'[i].outcome = "burst_start"
             /\ j - i < log'[i].snapshot.settings.burst_length
             /\ \A k \in i .. j : log'[k].snapshot.settings.burst_enabled)
            <=> BurstIsOn(i)'
      <4> SUFFICES ASSUME NEW i \in 1 .. n
                   PROVE  n + 1 - i < log'[i].snapshot.settings.burst_length
                            <=> BurstLeft(i)' >= 0
        BY <2>2, <1>4 DEF BurstIsOn
      <4> DEFINE set == log[i].snapshot.settings.burst_length
      <4>1. log'[i].snapshot.settings.burst_length = set
        BY <1>4
      <4>2. set \in Nat /\ BurstLeft(i)' = set - 1 - (n - i) - 1
        BY <1>8
      <4>3. n + 1 - i < set <=> set - 1 - (n - i) - 1 >= 0
        <5> HIDE DEF set
        <5> QED BY <4>2
      <4> QED BY <4>1, <4>2, <4>3
    <3>2. Falls(j) <=> \E i \in 1 .. n : BurstIsOn(i)'
      <4>1. 1 .. j - 1 = 1 .. n
        BY <2>2
      <4> QED BY <3>1, <4>1
    <3>3. (\E i \in 1 .. n : BurstIsOn(i)') <=> outcome = "burst"
      <4>1. ASSUME NEW i \in 1 .. n, BurstIsOn(i)' PROVE outcome = "burst"
        BY <4>1, <1>7, <1>10
      <4>2. ASSUME outcome = "burst" PROVE \E i \in 1 .. n : BurstIsOn(i)'
        <5>1. PICK i \in 1 .. n : BurstIsOn(i)
          BY <4>2, <1>7
        <5>2. BurstLeft(i) > 0 /\ enabled
          BY <4>2, <5>1, <1>7
        <5> QED BY <5>1, <5>2, <1>10
      <4> QED BY <4>1, <4>2
    <3>4. log'[j].outcome = outcome
      BY <2>2, <1>4, <1>5
    <3> HIDE DEF Falls
    <3> QED BY <3>2, <3>3, <3>4
  <2> QED BY <2>1, <2>2
<1> QED BY <1>12, <1>13

-----------------------------------------------------------------------------
(* The inductive invariant, and what follows *)

\* What the log says cannot change while neither it nor the engine's state does.
LEMMA OthersKeep ==
  ASSUME IInv, UNCHANGED <<engine_vars, log>>
  PROVE  /\ ReleasesOK' /\ BacklogOK' /\ BurstOK'
         /\ ThrottleHolds' /\ BacklogIsOfRevision' /\ BurstsAreExact'
BY DEF IInv, engine_vars, ReleasesOK, BacklogOK, BurstOK, ThrottleHolds,
       BacklogIsOfRevision, BurstsAreExact, OneSetting, Copies, FirstRelease,
       LastRelease, Emitted, Throttled, Bytes, BurstLeft, BurstIsOn

\* No step takes a revision back: the UI thread counts up, a snapshot loads what
\* there is, and the engine takes over what was loaded.
LEMMA RevisionsStep ==
  ASSUME IInv, [Next]_vars
  PROVE  RevisionsOK'
<1>1. TypeOK /\ RevisionsOK /\ BacklogOK
  BY DEF IInv
<1>2. revision \in Nat /\ last_throttle_revision \in Nat /\ snapshot.revision \in Nat
  BY <1>1 DEF TypeOK
<1>3. CASE Process
  <2>1. PICK backlog, outcome, base, releases :
          Decided(backlog, outcome, base, releases) /\ Paced(backlog, outcome, base, releases)
    BY <1>1, <1>3, ProcessDecides
  <2>2. PICK d \in Decisions : d = Decision(outcome, base, releases)
    BY <1>1, <2>1, DecidedType
  <2>3. PICK n \in Nat : n = Len(log)
    BY <1>1 DEF TypeOK
  <2>4. /\ Len(log') = n + 1 /\ log'[n + 1].snapshot = snapshot
        /\ \A k \in 1 .. n : log'[k] = log[k] /\ log[k] \in Decisions
    <3>1. log' = Append(log, d) /\ d.snapshot = snapshot
      BY <1>1, <2>1, <2>2, DecidedType DEF Decision
    <3>. QED BY <1>1, <2>3, <3>1, LogGrows
  <2>5. /\ last_throttle_revision' = snapshot.revision /\ revision' = revision
        /\ capture_pc = "process" /\ capture_pc' = "idle"
    BY <2>1 DEF Decided
  <2>6. last_throttle_revision <= snapshot.revision /\ snapshot.revision <= revision
    BY <1>1, <1>2, <2>5 DEF RevisionsOK
  <2>7. \A k \in 1 .. n : /\ log[k].snapshot.revision \in Nat
                          /\ log[k].snapshot.revision <= snapshot.revision
    <3>. SUFFICES ASSUME NEW k \in 1 .. n
                  PROVE  /\ log[k].snapshot.revision \in Nat
                         /\ log[k].snapshot.revision <= snapshot.revision
      OBVIOUS
    <3>1. log # << >> /\ n \in 1 .. n /\ k <= n
      BY <2>3
    <3>2. log[n].snapshot.revision = last_throttle_revision
      BY <1>1, <2>3, <3>1 DEF BacklogOK
    <3>3. log[k].snapshot.revision <= log[n].snapshot.revision
      BY <1>1, <2>3, <3>1 DEF RevisionsOK
    <3>4. log[k].snapshot.revision \in Nat
      BY <2>4 DEF Decisions
    <3>. QED BY <1>2, <2>6, <3>2, <3>3, <3>4
  <2>8. ASSUME NEW i \in 1 .. n + 1, NEW j \in 1 .. n + 1, i <= j
        PROVE  log'[i].snapshot.revision <= log'[j].snapshot.revision
    <3>1. CASE j \in 1 .. n
      <4>1. i \in 1 .. n
        BY <2>8, <3>1
      <4>. QED BY <1>1, <2>3, <2>4, <2>8, <3>1, <4>1 DEF RevisionsOK
    <3>2. CASE j = n + 1 /\ i \in 1 .. n
      BY <2>4, <2>7, <3>2
    <3>3. CASE j = n + 1 /\ i = n + 1
      BY <1>2, <2>4, <3>3
    <3>. QED BY <3>1, <3>2, <3>3
  <2>. QED BY <2>4, <2>5, <2>6, <2>8 DEF RevisionsOK
<1>4. CASE LoadRevision
  <2>1. snapshot'.revision = revision
    BY <1>1, <1>4 DEF LoadRevision, TypeOK
  <2>. QED BY <1>1, <1>2, <1>4, <2>1 DEF LoadRevision, engine_vars, RevisionsOK
<1>5. CASE LoadRest
  <2>1. snapshot'.revision = snapshot.revision
    BY <1>1, <1>5 DEF LoadRest, TypeOK
  <2>. QED BY <1>1, <1>2, <1>5, <2>1 DEF LoadRest, engine_vars, RevisionsOK
<1>6. CASE SetThrottleBump
  BY <1>1, <1>2, <1>6 DEF SetThrottleBump, engine_vars, RevisionsOK
<1>7. \/ Process \/ LoadRevision \/ LoadRest \/ SetThrottleBump
      \/ /\ UNCHANGED <<log, revision, last_throttle_revision>>
         /\ \/ UNCHANGED <<capture_pc, snapshot>>
            \/ capture_pc' \in {"throttle", "revision"}
  BY DEF Next, Set, SetThrottle, Arrive, LoadThrottle, Tick, Done, vars, engine_vars
<1>8. CASE /\ UNCHANGED <<log, revision, last_throttle_revision>>
           /\ \/ UNCHANGED <<capture_pc, snapshot>>
              \/ capture_pc' \in {"throttle", "revision"}
  BY <1>1, <1>8 DEF RevisionsOK
<1>. QED BY <1>3, <1>4, <1>5, <1>6, <1>7, <1>8

\* Every step keeps the inductive invariant.
LEMMA Step == IInv /\ [Next]_vars => IInv'
<1> SUFFICES ASSUME IInv, [Next]_vars PROVE IInv'
  OBVIOUS
<1>1. TypeOK /\ TypeOK'
  BY TypeStep DEF IInv
<1>2. RevisionsOK'
  BY RevisionsStep
<1>3. CASE Process
  <2>1. PICK backlog, outcome, base, releases :
          /\ Decided(backlog, outcome, base, releases)
          /\ Paced(backlog, outcome, base, releases)
          /\ \/ /\ outcome = "burst" /\ snapshot.settings.burst_enabled
                /\ burst_packets_remaining > 0
                /\ burst_packets_remaining' = burst_packets_remaining - 1
             \/ /\ outcome = "burst_start" /\ snapshot.settings.burst_enabled
                /\ burst_packets_remaining = 0
                /\ burst_packets_remaining' = snapshot.settings.burst_length - 1
             \/ /\ outcome \in {"drop", "emit"}
                /\ ~ snapshot.settings.burst_enabled \/ burst_packets_remaining = 0
                /\ burst_packets_remaining' = 0
    BY <1>1, <1>3, ProcessDecides
  <2>2. ReleasesOK' /\ BacklogOK' /\ ThrottleHolds' /\ BacklogIsOfRevision'
    BY <2>1, PacingStep
  <2>3. BurstOK' /\ BurstsAreExact'
    BY <2>1, BurstStep
  <2> QED BY <1>1, <1>2, <2>2, <2>3 DEF IInv
<1>4. CASE UNCHANGED <<engine_vars, log>>
  BY <1>1, <1>2, <1>4, OthersKeep DEF IInv
<1>5. Process \/ UNCHANGED <<engine_vars, log>>
  BY DEF Next, Set, SetThrottle, SetThrottleBump, Arrive, LoadThrottle, LoadRevision,
         LoadRest, Tick, Done, vars, engine_vars
<1> QED BY <1>3, <1>4, <1>5

\* IInv is invariant: what Process does packet by packet, whatever the UI thread
\* stores between the loads of a snapshot, is what the log of decisions says.
THEOREM Invariance == Spec => []IInv
<1> QED BY InitIInv, Step, PTL DEF Spec

\* The target never sends faster than a throttle that stays as it is, for all
\* rates, lengths, copies, delays and jitters (EmitPacketCopies).
THEOREM ThrottleIsKept == Spec => []ThrottleHolds
<1>1. IInv => ThrottleHolds
  BY DEF IInv
<1> QED BY <1>1, Invariance, PTL

\* No packet waits for a backlog of another revision (ResetThrottleStateIfNeeded),
\* and one of another rate needs a torn snapshot: revisions grow, so there is no
\* other one between two packets of the same, and snapshots that are not torn
\* have their revision's rate.
THEOREM RevisionClearsBacklog == Spec => []BacklogEndsWithRevision
<1>1. IInv => BacklogEndsWithRevision
  <2>. SUFFICES ASSUME IInv, NEW j \in 1 .. Len(log), Emitted(j), FirstRelease(j) > log[j].base
                PROVE  \E i \in 1 .. j - 1 :
                         /\ Emitted(i)
                         /\ \A k \in i .. j : log[k].snapshot.revision = log[j].snapshot.revision
                         /\ OneSetting(i, j) \/ \E k \in i .. j : ~ Settled(k)
    BY DEF BacklogEndsWithRevision
  <2>1. PICK i \in 1 .. j - 1 :
          Emitted(i) /\ log[i].snapshot.revision = log[j].snapshot.revision
    BY DEF IInv, BacklogIsOfRevision
  <2>2. Len(log) \in Nat /\ i \in 1 .. Len(log) /\ i \in i .. j
    BY DEF IInv, TypeOK
  <2>3. ASSUME NEW k \in i .. j PROVE log[k].snapshot.revision = log[j].snapshot.revision
    <3>1. k \in 1 .. Len(log) /\ i <= k /\ k <= j
      BY <2>2
    <3>2. \A n \in 1 .. Len(log) : log[n].snapshot.revision \in Nat
      <4>1. \A n \in 1 .. Len(log) : log[n] \in Decisions
        BY DEF IInv, TypeOK
      <4>. QED BY <4>1 DEF Decisions
    <3>3. /\ log[i].snapshot.revision <= log[k].snapshot.revision
          /\ log[k].snapshot.revision <= log[j].snapshot.revision
      BY <2>2, <3>1 DEF IInv, RevisionsOK
    <3>. QED BY <2>1, <2>2, <3>1, <3>2, <3>3
  <2>4. ASSUME \A k \in i .. j : Settled(k) PROVE OneSetting(i, j)
    BY <2>2, <2>3, <2>4 DEF OneSetting, Settled
  <2>. QED BY <2>1, <2>3, <2>4
<1> QED BY <1>1, Invariance, PTL

\* A burst drops as many packets as its length says (ShouldDropPacket).
THEOREM BurstsDropTheirLength == Spec => []BurstsAreExact
<1>1. IInv => BurstsAreExact
  BY DEF IInv
<1> QED BY <1>1, Invariance, PTL
=============================================================================
