--------------------------- MODULE AuditDirProofs ---------------------------
(***************************************************************************)
(* Proofs about AuditDir: its types, that every file under its own name is *)
(* complete, that an envelope with its tag is whole, that pruning leaves   *)
(* the newest envelopes, and that a cycle leaves a bounded directory, for  *)
(* any number of envelopes, any limit on them and any power cuts, kills    *)
(* and calls of `attest`.                                                  *)
(***************************************************************************)
EXTENDS AuditDir, FiniteSetTheorems, SequenceTheorems, WellFoundedInduction, TLAPS

-----------------------------------------------------------------------------
(***************************************************************************)
(* The inductive invariant, in layers that each rest on the ones before.   *)
(***************************************************************************)
\* What each agent has still to do at the stage it stands at.
Stages ==
  /\ \A p \in Agents : stem[p] # 0 => stem[p] \in taken
  /\ stem["run"] = stem["attest"] => stem["run"] = 0
  /\ pc["attest"] \notin {"log", "save", "scan", "prune", "sleep"}
  /\ \A p \in Agents :
       /\ pc[p] = "clear" => Len(todo[p]) = 1
       /\ pc[p] = "publish" =>
            /\ stem[p] \in Stems
            /\ Len(todo[p]) <= 13
            /\ \A i \in 1..Len(todo[p]) :
                 todo[p][i] = Plan(stem[p])[i + 13 - Len(todo[p])]
  /\ pc["run"] = "save" =>
       /\ Len(todo["run"]) <= 4
       /\ \A i \in 1..Len(todo["run"]) :
            todo["run"][i] = LogPlan[i + 4 - Len(todo["run"])]
  /\ pc["run"] = "prune" =>
       \A i \in 1..Len(todo["run"]) :
         \E s \in doomed, e \in Exts : todo["run"][i] = Call("remove", {<<s, e>>})

\* The agent that publishes has this many calls behind it.
Made(p, k) == pc[p] = "publish" /\ Len(todo[p]) <= 13 - k

\* A file whose sync lies behind has its data.
SyncedBy(p) ==
  /\ Made(p, 2) => dir[<<stem[p], "msg">>] # "new"
  /\ Made(p, 4) => dir[<<stem[p], "attest">>] # "new"
  /\ Made(p, 5) => dir[<<stem[p], "sig">>] # "new"
  /\ Made(p, 7) => dir[<<stem[p], "tag">>] # "new"

Synced ==
  /\ \A p \in Agents : SyncedBy(p)
  /\ pc["run"] = "save" /\ Len(todo["run"]) <= 2 => dir[Log] # "new"

\* A file under its name, in the directory and in what was synced of it.
Shown(s, e) == IsFinal(dir[<<s, e>>])
Safe(s, e)  == IsFinal(durable[<<s, e>>])

\* Nothing stands under the name of a counter no one took.
Fresh == \A s \in Stems \ taken, e \in Exts : ~Shown(s, e) /\ ~Safe(s, e)

\* How far an envelope in hand has come, unless the pruner is after it.
ProgressOf(p) ==
  LET s == stem[p]
  IN  /\ Made(p, 0) /\ ~Made(p, 12) => ~Shown(s, "tag") /\ ~Safe(s, "tag")
      /\ s \notin doomed =>
           /\ Made(p, 8)  => Shown(s, "msg")
           /\ Made(p, 9)  => Shown(s, "attest")
           /\ Made(p, 10) => Shown(s, "sig")
           /\ Made(p, 11) => Safe(s, "msg") /\ Safe(s, "attest") /\ Safe(s, "sig")
           /\ Made(p, 12) => Shown(s, "tag")
           /\ Made(p, 13) => Safe(s, "tag")

Progress == \A p \in Agents : ProgressOf(p)

\* The tag stands only over the other three, whichever of the names changed
\* since the last sync a power cut keeps.
TagOnTop ==
  \A s \in Stems \ doomed :
    Shown(s, "tag") \/ Safe(s, "tag") =>
      \A e \in Exts \ {"tag"} : Shown(s, e) /\ Safe(s, e)

\* What was published to the end stays until the pruner is after it.
DoneStays ==
  \A s \in done \ doomed : \A e \in Exts : Shown(s, e) /\ Safe(s, e)

\* The pruner is after nothing but what has Keep counters above it.
DoomedOld ==
  \A s \in doomed : Cardinality({t \in taken : t > s}) >= Keep

\* In a cycle of `run` that has listed the .part files, what `attest` has in
\* hand counts as late, ...
InCycle == pc["run"] \in {"clear", "publish", "scan", "prune", "sleep"}

LateInHand == InCycle => stem["attest"] \in late \union {0}

\* ... the .part files of any other counter are those still to be removed, or
\* of the envelope in hand, ...
PartsGo ==
  InCycle => \A s \in Stems \ late, e \in Exts :
    IsPart(<<s, e>>) =>
      \/ pc["run"] = "clear" /\ <<s, e>> \in Head(todo["run"]).names
      \/ pc["run"] = "publish" /\ s = stem["run"]

\* ... and that envelope is not being pruned.
InHandStays == pc["run"] = "publish" => stem["run"] \notin doomed

\* After the scan, at most Keep envelopes stay beside the late ones, and what
\* else there is is still to be removed.
FewStay ==
  pc["run"] \in {"prune", "sleep"} =>
    \E K \in SUBSET Stems :
      /\ Cardinality(K) <= Keep
      /\ \A s \in Stems \ (late \union K), e \in Exts :
           Shown(s, e) => /\ pc["run"] = "prune"
                          /\ \E i \in 1..Len(todo["run"]) : <<s, e>> \in todo["run"][i].names

-----------------------------------------------------------------------------
(***************************************************************************)
(* What stems_to_prune returns: Ascending lists a set of counters in order, *)
(* and what it leaves out at the end are the Keep highest. That every rank *)
(* is taken is an induction on the rank, by its least counterexample.      *)
(***************************************************************************)
LEMMA LeastOf ==
  ASSUME NEW S \in SUBSET Nat, S # {}
  PROVE  \E least \in S : \A t \in S : least <= t
<1> DEFINE Smaller == {pair \in Nat \X Nat : pair[1] < pair[2]}
<1>1. IsWellFoundedOn(Smaller, Nat)
  BY NatLessThanWellFounded DEF OpToRel
<1>2. \A t \in S, u \in S : <<u, t>> \notin Smaller => t <= u
  OBVIOUS
<1> HIDE DEF Smaller
<1>3. PICK least \in S : \A t \in S : <<t, least>> \notin Smaller
  BY <1>1, WFMin
<1> QED
  BY <1>2, <1>3

Below(S, s) == {t \in S : t < s}

LEMMA BelowIsFinite ==
  ASSUME NEW S \in SUBSET Nat, IsFiniteSet(S), NEW s \in S
  PROVE  IsFiniteSet(Below(S, s)) /\ Cardinality(Below(S, s)) \in Nat
<1>1. Below(S, s) \in SUBSET S
  BY DEF Below
<1> QED
  BY <1>1, FS_Subset, FS_CardinalityType

LEMMA RankRises ==
  ASSUME NEW S \in SUBSET Nat, IsFiniteSet(S), NEW s \in S, NEW t \in S, s < t
  PROVE  Cardinality(Below(S, s)) < Cardinality(Below(S, t))
<1>1. Below(S, s) \in SUBSET Below(S, t)
  <2>1. \A u \in S : u < s => u < t
    OBVIOUS
  <2> QED
    BY <2>1 DEF Below
<1>2. s \in Below(S, t) /\ s \notin Below(S, s)
  BY DEF Below
<1>3. IsFiniteSet(Below(S, t)) /\ Cardinality(Below(S, t)) \in Nat
      /\ Cardinality(Below(S, s)) \in Nat
  BY BelowIsFinite
<1>4. /\ Cardinality(Below(S, s)) <= Cardinality(Below(S, t))
      /\ Cardinality(Below(S, s)) # Cardinality(Below(S, t))
  BY <1>1, <1>2, <1>3, FS_Subset
<1> QED
  BY <1>3, <1>4

LEMMA RankIsTaken ==
  ASSUME NEW S \in SUBSET Nat, IsFiniteSet(S), NEW r \in 0..(Cardinality(S) - 1)
  PROVE  \E s \in S : Cardinality(Below(S, s)) = r
<1> DEFINE Missed == {i \in 0..(Cardinality(S) - 1) :
                        \A s \in S : Cardinality(Below(S, s)) # i}
<1>1. SUFFICES ASSUME Missed # {} PROVE FALSE
  OBVIOUS
<1>2. Cardinality(S) \in Nat
  BY FS_CardinalityType
<1>3. PICK i \in Missed : \A j \in Missed : i <= j
  <2>1. Missed \in SUBSET Nat
    BY <1>2
  <2> QED
    BY <1>1, <2>1, LeastOf
<1>4. i \in Nat /\ i <= Cardinality(S) - 1 /\ \A s \in S : Cardinality(Below(S, s)) # i
  BY <1>2, <1>3
<1>5. CASE i = 0
  <2>1. S # {}
    BY <1>2, <1>4, FS_EmptySet
  <2>2. PICK least \in S : \A t \in S : least <= t
    BY <2>1, LeastOf
  <2>3. Below(S, least) = {}
    <3>1. \A t \in S : ~(t < least)
      BY <2>2
    <3> QED
      BY <3>1 DEF Below
  <2> QED
    BY <1>4, <1>5, <2>3, FS_EmptySet
<1>6. CASE i # 0
  <2>1. i - 1 \in 0..(Cardinality(S) - 1) /\ i - 1 \notin Missed
    BY <1>2, <1>3, <1>4, <1>6
  <2>2. PICK s \in S : Cardinality(Below(S, s)) = i - 1
    BY <2>1
  <2> DEFINE Above == {t \in S : s < t}
  <2>3. /\ IsFiniteSet(Below(S, s) \union {s})
        /\ Cardinality(Below(S, s) \union {s}) = i
    <3>1. s \notin Below(S, s)
      BY DEF Below
    <3>2. IsFiniteSet(Below(S, s))
      BY BelowIsFinite
    <3>3. /\ IsFiniteSet(Below(S, s) \union {s})
          /\ Cardinality(Below(S, s) \union {s}) = Cardinality(Below(S, s)) + 1
      BY <3>1, <3>2, FS_AddElement
    <3> QED
      BY <1>4, <2>2, <3>3
  <2>4. Above # {}
    <3>1. SUFFICES ASSUME Above = {} PROVE FALSE
      OBVIOUS
    <3>2. \A t \in S : t \in Below(S, s) \union {s}
      <4>1. \A t \in S : ~(s < t)
        BY <3>1
      <4>2. \A t \in S : t < s \/ t = s
        BY <4>1
      <4> QED
        BY <4>2 DEF Below
    <3>3. S = Below(S, s) \union {s}
      BY <3>2 DEF Below
    <3> QED
      BY <1>2, <1>4, <2>3, <3>3
  <2>5. PICK next \in Above : \A t \in Above : next <= t
    <3>1. Above \in SUBSET Nat
      OBVIOUS
    <3> QED
      BY <2>4, <3>1, LeastOf
  <2>6. Below(S, next) = Below(S, s) \union {s}
    <3>1. \A t \in S : t < next <=> t < s \/ t = s
      <4>1. s < next /\ \A t \in S : s < t => next <= t
        BY <2>5
      <4> QED
        BY <4>1
    <3> QED
      BY <3>1 DEF Below
  <2> QED
    BY <1>4, <2>3, <2>5, <2>6
<1> QED
  BY <1>5, <1>6

LEMMA AscendingIs ==
  ASSUME NEW S \in SUBSET Nat, IsFiniteSet(S)
  PROVE  /\ Cardinality(S) \in Nat
         /\ Ascending(S) \in Seq(S) /\ Len(Ascending(S)) = Cardinality(S)
         /\ \A i \in 1..Cardinality(S) :
              Ascending(S)[i] \in S /\ Cardinality(Below(S, Ascending(S)[i])) = i - 1
<1>1. Cardinality(S) \in Nat
  BY FS_CardinalityType
<1>2. ASSUME NEW i \in 1..Cardinality(S)
      PROVE  Ascending(S)[i] \in S /\ Cardinality(Below(S, Ascending(S)[i])) = i - 1
  <2>1. i - 1 \in 0..(Cardinality(S) - 1)
    BY <1>1
  <2>2. \E s \in S : Cardinality(Below(S, s)) = i - 1
    BY <2>1, RankIsTaken
  <2>3. Ascending(S)[i] = CHOOSE s \in S : Cardinality(Below(S, s)) = i - 1
    BY DEF Ascending, Below
  <2> QED
    BY <2>2, <2>3
<1>3. Ascending(S) = [i \in 1..Cardinality(S) |->
                         CHOOSE s \in S : Cardinality({t \in S : t < s}) = i - 1]
  BY Zenon DEF Ascending
<1>4. Ascending(S) \in [1..Cardinality(S) -> S]
  <2> DEFINE rank(i) == CHOOSE s \in S : Cardinality({t \in S : t < s}) = i - 1
  <2>1. \A i \in 1..Cardinality(S) : Ascending(S)[i] = rank(i)
    BY <1>3
  <2>2. Ascending(S) = [i \in 1..Cardinality(S) |-> rank(i)]
    BY <1>3
  <2> HIDE DEF rank
  <2>3. \A i \in 1..Cardinality(S) : rank(i) \in S
    BY <1>2, <2>1
  <2> QED
    BY <2>2, <2>3
<1>5. Ascending(S) \in Seq(S) /\ Len(Ascending(S)) = Cardinality(S)
  BY <1>1, <1>4
<1> QED
  BY <1>1, <1>2, <1>5

LEMMA StemsAreFinite ==
  /\ Stems \in SUBSET Nat
  /\ \A S \in SUBSET Stems : IsFiniteSet(S) /\ Cardinality(S) \in Nat
<1>1. MaxStem \in Int /\ 1 \in Int /\ Stems \in SUBSET Nat
  BY AuditAssumption DEF Stems
<1>2. IsFiniteSet(Stems)
  BY <1>1, FS_Interval DEF Stems
<1> QED
  BY <1>1, <1>2, FS_Subset, FS_CardinalityType

\* The scan: what is pruned is published, has Keep published envelopes above
\* it, and leaves at most Keep.
LEMMA ToPruneIs ==
  /\ ToPrune \in Seq(Published)
  /\ \A s \in Range(ToPrune) : Cardinality({t \in Published : t > s}) >= Keep
  /\ Cardinality(Published \ Range(ToPrune)) <= Keep
<1> DEFINE S == Published
           n == Cardinality(S)
           stems == Ascending(S)
<1>1. S \in SUBSET Nat /\ S \in SUBSET Stems
  BY StemsAreFinite DEF Published
<1>2. IsFiniteSet(S)
  BY <1>1, StemsAreFinite
<1> HIDE DEF S
<1>3. /\ n \in Nat /\ stems \in Seq(S) /\ Len(stems) = n
      /\ \A i \in 1..n : stems[i] \in S /\ Cardinality(Below(S, stems[i])) = i - 1
  BY <1>1, <1>2, AscendingIs
<1> HIDE DEF n, stems
<1>4. Keep \in Nat
  BY AuditAssumption
<1> DEFINE last == IF n - Keep > 0 THEN n - Keep ELSE 0
<1>5. /\ ToPrune \in Seq(S) /\ Len(ToPrune) = last
      /\ \A i \in 1..last : ToPrune[i] = stems[i]
  <2>1. ToPrune = SubSeq(stems, 1, n - Keep)
    BY <1>3 DEF ToPrune, S, stems
  <2>2. CASE n - Keep > 0
    BY <1>3, <1>4, <2>1, <2>2, SubSeqProperties
  <2>3. CASE n - Keep <= 0
    BY <1>3, <1>4, <2>1, <2>3, SubSeqProperties
  <2> QED
    BY <1>3, <1>4, <2>2, <2>3
<1>6. Range(ToPrune) = {stems[i] : i \in 1..last}
  <2>1. DOMAIN ToPrune = 1..last
    BY <1>5
  <2> QED
    BY <1>5, <2>1 DEF Range
<1>7. ASSUME NEW s \in Range(ToPrune)
      PROVE  Cardinality({t \in S : t > s}) >= Keep
  <2>1. PICK i \in 1..last : s = stems[i]
    BY <1>6
  <2>2. i \in 1..n /\ i <= n - Keep
    BY <1>3, <1>4
  <2>3. s \in S /\ Cardinality(Below(S, s)) = i - 1
    BY <1>3, <2>1, <2>2
  <2> DEFINE above == {t \in S : t > s}
             rest  == Below(S, s) \union {s}
  <2>4. IsFiniteSet(rest) /\ Cardinality(rest) = i
    <3>1. IsFiniteSet(Below(S, s)) /\ s \notin Below(S, s)
      BY <1>1, <1>2, <2>3, BelowIsFinite DEF Below
    <3> QED
      BY <2>2, <2>3, <3>1, FS_AddElement
  <2>5. rest \subseteq S /\ S \ rest = above
    <3>1. \A t \in S : t > s <=> ~(t < s) /\ t # s
      BY <1>1, <2>3
    <3> QED
      BY <2>3, <3>1 DEF Below
  <2>6. Cardinality(above) = n - i
    <3>1. S \intersect rest = rest
      BY <2>5
    <3> HIDE DEF above, rest
    <3>2. Cardinality(S \ rest) = Cardinality(S) - Cardinality(S \intersect rest)
      BY <1>2, <2>4, FS_Difference
    <3> QED
      BY <2>4, <2>5, <3>1, <3>2 DEF n
  <2> QED
    BY <1>3, <1>4, <2>2, <2>6
<1>8. Cardinality(S \ Range(ToPrune)) <= Keep
  <2>1. CASE n <= Keep
    <3>1. S \ Range(ToPrune) \in SUBSET S
      OBVIOUS
    <3> QED
      BY <1>2, <1>3, <1>4, <2>1, <3>1, FS_Subset, FS_CardinalityType DEF n
  <2>2. CASE n > Keep
    <3> DEFINE m == stems[last + 1]
    <3>1. last = n - Keep /\ last + 1 \in 1..n
      BY <1>3, <1>4, AuditAssumption, <2>2
    <3>2. m \in S /\ Cardinality(Below(S, m)) = n - Keep
      BY <1>3, <1>4, <3>1
    <3>3. \A s \in Below(S, m) : s \in Range(ToPrune)
      <4> SUFFICES ASSUME NEW s \in Below(S, m) PROVE s \in Range(ToPrune)
        OBVIOUS
      <4>1. s \in S /\ s < m
        BY DEF Below
      <4> DEFINE r == Cardinality(Below(S, s))
      <4>2. r \in Nat /\ r < n - Keep
        BY <1>1, <1>2, <3>2, <4>1, RankRises, BelowIsFinite
      <4>3. r + 1 \in 1..last /\ r + 1 \in 1..n
        BY <1>3, <1>4, <3>1, <4>2
      <4>4. stems[r + 1] \in S /\ Cardinality(Below(S, stems[r + 1])) = r
        BY <1>3, <4>2, <4>3
      <4>5. ASSUME NEW t \in S, Cardinality(Below(S, t)) = r
            PROVE  t = s
        <5>1. ~(t < s) /\ ~(s < t)
          <6>1. t < s => Cardinality(Below(S, t)) < r
            BY <1>1, <1>2, <4>1, RankRises
          <6>2. s < t => r < Cardinality(Below(S, t))
            BY <1>1, <1>2, <4>1, RankRises
          <6> QED
            BY <4>2, <4>5, <6>1, <6>2
        <5> QED
          BY <1>1, <4>1, <5>1
      <4>6. stems[r + 1] = s
        BY <4>4, <4>5
      <4> QED
        BY <1>6, <4>3, <4>6
    <3>4. S \ Range(ToPrune) \in SUBSET (S \ Below(S, m))
      BY <3>3
    <3>5. IsFiniteSet(S \ Below(S, m)) /\ Cardinality(S \ Below(S, m)) = Keep
      <4> HIDE DEF m, last
      <4>1. S \intersect Below(S, m) = Below(S, m) /\ IsFiniteSet(Below(S, m))
        BY <1>1, <1>2, <3>2, BelowIsFinite DEF Below
      <4>2. /\ IsFiniteSet(S \ Below(S, m))
            /\ Cardinality(S \ Below(S, m)) = Cardinality(S) - Cardinality(S \intersect Below(S, m))
        BY <1>2, <4>1, FS_Difference
      <4>3. Cardinality(S \ Below(S, m)) = n - (n - Keep)
        BY <3>2, <4>1, <4>2 DEF n
      <4> QED
        BY <1>3, <1>4, <4>2, <4>3
    <3> QED
      BY <3>4, <3>5, FS_Subset
  <2> QED
    BY <1>3, <1>4, <2>1, <2>2
<1> QED
  BY <1>5, <1>7, <1>8 DEF S

\* Every file of what is pruned is removed, and nothing else.
LEMMA RemovalsAre ==
  ASSUME NEW stems \in Seq(Stems)
  PROVE  /\ Removals(stems) \in Seq(Calls)
         /\ \A k \in 1..Len(Removals(stems)) :
              \E s \in Range(stems), e \in Exts :
                Removals(stems)[k] = Call("remove", {<<s, e>>})
         /\ \A s \in Range(stems), e \in Exts :
              \E k \in 1..Len(Removals(stems)) : Removals(stems)[k] = Call("remove", {<<s, e>>})
<1> DEFINE n == Len(stems)
           one(k) == Call("remove", {<<stems[((k - 1) \div 4) + 1],
                                       RemovalOrder[((k - 1) % 4) + 1]>>})
<1>1. n \in Nat /\ Len(RemovalOrder) = 4 /\ RemovalOrder \in [1..4 -> Exts]
  BY DEF RemovalOrder, Exts
<1>2. Removals(stems) = [k \in 1..(n * 4) |-> one(k)]
  BY <1>1 DEF Removals
<1>3. ASSUME NEW k \in 1..(n * 4)
      PROVE  /\ ((k - 1) \div 4) + 1 \in 1..n /\ ((k - 1) % 4) + 1 \in 1..4
             /\ stems[((k - 1) \div 4) + 1] \in Range(stems)
             /\ RemovalOrder[((k - 1) % 4) + 1] \in Exts
  <2>1. ((k - 1) \div 4) + 1 \in 1..n /\ ((k - 1) % 4) + 1 \in 1..4
    BY <1>1
  <2>2. stems[((k - 1) \div 4) + 1] \in Range(stems)
    BY <2>1 DEF Range
  <2> QED
    BY <1>1, <2>1, <2>2
<1>4. Range(stems) \subseteq Stems
  BY DEF Range
<1>5. \A k \in 1..(n * 4) : one(k) \in Calls
  BY <1>3, <1>4 DEF Call, Calls, Dos, Names
<1> HIDE DEF one
<1>6. Removals(stems) \in Seq(Calls) /\ Len(Removals(stems)) = n * 4
  <2>1. n * 4 \in Nat
    BY <1>1
  <2> QED
    BY <1>2, <1>5, <2>1
<1>7. \A k \in 1..Len(Removals(stems)) :
        \E s \in Range(stems), e \in Exts : Removals(stems)[k] = Call("remove", {<<s, e>>})
  BY <1>2, <1>3, <1>6 DEF one
<1>8. ASSUME NEW s \in Range(stems), NEW e \in Exts
      PROVE  \E k \in 1..Len(Removals(stems)) : Removals(stems)[k] = Call("remove", {<<s, e>>})
  <2>1. PICK i \in 1..n : s = stems[i]
    BY DEF Range
  <2>2. PICK j \in 1..4 : e = RemovalOrder[j]
    BY DEF RemovalOrder, Exts
  <2> DEFINE k == 4 * (i - 1) + j
  <2>3. k \in 1..(n * 4) /\ (k - 1) \div 4 = i - 1 /\ (k - 1) % 4 = j - 1
    BY <1>1
  <2>4. one(k) = Call("remove", {<<s, e>>})
    <3>1. i - 1 + 1 = i /\ j - 1 + 1 = j
      OBVIOUS
    <3> HIDE DEF k
    <3> QED
      BY <2>1, <2>2, <2>3, <3>1 DEF one
  <2> QED
    BY <1>2, <1>6, <2>3, <2>4
<1> QED
  BY <1>6, <1>7, <1>8

-----------------------------------------------------------------------------
(***************************************************************************)
(* What the calls are, and what one of them does.                          *)
(***************************************************************************)
LEMMA PlanIs ==
  ASSUME NEW s
  PROVE  /\ Len(Plan(s)) = 13
         /\ Plan(s)[1] = Write(s, {"msg"})
         /\ Plan(s)[2] = Sync(s, "msg")
         /\ Plan(s)[3] = Write(s, {"attest", "sig"})
         /\ Plan(s)[4] = Open(s, "attest")
         /\ Plan(s)[5] = Open(s, "sig")
         /\ Plan(s)[6] = Write(s, {"tag"})
         /\ Plan(s)[7] = Sync(s, "tag")
         /\ Plan(s)[8] = Rename(s, "msg")
         /\ Plan(s)[9] = Rename(s, "attest")
         /\ Plan(s)[10] = Rename(s, "sig")
         /\ Plan(s)[11] = SyncDir
         /\ Plan(s)[12] = Rename(s, "tag")
         /\ Plan(s)[13] = SyncDir
  BY DEF Plan, Staging

LEMMA PlanType ==
  ASSUME NEW s \in Stems
  PROVE  Plan(s) \in Seq(Calls)
<1>1. Staging(s) \in Seq(Calls)
  BY DEF Staging, Write, Open, Sync, Call, Calls, Dos, Names, Exts
<1> QED
  BY <1>1 DEF Plan, Rename, SyncDir, Call, Calls, Dos, Names, Exts

LEMMA LogPlanType == LogPlan \in Seq(Calls) /\ Len(LogPlan) = 4
  BY DEF LogPlan, SyncDir, Call, Calls, Dos, Names

LEMMA AfterIs ==
  ASSUME NEW state
  PROVE  /\ After("write", state) = "new"
         /\ After("sync", state) = IF state = "new" THEN "part" ELSE state
         /\ After("open", state) = IF state = "new" THEN "part" ELSE state
         /\ After("rename", state) = IF state = "part" THEN "final"
                                     ELSE IF state = "new" THEN "unsafe" ELSE state
         /\ After("remove", state) = IF state \in {"unsafe", "final"} THEN "none" ELSE state
<1>1. After("write", state) = "new"
  BY DEF After
<1>2. After("sync", state) = IF state = "new" THEN "part" ELSE state
  BY DEF After
<1>3. After("open", state) = IF state = "new" THEN "part" ELSE state
  BY DEF After
<1>4. After("rename", state) = IF state = "part" THEN "final"
                              ELSE IF state = "new" THEN "unsafe" ELSE state
  BY DEF After
<1>5. After("remove", state) = IF state \in {"unsafe", "final"} THEN "none" ELSE state
  BY DEF After
<1> QED
  BY <1>1, <1>2, <1>3, <1>4, <1>5

LEMMA AfterType ==
  ASSUME NEW do, NEW state \in FileStates
  PROVE  After(do, state) \in FileStates
  BY DEF After, FileStates

\* The call an agent makes, and what it leaves to do.
LEMMA CallMade ==
  ASSUME TypeOK, NEW p \in Agents, MakeCall(p)
  PROVE  /\ todo[p] \in Seq(Calls) /\ Len(todo[p]) >= 1 /\ todo[p][1] \in Calls
         /\ todo'[p] \in Seq(Calls) /\ Len(todo'[p]) = Len(todo[p]) - 1
         /\ \A i \in 1..Len(todo'[p]) : todo'[p][i] = todo[p][i + 1]
         /\ \A q \in Agents \ {p} : todo'[q] = todo[q]
         /\ todo' \in [Agents -> Seq(Calls)]
         /\ ~Missing(todo[p][1])
         /\ dir' \in [Names -> FileStates]
         /\ \A n \in Names :
              dir'[n] = IF n \in todo[p][1].names THEN After(todo[p][1].do, dir[n])
                        ELSE dir[n]
         /\ durable' = IF todo[p][1].do = "syncdir" THEN dir ELSE durable
<1>1. todo[p] \in Seq(Calls) /\ todo[p] # <<>>
  BY DEF TypeOK, MakeCall
<1>2. Head(todo[p]) = todo[p][1] /\ todo[p][1] \in Calls /\ Len(todo[p]) >= 1
  BY <1>1
<1>3. /\ todo'[p] = Tail(todo[p]) /\ \A q \in Agents \ {p} : todo'[q] = todo[q]
      /\ DOMAIN todo' = Agents
  BY DEF TypeOK, MakeCall
<1>4. /\ Tail(todo[p]) \in Seq(Calls) /\ Len(Tail(todo[p])) = Len(todo[p]) - 1
      /\ \A i \in 1..Len(Tail(todo[p])) : Tail(todo[p])[i] = todo[p][i + 1]
  BY <1>1
<1>5. todo' \in [Agents -> Seq(Calls)]
  BY <1>3, <1>4 DEF TypeOK, MakeCall
<1>6. /\ ~Missing(todo[p][1])
      /\ dir' = [n \in Names |-> IF n \in todo[p][1].names
                                 THEN After(todo[p][1].do, dir[n]) ELSE dir[n]]
      /\ durable' = IF todo[p][1].do = "syncdir" THEN dir ELSE durable
  BY <1>2 DEF MakeCall
<1>7. dir' \in [Names -> FileStates]
  BY <1>6, AfterType DEF TypeOK
<1> QED
  BY <1>1, <1>2, <1>3, <1>4, <1>5, <1>6, <1>7

\* One file of an envelope: the call at which it is written, the one that
\* syncs it and the one that renames it are told by how many are still to make.
FileCall(n, name, write, do, sync, rename) ==
  /\ n = write  => dir'[name] = "new"
  /\ n = sync   => dir'[name] = After(do, dir[name])
  /\ n = rename => IsPart(name) /\ dir'[name] = After("rename", dir[name])
  /\ n \notin {write, sync, rename} => dir'[name] = dir[name]

\* The call an agent makes of an envelope it publishes, name by name.
LEMMA PublishCall ==
  ASSUME TypeOK, Stages, NEW p \in Agents, MakeCall(p), pc[p] = "publish",
         NEW s \in Stems, stem[p] = s, NEW n \in Int, Len(todo[p]) = n
  PROVE  /\ n \in 1..13
         /\ \A m \in Names : m \notin Of(s) => dir'[m] = dir[m]
         /\ FileCall(n, <<s, "msg">>, 13, "sync", 12, 6)
         /\ FileCall(n, <<s, "attest">>, 11, "open", 10, 5)
         /\ FileCall(n, <<s, "sig">>, 11, "open", 9, 4)
         /\ FileCall(n, <<s, "tag">>, 8, "sync", 7, 2)
         /\ durable' = IF n \in {3, 1} THEN dir ELSE durable
<1> DEFINE call == todo[p][1]
<1>0. n \in Nat /\ n >= 1
  BY CallMade
<1>1. s \in Stems /\ n \in 1..13 /\ call = Plan(s)[14 - n]
  <2>1. s \in Stems /\ n <= 13 /\ \A i \in 1..n : todo[p][i] = Plan(s)[i + 13 - n]
    BY DEF Stages
  <2>2. todo[p][1] = Plan(s)[1 + 13 - n]
    BY <1>0, <2>1
  <2>3. 1 + 13 - n = 14 - n
    BY <1>0
  <2> QED
    BY <1>0, <2>1, <2>2, <2>3
<1>2. /\ \A e \in Exts : <<s, e>> \in Names
      /\ \A m \in Names : dir'[m] = IF m \in call.names THEN After(call.do, dir[m]) ELSE dir[m]
      /\ durable' = IF call.do = "syncdir" THEN dir ELSE durable
      /\ call.do \in {"open", "rename"} => \A m \in call.names : IsPart(m)
  BY <1>1, CallMade DEF Names, Missing
<1> HIDE DEF call
<1>4. /\ n = 13 => call = Write(s, {"msg"})
      /\ n = 12 => call = Sync(s, "msg")
      /\ n = 11 => call = Write(s, {"attest", "sig"})
      /\ n = 10 => call = Open(s, "attest")
      /\ n = 9 => call = Open(s, "sig")
      /\ n = 8 => call = Write(s, {"tag"})
      /\ n = 7 => call = Sync(s, "tag")
      /\ n = 6 => call = Rename(s, "msg")
      /\ n = 5 => call = Rename(s, "attest")
      /\ n = 4 => call = Rename(s, "sig")
      /\ n = 2 => call = Rename(s, "tag")
      /\ n \in {3, 1} => call = SyncDir
  <2>1. /\ n = 13 => call = Plan(s)[1]
        /\ n = 12 => call = Plan(s)[2]
        /\ n = 11 => call = Plan(s)[3]
        /\ n = 10 => call = Plan(s)[4]
        /\ n = 9 => call = Plan(s)[5]
        /\ n = 8 => call = Plan(s)[6]
        /\ n = 7 => call = Plan(s)[7]
    BY <1>1
  <2>2. /\ n = 6 => call = Plan(s)[8]
        /\ n = 5 => call = Plan(s)[9]
        /\ n = 4 => call = Plan(s)[10]
        /\ n = 3 => call = Plan(s)[11]
        /\ n = 2 => call = Plan(s)[12]
        /\ n = 1 => call = Plan(s)[13]
    BY <1>1
  <2> QED
    BY <2>1, <2>2, PlanIs
<1> USE DEF Write, Sync, Open, Rename, SyncDir, Call, Exts
<1>3. /\ \A m \in call.names : m \in Of(s)
      /\ call.do = "syncdir" <=> n \in {3, 1}
  BY <1>1, <1>4 DEF Of
<1>5. \A m \in Names : m \notin Of(s) => dir'[m] = dir[m]
  BY <1>2, <1>3
<1>6. FileCall(n, <<s, "msg">>, 13, "sync", 12, 6)
  BY <1>1, <1>2, <1>4, AfterIs DEF FileCall
<1>7. FileCall(n, <<s, "attest">>, 11, "open", 10, 5)
  BY <1>1, <1>2, <1>4, AfterIs DEF FileCall
<1>8. FileCall(n, <<s, "sig">>, 11, "open", 9, 4)
  BY <1>1, <1>2, <1>4, AfterIs DEF FileCall
<1>9. FileCall(n, <<s, "tag">>, 8, "sync", 7, 2)
  BY <1>1, <1>2, <1>4, AfterIs DEF FileCall
<1> QED
  BY <1>1, <1>2, <1>3, <1>5, <1>6, <1>7, <1>8, <1>9

\* The rest of the directory is as it was.
LEMMA PublishFrame ==
  ASSUME TypeOK, Stages, NEW p \in Agents, MakeCall(p), pc[p] = "publish"
  PROVE  /\ stem[p] \in Stems
         /\ \A m \in Names : m \notin Of(stem[p]) => dir'[m] = dir[m]
         /\ durable' \in {dir, durable}
<1>1. stem[p] \in Stems
  BY DEF Stages
<1>2. PICK s \in Stems : stem[p] = s
  BY <1>1
<1>3. PICK n \in Int : Len(todo[p]) = n
  BY CallMade
<1>4. \A m \in Names : m \notin Of(s) => dir'[m] = dir[m]
  BY <1>2, <1>3, PublishCall
<1>5. durable' = IF n \in {3, 1} THEN dir ELSE durable
  BY <1>2, <1>3, PublishCall
<1> QED
  BY <1>1, <1>2, <1>4, <1>5

\* The call the agent makes of the boot event log.
LEMMA SaveCall ==
  ASSUME TypeOK, Stages, NEW p \in Agents, MakeCall(p), pc[p] = "save",
         NEW n \in Int, Len(todo[p]) = n
  PROVE  /\ p = "run" /\ n \in 1..4
         /\ \A m \in Names : m # Log => dir'[m] = dir[m]
         /\ n = 4 => dir'[Log] = "new"
         /\ n = 3 => dir'[Log] = After("sync", dir[Log])
         /\ n = 2 => dir'[Log] = After("rename", dir[Log])
         /\ n = 1 => dir'[Log] = dir[Log]
         /\ durable' = IF n = 1 THEN dir ELSE durable
<1> DEFINE call == todo[p][1]
<1>1. p = "run" /\ n \in 1..4 /\ call = LogPlan[1 + 4 - n]
  <2>1. p = "run" /\ n >= 1 /\ n <= 4
    BY CallMade DEF Stages, Agents
  <2>2. \A i \in 1..n : todo[p][i] = LogPlan[i + 4 - n]
    BY <2>1 DEF Stages
  <2> QED
    BY <2>1, <2>2
<1>2. /\ Log \in Names
      /\ \A m \in Names : dir'[m] = IF m \in call.names THEN After(call.do, dir[m]) ELSE dir[m]
      /\ durable' = IF call.do = "syncdir" THEN dir ELSE durable
  BY CallMade DEF Names
<1> HIDE DEF call
<1>3. /\ n = 4 => call = Call("write", {Log})
      /\ n = 3 => call = Call("sync", {Log})
      /\ n = 2 => call = Call("rename", {Log})
      /\ n = 1 => call = SyncDir
  <2>1. /\ n = 4 => call = LogPlan[1]
        /\ n = 3 => call = LogPlan[2]
        /\ n = 2 => call = LogPlan[3]
        /\ n = 1 => call = LogPlan[4]
    BY <1>1
  <2> QED
    BY <2>1 DEF LogPlan
<1>4. /\ \A m \in Names : m # Log => dir'[m] = dir[m]
      /\ n = 4 => dir'[Log] = After("write", dir[Log])
      /\ n = 3 => dir'[Log] = After("sync", dir[Log])
      /\ n = 2 => dir'[Log] = After("rename", dir[Log])
      /\ n = 1 => dir'[Log] = dir[Log]
      /\ durable' = IF n = 1 THEN dir ELSE durable
  BY <1>1, <1>2, <1>3 DEF Call, SyncDir
<1> QED
  BY <1>1, <1>4, AfterIs

\* The pruner removes one file of a doomed envelope.
LEMMA PruneCall ==
  ASSUME TypeOK, Stages, NEW p \in Agents, MakeCall(p), pc[p] = "prune"
  PROVE  /\ p = "run" /\ durable' = durable
         /\ \E s \in doomed, e \in Exts :
              /\ todo[p][1].names = {<<s, e>>}
              /\ dir'[<<s, e>>] = After("remove", dir[<<s, e>>])
              /\ \A m \in Names : m # <<s, e>> => dir'[m] = dir[m]
<1>1. p = "run"
  BY DEF Stages, Agents
<1>2. PICK s \in doomed, e \in Exts : todo[p][1] = Call("remove", {<<s, e>>})
  <2>1. Len(todo[p]) \in Nat /\ Len(todo[p]) >= 1
    BY CallMade, LenProperties
  <2>2. 1 \in 1..Len(todo[p])
    BY <2>1
  <2> QED
    BY <1>1, <2>2 DEF Stages
<1>3. /\ todo[p][1].do = "remove" /\ todo[p][1].names = {<<s, e>>}
      /\ <<s, e>> \in Names
  BY <1>2 DEF Call, Names, TypeOK
<1>4. /\ \A m \in Names : dir'[m] = IF m \in todo[p][1].names
                                    THEN After(todo[p][1].do, dir[m]) ELSE dir[m]
      /\ durable' = IF todo[p][1].do = "syncdir" THEN dir ELSE durable
  BY CallMade
<1>5. durable' = durable
  BY <1>3, <1>4
<1>6. dir'[<<s, e>>] = After("remove", dir[<<s, e>>])
  BY <1>3, <1>4
<1>7. \A m \in Names : m # <<s, e>> => dir'[m] = dir[m]
  BY <1>3, <1>4
<1> QED
  BY <1>1, <1>3, <1>5, <1>6, <1>7

-----------------------------------------------------------------------------
(***************************************************************************)
(* The first layer: the types, the stages, and that nothing stands under   *)
(* the name of a counter no one took.                                      *)
(***************************************************************************)
Base == TypeOK /\ Stages /\ Fresh

LEMMA BaseCall ==
  ASSUME Base, NEW p \in Agents, MakeCall(p)
  PROVE  Base'
<1> USE DEF Base
<1>1. /\ UNCHANGED <<pc, stem, taken, done, doomed, late, left>>
      /\ pc[p] \in {"save", "publish", "prune"}
  BY DEF MakeCall, history
<1>2. PICK n \in Nat : n >= 1 /\ Len(todo[p]) = n /\ Len(todo'[p]) = n - 1
  <2>1. Len(todo[p]) \in Nat
    BY CallMade, LenProperties
  <2> QED
    BY <2>1, CallMade
<1>3. TypeOK'
  BY <1>1, CallMade DEF TypeOK
<1>4. Stages'
  <2>0. \A q \in Agents : q # p => todo'[q] = todo[q]
    BY CallMade
  <2>1. \A i \in 1..(n - 1) : todo'[p][i] = todo[p][i + 1]
    BY <1>2, CallMade
  <2>2. ASSUME NEW q \in Agents, pc[q] = "publish"
        PROVE  /\ Len(todo'[q]) <= 13
               /\ \A i \in 1..Len(todo'[q]) : todo'[q][i] = Plan(stem[q])[i + 13 - Len(todo'[q])]
    <3>1. CASE q # p
      <4>1. todo'[q] = todo[q]
        BY <2>0, <3>1
      <4>2. /\ Len(todo[q]) <= 13
            /\ \A i \in 1..Len(todo[q]) : todo[q][i] = Plan(stem[q])[i + 13 - Len(todo[q])]
        BY <2>2 DEF Stages
      <4> QED
        BY <4>1, <4>2
    <3>2. CASE q = p
      <4>1. n <= 13 /\ \A i \in 1..n : todo[p][i] = Plan(stem[p])[i + 13 - n]
        BY <1>2, <2>2, <3>2 DEF Stages
      <4>2. PICK m \in Nat : m = n - 1 /\ Len(todo'[p]) = m
        BY <1>2
      <4>3. ASSUME NEW i \in 1..m
            PROVE  todo'[p][i] = Plan(stem[p])[i + 13 - m]
        <5>1. i \in 1..(n - 1) /\ i + 1 \in 1..n /\ i + 1 + 13 - n = i + 13 - m
          BY <1>2, <4>2
        <5>2. todo'[p][i] = todo[p][i + 1]
          BY <2>1, <5>1
        <5>3. todo[p][i + 1] = Plan(stem[p])[i + 1 + 13 - n]
          BY <4>1, <5>1
        <5> QED
          BY <5>1, <5>2, <5>3
      <4>4. m <= 13
        BY <1>2, <4>1, <4>2
      <4> QED
        BY <3>2, <4>2, <4>3, <4>4
    <3> QED
      BY <3>1, <3>2
  <2>3. ASSUME pc["run"] = "save"
        PROVE  /\ Len(todo'["run"]) <= 4
               /\ \A i \in 1..Len(todo'["run"]) :
                    todo'["run"][i] = LogPlan[i + 4 - Len(todo'["run"])]
    <3>1. CASE p # "run"
      BY <2>0, <2>3, <3>1 DEF Stages, Agents
    <3>2. CASE p = "run"
      <4>1. n <= 4 /\ \A i \in 1..n : todo[p][i] = LogPlan[i + 4 - n]
        BY <1>2, <2>3, <3>2 DEF Stages
      <4>2. PICK m \in Nat : m = n - 1 /\ Len(todo'[p]) = m
        BY <1>2
      <4>3. ASSUME NEW i \in 1..m
            PROVE  todo'[p][i] = LogPlan[i + 4 - m]
        <5>1. i \in 1..(n - 1) /\ i + 1 \in 1..n /\ i + 1 + 4 - n = i + 4 - m
          BY <1>2, <4>2
        <5>2. todo'[p][i] = todo[p][i + 1]
          BY <2>1, <5>1
        <5>3. todo[p][i + 1] = LogPlan[i + 1 + 4 - n]
          BY <4>1, <5>1
        <5> QED
          BY <5>1, <5>2, <5>3
      <4>4. m <= 4
        BY <1>2, <4>1, <4>2
      <4> QED
        BY <3>2, <4>2, <4>3, <4>4
    <3> QED
      BY <3>1, <3>2
  <2>4. ASSUME pc["run"] = "prune", NEW i \in 1..Len(todo'["run"])
        PROVE  \E s \in doomed, e \in Exts : todo'["run"][i] = Call("remove", {<<s, e>>})
    <3>1. CASE p # "run"
      <4>1. todo'["run"] = todo["run"]
        BY <2>0, <3>1 DEF Agents
      <4>2. \A j \in 1..Len(todo["run"]) :
              \E s \in doomed, e \in Exts : todo["run"][j] = Call("remove", {<<s, e>>})
        BY <2>4 DEF Stages
      <4> QED
        BY <2>4, <4>1, <4>2
    <3>2. CASE p = "run"
      <4>1. \A j \in 1..n : \E s \in doomed, e \in Exts : todo[p][j] = Call("remove", {<<s, e>>})
        BY <1>2, <2>4, <3>2 DEF Stages
      <4>2. i \in 1..(n - 1) /\ i + 1 \in 1..n
        BY <1>2, <2>4, <3>2
      <4> QED
        BY <2>1, <3>2, <4>1, <4>2
    <3> QED
      BY <3>1, <3>2
  <2>5. \A q \in Agents : pc[q] = "clear" => todo'[q] = todo[q]
    BY <1>1, CallMade
  <2> QED
    BY <1>1, <2>2, <2>3, <2>4, <2>5 DEF Stages
<1>5. Fresh'
  <2> USE DEF Shown, Safe, IsFinal
  <2> SUFFICES ASSUME NEW s \in Stems \ taken, NEW e \in Exts
               PROVE  ~Shown(s, e)' /\ ~Safe(s, e)'
    BY <1>1 DEF Fresh
  <2>1. <<s, e>> \in Names /\ <<s, e>> # Log
    BY LogAssumption DEF Names
  <2>2. ~Shown(s, e) /\ ~Safe(s, e)
    BY DEF Fresh
  <2>3. CASE pc[p] = "publish"
    <3>1. stem[p] \in taken
      BY <2>3, AuditAssumption DEF Stages, Stems
    <3>2. <<s, e>> \notin Of(stem[p])
      BY <3>1 DEF Of
    <3>3. dir'[<<s, e>>] = dir[<<s, e>>] /\ durable' \in {dir, durable}
      BY <2>1, <2>3, <3>2, PublishFrame
    <3> QED
      BY <2>2, <3>3
  <2>4. CASE pc[p] = "save"
    BY <1>2, <2>1, <2>2, <2>4, SaveCall
  <2>5. CASE pc[p] = "prune"
    <3>1. PICK t \in doomed, x \in Exts : \A m \in Names : m # <<t, x>> => dir'[m] = dir[m]
      BY <2>5, PruneCall
    <3>2. s # t
      BY DEF TypeOK
    <3> QED
      BY <2>1, <2>2, <2>5, <3>1, <3>2, PruneCall
  <2> QED
    BY <1>1, <2>3, <2>4, <2>5
<1> QED
  BY <1>3, <1>4, <1>5

\* A step in which an agent goes from one stage to another.
Stage(p) ==
  \/ Start(p) \/ ListPartials(p) \/ RemovePartial(p) \/ TakeCounter(p)
  \/ StagingFails(p) \/ RenameFails(p) \/ PublishDone(p) \/ Stop(p)
  \/ p = "run" /\ (SaveLog \/ SaveEnds \/ Scan \/ PruneDone \/ NextCycle)

LEMMA NextIs ==
  Next <=> PowerCut \/ \E p \in Agents : Stage(p) \/ MakeCall(p)
  BY DEF Next, Stage, Agents

\* All it does to the files is to remove some that are .part files.
LEMMA StageRemoves ==
  ASSUME TypeOK, NEW p \in Agents, Stage(p)
  PROVE  /\ durable' = durable
         /\ dir' \in [Names -> FileStates]
         /\ \A n \in Names : dir'[n] = dir[n] \/ (IsPart(n) /\ dir'[n] = "none")
<1> USE DEF TypeOK
<1>1. ASSUME NEW names \in SUBSET Names, Put(names, "none"), \A n \in names : IsPart(n)
      PROVE  /\ dir' \in [Names -> FileStates]
             /\ \A n \in Names : dir'[n] = dir[n] \/ (IsPart(n) /\ dir'[n] = "none")
  BY <1>1 DEF Put, FileStates
<1>2. CASE RemovePartial(p)
  <2>1. PICK n \in Head(todo[p]).names :
          IF IsPart(n) THEN Put({n}, "none") ELSE UNCHANGED dir
    BY <1>2 DEF RemovePartial
  <2>2. CASE IsPart(n)
    BY <1>2, <2>1, <2>2 DEF Put, FileStates, RemovePartial
  <2>3. CASE ~IsPart(n)
    BY <1>2, <2>1, <2>3 DEF RemovePartial
  <2> QED
    BY <2>2, <2>3
<1>3. CASE StagingFails(p)
  <2>1. Put({n \in Of(stem[p]) : IsPart(n)}, "none") /\ durable' = durable
    BY <1>3 DEF StagingFails, Unstage
  <2> QED
    BY <2>1 DEF Put, FileStates
<1>4. CASE SaveLog
  BY <1>4, <1>1 DEF SaveLog, Names
<1>5. CASE Start(p) \/ ListPartials(p) \/ TakeCounter(p) \/ RenameFails(p) \/ PublishDone(p)
           \/ Stop(p) \/ SaveEnds \/ Scan \/ PruneDone \/ NextCycle
  BY <1>5 DEF Start, ListPartials, TakeCounter, RenameFails, PublishDone, Stop, SaveEnds,
     Scan, PruneDone, NextCycle
<1> QED
  BY <1>2, <1>3, <1>4, <1>5 DEF Stage

LEMMA EnterIs ==
  ASSUME TypeOK, NEW p \in Agents, NEW label \in Labels, NEW calls \in Seq(Calls),
         Enter(p, label, calls)
  PROVE  /\ pc' \in [Agents -> Labels] /\ todo' \in [Agents -> Seq(Calls)]
         /\ pc'[p] = label /\ todo'[p] = calls
         /\ \A q \in Agents \ {p} : pc'[q] = pc[q] /\ todo'[q] = todo[q]
  BY DEF TypeOK, Enter

LEMMA ExitIs ==
  ASSUME TypeOK, NEW p \in Agents, Exit(p)
  PROVE  /\ pc' \in [Agents -> Labels] /\ todo' \in [Agents -> Seq(Calls)]
         /\ stem' \in [Agents -> Stems \union {0}]
         /\ pc'[p] = "off" /\ todo'[p] = <<>> /\ stem'[p] = 0
         /\ \A q \in Agents \ {p} : pc'[q] = pc[q] /\ todo'[q] = todo[q] /\ stem'[q] = stem[q]
<1>1. "off" \in Labels /\ <<>> \in Seq(Calls) /\ Enter(p, "off", <<>>)
  BY DEF Labels, Exit
<1>2. /\ stem' \in [Agents -> Stems \union {0}] /\ stem'[p] = 0
      /\ \A q \in Agents \ {p} : stem'[q] = stem[q]
  BY DEF TypeOK, Exit
<1> QED
  BY <1>1, <1>2, EnterIs

LEMMA FreshStage ==
  ASSUME Base, NEW p \in Agents, Stage(p), taken \subseteq taken'
  PROVE  Fresh'
<1> SUFFICES ASSUME NEW s \in Stems \ taken, NEW e \in Exts
             PROVE  ~Shown(s, e)' /\ ~Safe(s, e)'
  BY DEF Fresh
<1>1. <<s, e>> \in Names
  BY DEF Names
<1>2. ~Shown(s, e) /\ ~Safe(s, e)
  BY DEF Base, Fresh
<1>3. durable' = durable /\ (dir'[<<s, e>>] = dir[<<s, e>>] \/ dir'[<<s, e>>] = "none")
  BY <1>1, StageRemoves DEF Base
<1> QED
  BY <1>2, <1>3 DEF Shown, Safe, IsFinal

\* What the pruner finds was published by someone.
LEMMA PublishedTaken ==
  ASSUME Base
  PROVE  /\ Published \subseteq taken
         /\ Range(ToPrune) \subseteq Published /\ ToPrune \in Seq(Stems)
<1>1. Published \subseteq taken /\ Published \subseteq Stems
  BY DEF Base, Fresh, Shown, Published, Finals
<1>2. ToPrune \in Seq(Published)
  BY ToPruneIs
<1>3. Range(ToPrune) \subseteq Published
  BY <1>2 DEF Range
<1> QED
  BY <1>1, <1>2, <1>3

\* An agent that does not move keeps what it has to do.
LEMMA SameStage ==
  ASSUME Base, NEW q \in Agents,
         pc'[q] = pc[q], todo'[q] = todo[q], stem'[q] = stem[q]
  PROVE  /\ pc'[q] = "clear" => Len(todo'[q]) = 1
         /\ pc'[q] = "publish" =>
              /\ stem'[q] \in Stems
              /\ Len(todo'[q]) <= 13
              /\ \A i \in 1..Len(todo'[q]) :
                   todo'[q][i] = Plan(stem'[q])[i + 13 - Len(todo'[q])]
<1>1. /\ pc[q] = "clear" => Len(todo[q]) = 1
      /\ pc[q] = "publish" =>
           /\ stem[q] \in Stems
           /\ Len(todo[q]) <= 13
           /\ \A i \in 1..Len(todo[q]) :
                todo[q][i] = Plan(stem[q])[i + 13 - Len(todo[q])]
  BY DEF Base, Stages
<1> QED
  BY <1>1

\* A stage that asks nothing of what is still to do, but that a listing is
\* one call.
LEMMA PlainStage ==
  ASSUME Base, NEW p \in Agents, taken' = taken, doomed' = doomed,
         \A q \in Agents \ {p} : pc'[q] = pc[q] /\ todo'[q] = todo[q] /\ stem'[q] = stem[q],
         stem'[p] \in {stem[p], 0},
         pc'[p] \in {"off", "log", "begin", "clear", "scan", "sleep"},
         p = "attest" => pc'[p] \in {"off", "begin", "clear"},
         pc'[p] = "clear" => Len(todo'[p]) = 1
  PROVE  Stages'
<1> USE DEF Base
<1>1. /\ \A q \in Agents : stem'[q] # 0 => stem'[q] \in taken
      /\ stem'["run"] = stem'["attest"] => stem'["run"] = 0
      /\ pc'["attest"] \notin {"log", "save", "scan", "prune", "sleep"}
  BY DEF Stages, Agents
<1>2. ASSUME NEW q \in Agents
      PROVE  /\ pc'[q] = "clear" => Len(todo'[q]) = 1
             /\ pc'[q] = "publish" =>
                  /\ stem'[q] \in Stems
                  /\ Len(todo'[q]) <= 13
                  /\ \A i \in 1..Len(todo'[q]) :
                       todo'[q][i] = Plan(stem'[q])[i + 13 - Len(todo'[q])]
  <2>1. CASE q = p
    BY <2>1
  <2>2. CASE q # p
    <3>1. pc'[q] = pc[q] /\ todo'[q] = todo[q] /\ stem'[q] = stem[q]
      BY <2>2
    <3> QED
      BY <3>1, SameStage
  <2> QED
    BY <2>1, <2>2
<1>3. /\ pc'["run"] = "save" => pc["run"] = "save" /\ todo'["run"] = todo["run"]
      /\ pc'["run"] = "prune" => pc["run"] = "prune" /\ todo'["run"] = todo["run"]
  BY DEF Agents
<1>4. pc'["run"] = "save" =>
        /\ Len(todo'["run"]) <= 4
        /\ \A i \in 1..Len(todo'["run"]) :
             todo'["run"][i] = LogPlan[i + 4 - Len(todo'["run"])]
  BY <1>3 DEF Stages
<1>5. pc'["run"] = "prune" =>
        \A i \in 1..Len(todo'["run"]) :
          \E s \in doomed', e \in Exts : todo'["run"][i] = Call("remove", {<<s, e>>})
  <2> SUFFICES ASSUME pc'["run"] = "prune", NEW i \in 1..Len(todo'["run"])
               PROVE  \E s \in doomed', e \in Exts :
                        todo'["run"][i] = Call("remove", {<<s, e>>})
    OBVIOUS
  <2>1. pc["run"] = "prune" /\ todo'["run"] = todo["run"] /\ i \in 1..Len(todo["run"])
    BY <1>3
  <2>2. PICK s \in doomed, e \in Exts : todo["run"][i] = Call("remove", {<<s, e>>})
    BY <2>1 DEF Stages
  <2> QED
    BY <2>1, <2>2
<1> QED
  BY <1>1, <1>2, <1>4, <1>5 DEF Stages

Left == [stems : Stems, cuts : Nat, ends : Nat, calls : Nat, log : {Log, NoLog}]

LEMMA SpendType ==
  ASSUME TypeOK, NEW what \in {"cuts", "ends", "calls"}, Spend(what)
  PROVE  left' \in Left
<1>1. left \in Left /\ left[what] > 0 /\ left' = [left EXCEPT ![what] = left[what] - 1]
  BY DEF TypeOK, Spend, Left
<1>2. CASE what = "cuts"
  BY <1>1, <1>2 DEF Left
<1>3. CASE what = "ends"
  BY <1>1, <1>3 DEF Left
<1>4. CASE what = "calls"
  BY <1>1, <1>4 DEF Left
<1> QED
  BY <1>2, <1>3, <1>4

LEMMA BaseEnter ==
  ASSUME Base, NEW p \in Agents, Stage(p),
         NEW label \in {"log", "begin", "clear", "scan", "sleep"},
         NEW calls \in Seq(Calls), Enter(p, label, calls),
         UNCHANGED <<stem, taken, doomed>>, done' \subseteq taken, late' \subseteq taken,
         left' \in Left,
         p = "attest" => label \in {"begin", "clear"},
         label = "clear" => Len(calls) = 1
  PROVE  Base'
<1>1. label \in Labels
  BY DEF Labels
<1>2. /\ pc' \in [Agents -> Labels] /\ todo' \in [Agents -> Seq(Calls)]
      /\ pc'[p] = label /\ todo'[p] = calls
      /\ \A q \in Agents \ {p} : pc'[q] = pc[q] /\ todo'[q] = todo[q]
  BY <1>1, EnterIs DEF Base
<1>3. TypeOK'
  BY <1>2, StageRemoves DEF Base, TypeOK, Left
<1>4. Stages'
  BY <1>2, PlainStage
<1> QED
  BY <1>3, <1>4, FreshStage DEF Base

LEMMA BaseExit ==
  ASSUME Base, NEW p \in Agents, Stage(p), Exit(p),
         UNCHANGED <<taken, doomed>>, done' \subseteq taken, late' \subseteq taken,
         left' \in Left
  PROVE  Base'
<1>1. /\ pc' \in [Agents -> Labels] /\ todo' \in [Agents -> Seq(Calls)]
      /\ stem' \in [Agents -> Stems \union {0}]
      /\ pc'[p] = "off" /\ todo'[p] = <<>> /\ stem'[p] = 0
      /\ \A q \in Agents \ {p} : pc'[q] = pc[q] /\ todo'[q] = todo[q] /\ stem'[q] = stem[q]
  BY ExitIs DEF Base
<1>2. TypeOK'
  BY <1>1, StageRemoves DEF Base, TypeOK, Left
<1>3. Stages'
  BY <1>1, PlainStage
<1> QED
  BY <1>2, <1>3, FreshStage DEF Base

LEMMA BaseStage ==
  ASSUME Base, NEW p \in Agents, Stage(p)
  PROVE  Base' /\ taken \subseteq taken'
<1> USE DEF history
<1>0. /\ <<>> \in Seq(Calls) /\ left \in Left
      /\ done \subseteq taken /\ late \subseteq taken /\ doomed \subseteq taken
      /\ taken \subseteq Stems
  BY DEF Base, TypeOK, Left
<1>1. CASE Start(p)
  BY <1>0, <1>1, BaseEnter, SpendType DEF Start, Base
<1>2. CASE ListPartials(p)
  <2>1. /\ Enter(p, "clear", <<Call("clear", Partials)>>)
        /\ UNCHANGED <<stem, taken, done, doomed, left>>
        /\ late' = IF p = "run" THEN Writing ELSE late
    BY <1>2 DEF ListPartials
  <2>2. Writing \subseteq taken
    BY DEF Base, Stages, Writing, Agents
  <2>3. /\ <<Call("clear", Partials)>> \in Seq(Calls)
        /\ Len(<<Call("clear", Partials)>>) = 1
    BY DEF Call, Calls, Dos, Partials, Names
  <2> QED
    BY <1>0, <2>1, <2>2, <2>3, BaseEnter
<1>3. CASE RemovePartial(p)
  <2>1. UNCHANGED <<taken, done, doomed, late, left>>
    BY <1>3 DEF RemovePartial
  <2>2. PICK n \in Head(todo[p]).names :
          \/ /\ Enter(p, "clear", <<Call("clear", Head(todo[p]).names \ {n})>>)
             /\ UNCHANGED stem
          \/ Exit(p)
    BY <1>3 DEF RemovePartial
  <2>3. Head(todo[p]).names \in SUBSET Names
    <3>1. Len(todo[p]) = 1 /\ todo[p] \in Seq(Calls)
      BY <1>3 DEF RemovePartial, Base, Stages, TypeOK
    <3>2. Head(todo[p]) \in Calls
      BY <3>1
    <3> QED
      BY <3>2 DEF Calls
  <2>4. /\ <<Call("clear", Head(todo[p]).names \ {n})>> \in Seq(Calls)
        /\ Len(<<Call("clear", Head(todo[p]).names \ {n})>>) = 1
    BY <2>3 DEF Call, Calls, Dos
  <2>5. CASE Exit(p)
    BY <1>0, <2>1, <2>5, BaseExit
  <2>6. CASE /\ Enter(p, "clear", <<Call("clear", Head(todo[p]).names \ {n})>>)
             /\ UNCHANGED stem
    BY <1>0, <2>1, <2>4, <2>6, BaseEnter
  <2> QED
    BY <2>1, <2>2, <2>5, <2>6
<1>4. CASE StagingFails(p)
  <2>1. left' \in Left
    BY <1>0, <1>4, SpendType DEF StagingFails, Base
  <2> QED
    BY <1>0, <1>4, <2>1, BaseExit DEF StagingFails, Unstage
<1>5. CASE RenameFails(p)
  BY <1>0, <1>5, BaseExit DEF RenameFails
<1>6. CASE PublishDone(p)
  <2>1. done' \subseteq taken
    <3>1. stem[p] \in Stems /\ done' = done \union {stem[p]}
      BY <1>6 DEF PublishDone, Base, Stages
    <3>2. stem[p] # 0
      BY <3>1 DEF Stems
    <3>3. stem[p] \in taken
      BY <3>2 DEF Base, Stages
    <3> QED
      BY <1>0, <3>1, <3>3
  <2>2. CASE p = "run"
    BY <1>0, <1>6, <2>1, <2>2, BaseEnter DEF PublishDone
  <2>3. CASE p # "run"
    BY <1>0, <1>6, <2>1, <2>3, BaseExit DEF PublishDone
  <2> QED
    BY <2>2, <2>3
<1>7. CASE Stop(p)
  BY <1>0, <1>7, BaseExit, SpendType DEF Stop, Base
<1>8. CASE p = "run" /\ (SaveEnds \/ NextCycle \/ PruneDone)
  BY <1>0, <1>8, BaseEnter DEF SaveEnds, NextCycle, PruneDone
<1>9. CASE TakeCounter(p)
  <2>1. PICK s \in (1..left.stems) \ taken :
          /\ stem' = [stem EXCEPT ![p] = s]
          /\ taken' = taken \union {s}
          /\ late' = IF p = "run" THEN late ELSE late \union {s}
          /\ Enter(p, "publish", Plan(s))
    BY <1>9 DEF TakeCounter
  <2>2. UNCHANGED <<done, doomed, left>>
    BY <1>9 DEF TakeCounter
  <2>3. s \in Stems /\ s \notin taken
    BY <1>0, AuditAssumption DEF Left, Stems
  <2>4. /\ pc' \in [Agents -> Labels] /\ todo' \in [Agents -> Seq(Calls)]
        /\ pc'[p] = "publish" /\ todo'[p] = Plan(s)
        /\ \A q \in Agents \ {p} : pc'[q] = pc[q] /\ todo'[q] = todo[q]
    BY <2>1, <2>3, PlanType, EnterIs DEF Base, Labels
  <2>5. /\ stem' \in [Agents -> Stems \union {0}] /\ stem'[p] = s
        /\ \A q \in Agents \ {p} : stem'[q] = stem[q]
    BY <2>1, <2>3 DEF Base, TypeOK
  <2>6. TypeOK'
    BY <1>0, <2>1, <2>2, <2>3, <2>4, <2>5, StageRemoves DEF Base, TypeOK
  <2>7. Stages'
    <3>1. /\ \A q \in Agents : stem'[q] # 0 => stem'[q] \in taken'
          /\ stem'["run"] = stem'["attest"] => stem'["run"] = 0
          /\ pc'["attest"] \notin {"log", "save", "scan", "prune", "sleep"}
      BY <2>1, <2>3, <2>4, <2>5 DEF Base, Stages, Agents
    <3>2. ASSUME NEW q \in Agents
          PROVE  /\ pc'[q] = "clear" => Len(todo'[q]) = 1
                 /\ pc'[q] = "publish" =>
                      /\ stem'[q] \in Stems
                      /\ Len(todo'[q]) <= 13
                      /\ \A i \in 1..Len(todo'[q]) :
                           todo'[q][i] = Plan(stem'[q])[i + 13 - Len(todo'[q])]
      <4>1. CASE q = p
        <5>1. Len(Plan(s)) = 13 /\ \A i \in 1..13 : i + 13 - 13 = i
          BY PlanIs
        <5>2. todo'[q] = Plan(s) /\ stem'[q] = s /\ pc'[q] = "publish"
          BY <2>4, <2>5, <4>1
        <5>3. Len(todo'[q]) = 13
          BY <5>1, <5>2
        <5>4. ASSUME NEW i \in 1..13 PROVE todo'[q][i] = Plan(stem'[q])[i + 13 - 13]
          <6>1. i + 13 - 13 = i
            BY <5>1
          <6> QED
            BY <5>2, <6>1
        <5>5. \A i \in 1..Len(todo'[q]) :
                todo'[q][i] = Plan(stem'[q])[i + 13 - Len(todo'[q])]
          BY <5>3, <5>4, Zenon
        <5> QED
          BY <2>3, <5>2, <5>3, <5>5
      <4>2. CASE q # p
        <5>1. pc'[q] = pc[q] /\ todo'[q] = todo[q] /\ stem'[q] = stem[q]
          BY <2>4, <2>5, <4>2
        <5> QED
          BY <5>1, SameStage
      <4> QED
        BY <4>1, <4>2
    <3>3. pc'["run"] \in {"save", "prune"} => pc'["run"] = pc["run"] /\ todo'["run"] = todo["run"]
      BY <2>4 DEF Agents
    <3>4. pc'["run"] = "save" =>
            /\ Len(todo'["run"]) <= 4
            /\ \A i \in 1..Len(todo'["run"]) :
                 todo'["run"][i] = LogPlan[i + 4 - Len(todo'["run"])]
      BY <3>3 DEF Base, Stages
    <3>5. ASSUME pc'["run"] = "prune", NEW i \in 1..Len(todo'["run"])
          PROVE  \E u \in doomed', e \in Exts : todo'["run"][i] = Call("remove", {<<u, e>>})
      <4>1. pc["run"] = "prune" /\ todo'["run"] = todo["run"] /\ i \in 1..Len(todo["run"])
        BY <3>3, <3>5
      <4>2. PICK u \in doomed, e \in Exts : todo["run"][i] = Call("remove", {<<u, e>>})
        BY <4>1 DEF Base, Stages
      <4> QED
        BY <2>2, <4>1, <4>2
    <3> QED
      BY <3>1, <3>2, <3>4, <3>5 DEF Stages
  <2> QED
    BY <2>1, <2>6, <2>7, FreshStage DEF Base
<1>10. CASE p = "run" /\ SaveLog
  <2>1. PICK calls \in {LogPlan, <<>>} : Enter("run", "save", calls)
    BY <1>10 DEF SaveLog
  <2>2. UNCHANGED <<stem, taken, done, doomed, late, left>>
    BY <1>10 DEF SaveLog
  <2>3. calls \in Seq(Calls) /\ "save" \in Labels
    BY <1>0, LogPlanType DEF Labels
  <2>4. /\ pc' \in [Agents -> Labels] /\ todo' \in [Agents -> Seq(Calls)]
        /\ pc'["run"] = "save" /\ todo'["run"] = calls
        /\ \A q \in Agents \ {"run"} : pc'[q] = pc[q] /\ todo'[q] = todo[q]
    BY <1>10, <2>1, <2>3, EnterIs DEF Base
  <2>5. TypeOK'
    BY <2>2, <2>4, StageRemoves DEF Base, TypeOK
  <2>6. Stages'
    <3>1. /\ \A q \in Agents : stem'[q] # 0 => stem'[q] \in taken'
          /\ stem'["run"] = stem'["attest"] => stem'["run"] = 0
          /\ pc'["attest"] \notin {"log", "save", "scan", "prune", "sleep"}
      BY <2>2, <2>4 DEF Base, Stages, Agents
    <3>2. ASSUME NEW q \in Agents
          PROVE  /\ pc'[q] = "clear" => Len(todo'[q]) = 1
                 /\ pc'[q] = "publish" =>
                      /\ stem'[q] \in Stems
                      /\ Len(todo'[q]) <= 13
                      /\ \A i \in 1..Len(todo'[q]) :
                           todo'[q][i] = Plan(stem'[q])[i + 13 - Len(todo'[q])]
      <4>1. CASE q = "run"
        BY <2>4, <4>1
      <4>2. CASE q # "run"
        <5>1. pc'[q] = pc[q] /\ todo'[q] = todo[q] /\ stem'[q] = stem[q]
          BY <2>2, <2>4, <4>2
        <5> QED
          BY <5>1, SameStage
      <4> QED
        BY <4>1, <4>2
    <3>3. /\ Len(todo'["run"]) <= 4
          /\ \A i \in 1..Len(todo'["run"]) :
               todo'["run"][i] = LogPlan[i + 4 - Len(todo'["run"])]
      <4>1. CASE calls = LogPlan
        BY <2>4, <4>1, LogPlanType
      <4>2. CASE calls = <<>>
        BY <2>4, <4>2
      <4> QED
        BY <4>1, <4>2
    <3> QED
      BY <2>4, <3>1, <3>2, <3>3 DEF Stages
  <2> QED
    BY <1>10, <2>2, <2>5, <2>6, FreshStage DEF Base
<1>11. CASE p = "run" /\ Scan
  <2>1. /\ Enter("run", "prune", Removals(ToPrune))
        /\ doomed' = doomed \union Range(ToPrune)
        /\ UNCHANGED <<stem, taken, done, late, left>>
    BY <1>11 DEF Scan
  <2>2. Range(ToPrune) \subseteq taken /\ ToPrune \in Seq(Stems)
    BY PublishedTaken
  <2>3. /\ Removals(ToPrune) \in Seq(Calls)
        /\ \A k \in 1..Len(Removals(ToPrune)) :
             \E s \in Range(ToPrune), e \in Exts :
               Removals(ToPrune)[k] = Call("remove", {<<s, e>>})
    BY <2>2, RemovalsAre
  <2>4. /\ pc' \in [Agents -> Labels] /\ todo' \in [Agents -> Seq(Calls)]
        /\ pc'["run"] = "prune" /\ todo'["run"] = Removals(ToPrune)
        /\ \A q \in Agents \ {"run"} : pc'[q] = pc[q] /\ todo'[q] = todo[q]
    BY <1>11, <2>1, <2>3, EnterIs DEF Base, Labels
  <2>5. TypeOK'
    BY <2>1, <2>2, <2>4, StageRemoves DEF Base, TypeOK
  <2>6. Stages'
    <3>1. /\ \A q \in Agents : stem'[q] # 0 => stem'[q] \in taken'
          /\ stem'["run"] = stem'["attest"] => stem'["run"] = 0
          /\ pc'["attest"] \notin {"log", "save", "scan", "prune", "sleep"}
      BY <2>1, <2>4 DEF Base, Stages, Agents
    <3>2. ASSUME NEW q \in Agents
          PROVE  /\ pc'[q] = "clear" => Len(todo'[q]) = 1
                 /\ pc'[q] = "publish" =>
                      /\ stem'[q] \in Stems
                      /\ Len(todo'[q]) <= 13
                      /\ \A i \in 1..Len(todo'[q]) :
                           todo'[q][i] = Plan(stem'[q])[i + 13 - Len(todo'[q])]
      <4>1. CASE q = "run"
        BY <2>4, <4>1
      <4>2. CASE q # "run"
        <5>1. pc'[q] = pc[q] /\ todo'[q] = todo[q] /\ stem'[q] = stem[q]
          BY <2>1, <2>4, <4>2
        <5> QED
          BY <5>1, SameStage
      <4> QED
        BY <4>1, <4>2
    <3>3. ASSUME NEW i \in 1..Len(todo'["run"])
          PROVE  \E u \in doomed', e \in Exts : todo'["run"][i] = Call("remove", {<<u, e>>})
      <4>1. PICK u \in Range(ToPrune), e \in Exts :
              Removals(ToPrune)[i] = Call("remove", {<<u, e>>})
        BY <2>3, <2>4, <3>3
      <4>2. u \in doomed'
        BY <2>1
      <4> QED
        BY <2>4, <4>1, <4>2
    <3> QED
      BY <2>4, <3>1, <3>2, <3>3 DEF Stages
  <2> QED
    BY <1>11, <2>1, <2>5, <2>6, FreshStage DEF Base
<1> QED
  BY <1>1, <1>2, <1>3, <1>4, <1>5, <1>6, <1>7, <1>8, <1>9, <1>10, <1>11 DEF Stage

\* A power cut: of each name what stood there, or what was synced.
LEMMA CutIs ==
  ASSUME Base, PowerCut
  PROVE  /\ dir' \in [Names -> FileStates] /\ durable' = dir'
         /\ \A n \in Names : dir'[n] \in {dir[n], durable[n]}
         /\ \A p \in Agents : pc'[p] = "cut" /\ stem'[p] = 0 /\ todo'[p] = <<>>
         /\ UNCHANGED <<taken, done, doomed, late>>
<1>1. PICK kept \in SUBSET Names :
        dir' = [n \in Names |-> IF n \in kept THEN dir[n] ELSE durable[n]]
  BY DEF PowerCut
<1>2. /\ dir' \in [Names -> FileStates]
      /\ \A n \in Names : dir'[n] \in {dir[n], durable[n]}
  BY <1>1 DEF Base, TypeOK
<1> QED
  BY <1>2 DEF PowerCut

LEMMA BaseInit ==
  Init => Base
<1> SUFFICES ASSUME Init PROVE Base
  OBVIOUS
<1>1. left \in Left
  BY AuditAssumption DEF Init, Left, Stems
<1>2. TypeOK
  BY <1>1 DEF Init, TypeOK, Left, FileStates, Labels
<1>3. Stages
  BY DEF Init, Stages, Agents
<1>4. Fresh
  <2>1. \A s \in Stems, e \in Exts : dir[<<s, e>>] = "none" /\ durable[<<s, e>>] = "none"
    BY DEF Init, Names
  <2> QED
    BY <2>1 DEF Fresh, Shown, Safe, IsFinal
<1> QED
  BY <1>2, <1>3, <1>4 DEF Base

LEMMA BaseCut ==
  ASSUME Base, PowerCut
  PROVE  Base'
<1>1. left' \in Left
  BY SpendType DEF PowerCut, Base
<1>2. TypeOK'
  <2>1. pc' \in [Agents -> Labels] /\ stem' \in [Agents -> Stems \union {0}]
        /\ todo' \in [Agents -> Seq(Calls)]
    <3>1. <<>> \in Seq(Calls)
      OBVIOUS
    <3> QED
      BY <3>1 DEF PowerCut, Labels
  <2> QED
    BY <1>1, <2>1, CutIs DEF Base, TypeOK, Left
<1>3. Stages'
  BY CutIs DEF Stages, Agents
<1>4. Fresh'
  <2> SUFFICES ASSUME NEW s \in Stems \ taken, NEW e \in Exts
               PROVE  ~Shown(s, e)' /\ ~Safe(s, e)'
    BY CutIs DEF Fresh
  <2>1. <<s, e>> \in Names
    BY DEF Names
  <2>2. ~Shown(s, e) /\ ~Safe(s, e)
    BY DEF Base, Fresh
  <2> QED
    BY <2>1, <2>2, CutIs DEF Shown, Safe
<1> QED
  BY <1>2, <1>3, <1>4 DEF Base

LEMMA BaseStep ==
  Base /\ [Next]_vars => Base'
<1> SUFFICES ASSUME Base, [Next]_vars PROVE Base'
  OBVIOUS
<1>1. ASSUME NEW p \in Agents, Stage(p) PROVE Base'
  BY <1>1, BaseStage
<1>2. ASSUME NEW p \in Agents, MakeCall(p) PROVE Base'
  BY <1>2, BaseCall
<1>3. CASE PowerCut
  BY <1>3, BaseCut
<1>4. CASE UNCHANGED vars
  <2> USE <1>4 DEF vars, history
  <2>1. TypeOK'
    BY DEF Base, TypeOK
  <2>2. Stages'
    BY DEF Base, Stages
  <2>3. Fresh'
    BY DEF Base, Fresh, Shown, Safe
  <2> QED
    BY <2>1, <2>2, <2>3 DEF Base
<1> QED
  BY <1>1, <1>2, <1>3, <1>4, NextIs

THEOREM BaseAlways == Spec => []Base
  BY BaseInit, BaseStep, PTL DEF Spec

\* Every variable has its type.
THEOREM TypeCorrect == Spec => []TypeOK
<1>1. Base => TypeOK
  BY DEF Base
<1> QED
  BY <1>1, BaseAlways, PTL

\* What a change of stage does to the stages and to the histories.
LEMMA StageIs ==
  ASSUME Base, NEW p \in Agents, Stage(p)
  PROVE  /\ \A q \in Agents \ {p} : pc'[q] = pc[q] /\ todo'[q] = todo[q] /\ stem'[q] = stem[q]
         /\ pc'[p] = "publish" =>
              /\ TakeCounter(p) /\ stem'[p] \in Stems \ taken /\ Len(todo'[p]) = 13
         /\ pc'[p] = "save" => p = "run" /\ SaveLog
         /\ pc'[p] = "prune" => p = "run" /\ Scan
         /\ doomed' = doomed \/ Scan
         /\ done' = done \/ (PublishDone(p) /\ done' = done \union {stem[p]})
<1> USE DEF history
<1>1. ASSUME NEW label, NEW calls, Enter(p, label, calls)
      PROVE  /\ pc'[p] = label /\ todo'[p] = calls
             /\ \A q \in Agents \ {p} : pc'[q] = pc[q] /\ todo'[q] = todo[q]
  BY <1>1 DEF Enter, Base, TypeOK
<1>2. ASSUME Exit(p)
      PROVE  /\ pc'[p] = "off"
             /\ \A q \in Agents \ {p} : pc'[q] = pc[q] /\ todo'[q] = todo[q] /\ stem'[q] = stem[q]
  BY <1>2, ExitIs DEF Base
<1>3. CASE Start(p) \/ ListPartials(p)
  BY <1>1, <1>3 DEF Start, ListPartials
<1>4. CASE RemovePartial(p)
  <2>1. UNCHANGED <<taken, done, doomed, late, left>>
    BY <1>4 DEF RemovePartial
  <2>2. PICK n \in Head(todo[p]).names :
          \/ /\ Enter(p, "clear", <<Call("clear", Head(todo[p]).names \ {n})>>)
             /\ UNCHANGED stem
          \/ Exit(p)
    BY <1>4 DEF RemovePartial
  <2> QED
    BY <1>1, <1>2, <2>1, <2>2
<1>5. CASE StagingFails(p) \/ RenameFails(p) \/ Stop(p)
  BY <1>2, <1>5 DEF StagingFails, Unstage, RenameFails, Stop
<1>6. CASE PublishDone(p)
  <2>1. CASE p = "run"
    BY <1>1, <1>6, <2>1 DEF PublishDone
  <2>2. CASE p # "run"
    BY <1>2, <1>6, <2>2 DEF PublishDone
  <2> QED
    BY <2>1, <2>2
<1>7. CASE TakeCounter(p)
  <2>1. PICK s \in (1..left.stems) \ taken :
          stem' = [stem EXCEPT ![p] = s] /\ Enter(p, "publish", Plan(s))
    BY <1>7 DEF TakeCounter
  <2>2. s \in Stems \ taken
    BY AuditAssumption DEF Base, TypeOK, Stems
  <2>3. stem'[p] = s /\ \A q \in Agents \ {p} : stem'[q] = stem[q]
    BY <2>1 DEF Base, TypeOK
  <2>4. Len(todo'[p]) = 13
    BY <1>1, <2>1, PlanIs
  <2>5. done' = done /\ doomed' = doomed
    BY <1>7 DEF TakeCounter
  <2> QED
    BY <1>1, <1>7, <2>1, <2>2, <2>3, <2>4, <2>5
<1>8. CASE p = "run" /\ SaveLog
  <2>1. PICK calls : Enter("run", "save", calls)
    BY <1>8 DEF SaveLog
  <2> QED
    BY <1>1, <1>8, <2>1 DEF SaveLog
<1>9. CASE p = "run" /\ (SaveEnds \/ Scan \/ PruneDone \/ NextCycle)
  BY <1>1, <1>9 DEF SaveEnds, Scan, PruneDone, NextCycle
<1> QED
  BY <1>3, <1>4, <1>5, <1>6, <1>7, <1>8, <1>9 DEF Stage

-----------------------------------------------------------------------------
(***************************************************************************)
(* The second layer: a file is renamed only once it is synced.             *)
(***************************************************************************)
Complete == FilesComplete /\ Synced

\* Two agents that publish have different envelopes in hand.
LEMMA OtherStem ==
  ASSUME Base, NEW p \in Agents, NEW q \in Agents, p # q,
         pc[p] = "publish", pc[q] = "publish"
  PROVE  /\ stem[q] \in Stems /\ stem[q] # stem[p]
         /\ \A e \in Exts : <<stem[q], e>> \in Names /\ <<stem[q], e>> \notin Of(stem[p])
<1>1. stem[q] \in Stems /\ stem[q] # 0
  <2>1. stem[q] \in Stems
    BY DEF Base, Stages
  <2>2. 0 \notin Stems
    BY DEF Stems
  <2> QED
    BY <2>1, <2>2
<1>2. stem[q] # stem[p]
  BY <1>1 DEF Base, Stages, Agents
<1> QED
  BY <1>1, <1>2 DEF Names, Of

LEMMA CompletePublish ==
  ASSUME Base, Complete, NEW p \in Agents, MakeCall(p), pc[p] = "publish"
  PROVE  Complete'
<1>1. PICK s \in Stems : stem[p] = s
  BY PublishFrame DEF Base
<1>2. PICK n \in Int : Len(todo[p]) = n /\ n \in 1..13 /\ Len(todo'[p]) = n - 1
  <2>1. PICK n \in Int : Len(todo[p]) = n
    BY CallMade DEF Base
  <2> QED
    BY <1>1, <2>1, PublishCall, CallMade DEF Base
<1>3. /\ UNCHANGED <<pc, stem>> /\ \A q \in Agents : q # p => todo'[q] = todo[q]
  BY CallMade DEF MakeCall, Base
<1>4. \A m \in Names : m \notin Of(s) => dir'[m] = dir[m]
  BY <1>1, PublishFrame DEF Base
<1>5. durable' \in {dir, durable}
  BY PublishFrame DEF Base
<1>6. /\ n <= 11 => dir[<<s, "msg">>] # "new"
      /\ n <= 9 => dir[<<s, "attest">>] # "new"
      /\ n <= 8 => dir[<<s, "sig">>] # "new"
      /\ n <= 6 => dir[<<s, "tag">>] # "new"
  BY <1>1, <1>2 DEF Complete, Synced, SyncedBy, Made
<1>7. \A e \in Exts : <<s, e>> \in Names /\ dir[<<s, e>>] # "unsafe"
  BY DEF Complete, FilesComplete, Names
<1>8. dir'[<<s, "msg">>] # "unsafe" /\ (n <= 12 => dir'[<<s, "msg">>] # "new")
  <2>1. FileCall(n, <<s, "msg">>, 13, "sync", 12, 6)
    BY <1>1, <1>2, PublishCall DEF Base
  <2> QED
    BY <1>2, <1>6, <1>7, <2>1, AfterIs DEF FileCall, Exts
<1>9. dir'[<<s, "attest">>] # "unsafe" /\ (n <= 10 => dir'[<<s, "attest">>] # "new")
  <2>1. FileCall(n, <<s, "attest">>, 11, "open", 10, 5)
    BY <1>1, <1>2, PublishCall DEF Base
  <2> QED
    BY <1>2, <1>6, <1>7, <2>1, AfterIs DEF FileCall, Exts
<1>10. dir'[<<s, "sig">>] # "unsafe" /\ (n <= 9 => dir'[<<s, "sig">>] # "new")
  <2>1. FileCall(n, <<s, "sig">>, 11, "open", 9, 4)
    BY <1>1, <1>2, PublishCall DEF Base
  <2> QED
    BY <1>2, <1>6, <1>7, <2>1, AfterIs DEF FileCall, Exts
<1>11. dir'[<<s, "tag">>] # "unsafe" /\ (n <= 7 => dir'[<<s, "tag">>] # "new")
  <2>1. FileCall(n, <<s, "tag">>, 8, "sync", 7, 2)
    BY <1>1, <1>2, PublishCall DEF Base
  <2> QED
    BY <1>2, <1>6, <1>7, <2>1, AfterIs DEF FileCall, Exts
<1>12. FilesComplete'
  <2>1. ASSUME NEW m \in Names PROVE dir'[m] # "unsafe"
    <3>1. CASE m \in Of(s)
      <4>1. m \in {<<s, "msg">>, <<s, "attest">>, <<s, "sig">>, <<s, "tag">>}
        BY <3>1 DEF Of, Exts
      <4> QED
        BY <1>8, <1>9, <1>10, <1>11, <4>1
    <3>2. CASE m \notin Of(s)
      BY <1>4, <3>2 DEF Complete, FilesComplete
    <3> QED
      BY <3>1, <3>2
  <2>2. \A m \in Names : durable'[m] # "unsafe"
    BY <1>5 DEF Complete, FilesComplete
  <2> QED
    BY <2>1, <2>2 DEF FilesComplete
<1>13. ASSUME NEW q \in Agents PROVE SyncedBy(q)'
  <2>1. CASE q = p
    BY <1>1, <1>2, <1>3, <1>8, <1>9, <1>10, <1>11, <2>1 DEF SyncedBy, Made
  <2>2. CASE q # p /\ pc[q] = "publish"
    <3>1. \A e \in Exts : dir'[<<stem[q], e>>] = dir[<<stem[q], e>>]
      BY <1>1, <1>4, <2>2, OtherStem
    <3>2. SyncedBy(q)
      BY DEF Complete, Synced
    <3>3. UNCHANGED <<pc, stem>> /\ todo'[q] = todo[q]
      BY <1>3, <2>2
    <3> QED
      BY <3>1, <3>2, <3>3 DEF SyncedBy, Made, Exts
  <2>3. CASE q # p /\ pc[q] # "publish"
    BY <1>3, <2>3 DEF SyncedBy, Made
  <2> QED
    BY <2>1, <2>2, <2>3
<1>14. pc'["run"] = "save" /\ Len(todo'["run"]) <= 2 => dir'[Log] # "new"
  <2>1. Log \in Names /\ Log \notin Of(s)
    BY LogAssumption DEF Names, Of
  <2>2. pc["run"] = "save" => todo'["run"] = todo["run"]
    BY <1>3 DEF Agents
  <2> QED
    BY <1>3, <1>4, <2>1, <2>2 DEF Complete, Synced
<1> QED
  BY <1>12, <1>13, <1>14 DEF Complete, Synced

LEMMA CompleteSave ==
  ASSUME Base, Complete, NEW p \in Agents, MakeCall(p), pc[p] = "save"
  PROVE  Complete'
<1>1. PICK n \in Int : Len(todo[p]) = n
  BY CallMade DEF Base
<1>2. /\ p = "run" /\ n \in 1..4
      /\ \A m \in Names : m # Log => dir'[m] = dir[m]
      /\ n = 4 => dir'[Log] = "new"
      /\ n = 3 => dir'[Log] = After("sync", dir[Log])
      /\ n = 2 => dir'[Log] = After("rename", dir[Log])
      /\ n = 1 => dir'[Log] = dir[Log]
      /\ durable' = IF n = 1 THEN dir ELSE durable
  BY <1>1, SaveCall DEF Base
<1>3. /\ UNCHANGED <<pc, stem>> /\ \A q \in Agents : q # p => todo'[q] = todo[q]
      /\ Len(todo'[p]) = n - 1
  BY <1>1, CallMade DEF MakeCall, Base
<1>4. Log \in Names /\ dir[Log] # "unsafe" /\ (n <= 2 => dir[Log] # "new")
  BY <1>1, <1>2 DEF Complete, FilesComplete, Synced, Names
<1>5. dir'[Log] # "unsafe" /\ (n <= 3 => dir'[Log] # "new")
  BY <1>2, <1>4, AfterIs
<1>6. FilesComplete'
  BY <1>2, <1>5 DEF Complete, FilesComplete
<1>7. ASSUME NEW q \in Agents PROVE SyncedBy(q)'
  <2>1. CASE q = p
    BY <1>3, <2>1 DEF SyncedBy, Made
  <2>2. CASE q # p
    <3>1. pc[q] = "publish" => \A e \in Exts : dir'[<<stem[q], e>>] = dir[<<stem[q], e>>]
      <4> SUFFICES ASSUME pc[q] = "publish", NEW e \in Exts
                   PROVE  dir'[<<stem[q], e>>] = dir[<<stem[q], e>>]
        OBVIOUS
      <4>1. stem[q] \in Stems
        BY DEF Base, Stages
      <4>2. <<stem[q], e>> \in Names /\ <<stem[q], e>> # Log
        BY <4>1, LogAssumption DEF Names
      <4> QED
        BY <1>2, <4>2
    <3>2. SyncedBy(q)
      BY DEF Complete, Synced
    <3>3. UNCHANGED <<pc, stem>> /\ todo'[q] = todo[q]
      BY <1>3, <2>2
    <3> QED
      BY <3>1, <3>2, <3>3 DEF SyncedBy, Made, Exts
  <2> QED
    BY <2>1, <2>2
<1> QED
  BY <1>2, <1>3, <1>5, <1>6, <1>7 DEF Complete, Synced

\* No file becomes new, and none unsafe.
LEMMA CompleteElse ==
  ASSUME Base, Complete, NEW p \in Agents, Stage(p) \/ (MakeCall(p) /\ pc[p] = "prune")
  PROVE  Complete'
<1>1. /\ \A m \in Names : dir'[m] \in {dir[m], "none"}
      /\ durable' = durable
  <2>1. CASE Stage(p)
    BY <2>1, StageRemoves DEF Base
  <2>2. CASE MakeCall(p) /\ pc[p] = "prune"
    <3>1. PICK s \in doomed, e \in Exts :
            /\ dir'[<<s, e>>] = After("remove", dir[<<s, e>>])
            /\ \A m \in Names : m # <<s, e>> => dir'[m] = dir[m]
      BY <2>2, PruneCall DEF Base
    <3>2. dir'[<<s, e>>] \in {dir[<<s, e>>], "none"}
      BY <3>1, AfterIs
    <3> QED
      BY <2>2, <3>1, <3>2, PruneCall DEF Base
  <2> QED
    BY <2>1, <2>2
<1>2. FilesComplete'
  BY <1>1 DEF Complete, FilesComplete
<1>3. ASSUME NEW q \in Agents, pc'[q] = "publish", Len(todo'[q]) <= 12
      PROVE  /\ pc[q] = "publish" /\ stem'[q] = stem[q] /\ todo'[q] = todo[q]
             /\ stem[q] \in Stems
  <2>0. pc[q] = "publish" => stem[q] \in Stems
    BY DEF Base, Stages
  <2>1. CASE Stage(p)
    <3>1. q # p
      <4>1. SUFFICES ASSUME q = p PROVE FALSE
        OBVIOUS
      <4>2. pc'[p] = "publish" => Len(todo'[p]) = 13
        BY <2>1, StageIs
      <4>3. Len(todo'[q]) = 13
        BY <1>3, <4>1, <4>2
      <4>4. 13 <= 12
        BY <1>3, <4>3
      <4> QED
        BY <4>4
    <3> QED
      BY <1>3, <2>0, <2>1, <3>1, StageIs
  <2>2. CASE MakeCall(p) /\ pc[p] = "prune"
    <3>0. UNCHANGED <<pc, stem>>
      BY <2>2 DEF MakeCall
    <3>1. q # p
      BY <1>3, <2>2, <3>0
    <3> QED
      BY <1>3, <2>0, <2>2, <3>0, <3>1, CallMade DEF Base
  <2> QED
    BY <2>1, <2>2
<1>4. ASSUME NEW q \in Agents PROVE SyncedBy(q)'
  <2>1. CASE pc'[q] = "publish" /\ Len(todo'[q]) <= 12
    <3>1. \A e \in Exts : <<stem[q], e>> \in Names
      BY <1>3, <2>1 DEF Names
    <3>2. \A e \in Exts : dir'[<<stem'[q], e>>] \in {dir[<<stem[q], e>>], "none"}
      BY <1>1, <1>3, <2>1, <3>1
    <3>3. SyncedBy(q) /\ pc[q] = "publish" /\ todo'[q] = todo[q]
      BY <1>3, <2>1 DEF Complete, Synced
    <3> QED
      BY <3>2, <3>3 DEF SyncedBy, Made, Exts
  <2>2. CASE ~(pc'[q] = "publish" /\ Len(todo'[q]) <= 12)
    <3>1. Len(todo'[q]) \in Nat
      BY BaseStage, BaseCall, LenProperties DEF Base, TypeOK
    <3> QED
      BY <2>2, <3>1 DEF SyncedBy, Made
  <2> QED
    BY <2>1, <2>2
<1>5. pc'["run"] = "save" /\ Len(todo'["run"]) <= 2 => dir'[Log] # "new"
  <2>1. Log \in Names
    BY DEF Names
  <2>2. CASE SaveLog
    BY <2>1, <2>2 DEF SaveLog, Put, IsPart
  <2>3. CASE ~SaveLog /\ pc'["run"] = "save"
    <3>1. pc["run"] = "save" /\ todo'["run"] = todo["run"]
      <4>1. CASE Stage(p)
        BY <2>3, <4>1, StageIs DEF Agents
      <4>2. CASE MakeCall(p) /\ pc[p] = "prune"
        BY <2>3, <4>2, PruneCall DEF MakeCall, Base
      <4> QED
        BY <4>1, <4>2
    <3> QED
      BY <1>1, <2>1, <3>1 DEF Complete, Synced
  <2> QED
    BY <2>2, <2>3
<1> QED
  BY <1>2, <1>4, <1>5 DEF Complete, Synced

LEMMA CompleteStep ==
  Base /\ Complete /\ [Next]_vars => Complete'
<1> SUFFICES ASSUME Base, Complete, [Next]_vars PROVE Complete'
  OBVIOUS
<1>1. ASSUME NEW p \in Agents, Stage(p) \/ MakeCall(p) PROVE Complete'
  <2>1. MakeCall(p) => pc[p] \in {"save", "publish", "prune"}
    BY DEF MakeCall
  <2> QED
    BY <1>1, <2>1, CompletePublish, CompleteSave, CompleteElse
<1>2. CASE PowerCut
  <2>1. FilesComplete'
    BY <1>2, CutIs DEF Complete, FilesComplete
  <2>2. Synced'
    BY <1>2, CutIs DEF Synced, SyncedBy, Made, Agents
  <2> QED
    BY <2>1, <2>2 DEF Complete
<1>3. CASE UNCHANGED vars
  BY <1>3 DEF vars, Complete, FilesComplete, Synced, SyncedBy, Made
<1> QED
  BY <1>1, <1>2, <1>3, NextIs

LEMMA CompleteInit ==
  Init => Complete
<1>1. Init => FilesComplete
  BY DEF Init, FilesComplete
<1>2. Init => Synced
  BY DEF Init, Synced, SyncedBy, Made, Agents
<1> QED
  BY <1>1, <1>2 DEF Complete

THEOREM CompleteAlways == Spec => []Complete
  BY CompleteInit, CompleteStep, BaseAlways, PTL DEF Spec

\* No file stands under its name without its data, whatever a power cut keeps
\* (main.rs publish_envelope, save_boot_log).
THEOREM FilesAreComplete == Spec => []FilesComplete
<1>1. Complete => FilesComplete
  BY DEF Complete
<1> QED
  BY <1>1, CompleteAlways, PTL

-----------------------------------------------------------------------------
(***************************************************************************)
(* The third layer: the tag stands only over a whole envelope, in the      *)
(* directory and in whatever a power cut makes of it.                      *)
(***************************************************************************)
Whole == Progress /\ TagOnTop /\ DoneStays

\* An envelope of which a step changes nothing but that it may be synced.
Kept(s) ==
  /\ \A e \in Exts : Shown(s, e)' <=> Shown(s, e)
  /\ \/ \A e \in Exts : Safe(s, e)' <=> Safe(s, e)
     \/ \A e \in Exts : Safe(s, e)' <=> Shown(s, e)

LEMMA KeptWhole ==
  ASSUME Whole, NEW s \in Stems \ doomed, Kept(s)
  PROVE  /\ Shown(s, "tag")' \/ Safe(s, "tag")' =>
              \A e \in Exts \ {"tag"} : Shown(s, e)' /\ Safe(s, e)'
         /\ s \in done => \A e \in Exts : Shown(s, e)' /\ Safe(s, e)'
<1>1. /\ Shown(s, "tag") \/ Safe(s, "tag") =>
           \A e \in Exts \ {"tag"} : Shown(s, e) /\ Safe(s, e)
      /\ s \in done => \A e \in Exts : Shown(s, e) /\ Safe(s, e)
  BY DEF Whole, TagOnTop, DoneStays
<1>2. "tag" \in Exts
  BY DEF Exts
<1> QED
  BY <1>1, <1>2 DEF Kept

LEMMA KeptProgress ==
  ASSUME Base, Whole, NEW q \in Agents, doomed \subseteq doomed',
         pc'[q] = "publish" => /\ pc[q] = "publish" /\ stem'[q] = stem[q]
                               /\ todo'[q] = todo[q] /\ Kept(stem[q])
  PROVE  ProgressOf(q)'
<1>1. CASE pc'[q] # "publish"
  BY <1>1 DEF ProgressOf, Made
<1>2. CASE pc'[q] = "publish"
  <2>1. PICK s \in Stems : stem[q] = s
    BY <1>2 DEF Base, Stages
  <2>2. PICK n \in Int : Len(todo[q]) = n
    BY LenProperties DEF Base, TypeOK
  <2>3. /\ pc[q] = "publish" /\ stem'[q] = s /\ Len(todo'[q]) = n /\ Kept(s)
    BY <1>2, <2>1, <2>2
  <2>4. /\ n <= 13 /\ n > 1 => ~Shown(s, "tag") /\ ~Safe(s, "tag")
        /\ s \notin doomed =>
             /\ n <= 5 => Shown(s, "msg")
             /\ n <= 4 => Shown(s, "attest")
             /\ n <= 3 => Shown(s, "sig")
             /\ n <= 2 => Safe(s, "msg") /\ Safe(s, "attest") /\ Safe(s, "sig")
             /\ n <= 1 => Shown(s, "tag")
             /\ n <= 0 => Safe(s, "tag")
    BY <2>1, <2>2, <2>3 DEF Whole, Progress, ProgressOf, Made
  <2>5. /\ n <= 13 /\ n > 1 => ~Shown(s, "tag")' /\ ~Safe(s, "tag")'
        /\ s \notin doomed =>
             /\ n <= 5 => Shown(s, "msg")'
             /\ n <= 4 => Shown(s, "attest")'
             /\ n <= 3 => Shown(s, "sig")'
             /\ n <= 2 => Safe(s, "msg")' /\ Safe(s, "attest")' /\ Safe(s, "sig")'
             /\ n <= 1 => Shown(s, "tag")'
             /\ n <= 0 => Safe(s, "tag")'
    BY <2>3, <2>4 DEF Kept, Exts
  <2> QED
    BY <2>3, <2>5 DEF ProgressOf, Made, Shown, Safe
<1> QED
  BY <1>1, <1>2

\* What a call makes of the envelope in hand.
LEMMA OwnFiles ==
  ASSUME Base, NEW p \in Agents, MakeCall(p), pc[p] = "publish",
         NEW s \in Stems, stem[p] = s, NEW n \in Int, Len(todo[p]) = n
  PROVE  /\ n \in 1..13
         /\ Shown(s, "msg")' <=> n # 13 /\ (n = 6 \/ Shown(s, "msg"))
         /\ Shown(s, "attest")' <=> n # 11 /\ (n = 5 \/ Shown(s, "attest"))
         /\ Shown(s, "sig")' <=> n # 11 /\ (n = 4 \/ Shown(s, "sig"))
         /\ Shown(s, "tag")' <=> n # 8 /\ (n = 2 \/ Shown(s, "tag"))
         /\ \A e \in Exts : Safe(s, e)' <=> IF n \in {3, 1} THEN Shown(s, e) ELSE Safe(s, e)
<1>1. ASSUME NEW name, NEW do \in {"sync", "open"}, NEW write \in Int, NEW sync \in Int,
             NEW rename \in Int, rename < sync, sync < write,
             FileCall(n, name, write, do, sync, rename)
      PROVE  IsFinal(dir'[name]) <=> n # write /\ (n = rename \/ IsFinal(dir[name]))
  <2>1. n = rename => IsFinal(dir'[name])
    BY <1>1, AfterIs DEF FileCall, IsFinal, IsPart
  <2>2. n = sync => (IsFinal(dir'[name]) <=> IsFinal(dir[name]))
    BY <1>1, AfterIs DEF FileCall, IsFinal
  <2>3. n = write => ~IsFinal(dir'[name])
    BY <1>1 DEF FileCall, IsFinal
  <2>4. n \notin {write, sync, rename} => dir'[name] = dir[name]
    BY <1>1 DEF FileCall
  <2>5. rename # write /\ sync # write /\ rename # sync
    BY <1>1
  <2> QED
    BY <2>1, <2>2, <2>3, <2>4, <2>5
<1>2. /\ n \in 1..13
      /\ FileCall(n, <<s, "msg">>, 13, "sync", 12, 6)
      /\ FileCall(n, <<s, "attest">>, 11, "open", 10, 5)
      /\ FileCall(n, <<s, "sig">>, 11, "open", 9, 4)
      /\ FileCall(n, <<s, "tag">>, 8, "sync", 7, 2)
      /\ durable' = IF n \in {3, 1} THEN dir ELSE durable
  BY PublishCall DEF Base
<1>3. Shown(s, "msg")' <=> n # 13 /\ (n = 6 \/ Shown(s, "msg"))
  BY <1>1, <1>2 DEF Shown
<1>4. Shown(s, "attest")' <=> n # 11 /\ (n = 5 \/ Shown(s, "attest"))
  BY <1>1, <1>2 DEF Shown
<1>5. Shown(s, "sig")' <=> n # 11 /\ (n = 4 \/ Shown(s, "sig"))
  BY <1>1, <1>2 DEF Shown
<1>6. Shown(s, "tag")' <=> n # 8 /\ (n = 2 \/ Shown(s, "tag"))
  BY <1>1, <1>2 DEF Shown
<1>7. \A e \in Exts : Safe(s, e)' <=> IF n \in {3, 1} THEN Shown(s, e) ELSE Safe(s, e)
  BY <1>2 DEF Shown, Safe
<1> QED
  BY <1>2, <1>3, <1>4, <1>5, <1>6, <1>7

\* A step that keeps every envelope but those being pruned, and publishes
\* none to the end that is not whole.
LEMMA WholeKept ==
  ASSUME Base, Whole, doomed \subseteq doomed',
         \A q \in Agents : ProgressOf(q)',
         \A s \in Stems \ doomed : Kept(s),
         done' \subseteq Stems,
         \A s \in done' \ done :
           s \notin doomed => \A e \in Exts : Shown(s, e) /\ Safe(s, e)
  PROVE  Whole'
<1>1. Progress'
  BY DEF Progress
<1>2. TagOnTop'
  BY KeptWhole DEF TagOnTop
<1>3. DoneStays'
  <2> SUFFICES ASSUME NEW s \in done' \ doomed', NEW e \in Exts
               PROVE  Shown(s, e)' /\ Safe(s, e)'
    BY DEF DoneStays
  <2>1. s \in Stems \ doomed /\ Kept(s)
    OBVIOUS
  <2>2. CASE s \in done
    BY <2>1, <2>2, KeptWhole
  <2>3. CASE s \notin done
    BY <2>1, <2>3 DEF Kept
  <2> QED
    BY <2>2, <2>3
<1> QED
  BY <1>1, <1>2, <1>3 DEF Whole

LEMMA WholePublish ==
  ASSUME Base, Whole, NEW p \in Agents, MakeCall(p), pc[p] = "publish"
  PROVE  Whole'
<1>1. PICK s \in Stems : stem[p] = s
  BY PublishFrame DEF Base
<1>2. PICK n \in Int : Len(todo[p]) = n /\ Len(todo'[p]) = n - 1
  BY CallMade DEF Base
<1>3. /\ UNCHANGED <<pc, stem, done, doomed>> /\ \A q \in Agents : q # p => todo'[q] = todo[q]
  BY CallMade DEF MakeCall, Base, history
<1>4. ASSUME NEW t \in Stems, t # s
      PROVE  Kept(t)
  <2>1. \A e \in Exts : <<t, e>> \in Names /\ <<t, e>> \notin Of(s)
    BY <1>4 DEF Names, Of
  <2>2. \A e \in Exts : dir'[<<t, e>>] = dir[<<t, e>>]
    BY <1>1, <2>1, PublishFrame DEF Base
  <2>3. durable' = durable \/ durable' = dir
    BY PublishFrame DEF Base
  <2> QED
    BY <2>2, <2>3 DEF Kept, Shown, Safe
<1>5. /\ n \in 1..13
      /\ Shown(s, "msg")' <=> n # 13 /\ (n = 6 \/ Shown(s, "msg"))
      /\ Shown(s, "attest")' <=> n # 11 /\ (n = 5 \/ Shown(s, "attest"))
      /\ Shown(s, "sig")' <=> n # 11 /\ (n = 4 \/ Shown(s, "sig"))
      /\ Shown(s, "tag")' <=> n # 8 /\ (n = 2 \/ Shown(s, "tag"))
      /\ \A e \in Exts : Safe(s, e)' <=> IF n \in {3, 1} THEN Shown(s, e) ELSE Safe(s, e)
  BY <1>1, <1>2, OwnFiles
<1>6. /\ n > 1 => ~Shown(s, "tag") /\ ~Safe(s, "tag")
      /\ s \notin doomed =>
           /\ n <= 5 => Shown(s, "msg")
           /\ n <= 4 => Shown(s, "attest")
           /\ n <= 3 => Shown(s, "sig")
           /\ n <= 2 => Safe(s, "msg") /\ Safe(s, "attest") /\ Safe(s, "sig")
           /\ n <= 1 => Shown(s, "tag")
  BY <1>1, <1>2, <1>5 DEF Whole, Progress, ProgressOf, Made
<1>7. /\ n - 1 > 1 => ~Shown(s, "tag")' /\ ~Safe(s, "tag")'
      /\ s \notin doomed =>
           /\ n - 1 <= 5 => Shown(s, "msg")'
           /\ n - 1 <= 4 => Shown(s, "attest")'
           /\ n - 1 <= 3 => Shown(s, "sig")'
           /\ n - 1 <= 2 => Safe(s, "msg")' /\ Safe(s, "attest")' /\ Safe(s, "sig")'
           /\ n - 1 <= 1 => Shown(s, "tag")'
           /\ n - 1 <= 0 => Safe(s, "tag")'
  BY <1>5, <1>6 DEF Exts
<1>8. ASSUME NEW q \in Agents PROVE ProgressOf(q)'
  <2>1. CASE q = p
    BY <1>1, <1>2, <1>3, <1>7, <2>1 DEF ProgressOf, Made, Shown, Safe
  <2>2. CASE q # p
    <3>1. pc[q] = "publish" => stem[q] \in Stems /\ stem[q] # s
      BY <1>1, <2>2, OtherStem
    <3> QED
      BY <1>3, <1>4, <2>2, <3>1, KeptProgress
  <2> QED
    BY <2>1, <2>2
<1>9. ASSUME s \notin doomed, Shown(s, "tag")' \/ Safe(s, "tag")', NEW e \in Exts \ {"tag"}
      PROVE  Shown(s, e)' /\ Safe(s, e)'
  <2>1. n <= 2
    BY <1>2, <1>5, <1>7, <1>9
  <2> QED
    BY <1>5, <1>6, <1>9, <2>1 DEF Exts
<1>10. TagOnTop'
  <2>1. ASSUME NEW t \in Stems \ doomed, t # s, Shown(t, "tag")' \/ Safe(t, "tag")',
               NEW e \in Exts \ {"tag"}
        PROVE  Shown(t, e)' /\ Safe(t, e)'
    BY <1>4, <2>1, KeptWhole
  <2>2. ASSUME NEW t \in Stems \ doomed, Shown(t, "tag")' \/ Safe(t, "tag")',
               NEW e \in Exts \ {"tag"}
        PROVE  Shown(t, e)' /\ Safe(t, e)'
    BY <1>9, <2>1, <2>2
  <2> QED
    BY <1>3, <2>2 DEF TagOnTop
<1>11. DoneStays'
  <2>1. ASSUME NEW t \in done \ doomed, NEW e \in Exts
        PROVE  Shown(t, e)' /\ Safe(t, e)'
    <3>1. t \in Stems \ doomed
      BY DEF Base, TypeOK
    <3>2. CASE t # s
      BY <1>4, <3>1, <3>2, KeptWhole
    <3>3. CASE t = s
      <4>1. \A x \in Exts : Shown(s, x) /\ Safe(s, x)
        BY <3>3 DEF Whole, DoneStays
      <4>2. n <= 1
        BY <1>5, <1>6, <4>1 DEF Exts
      <4> QED
        BY <1>5, <3>3, <4>1, <4>2 DEF Exts
    <3> QED
      BY <3>2, <3>3
  <2> QED
    BY <1>3, <2>1 DEF DoneStays
<1> QED
  BY <1>8, <1>10, <1>11 DEF Whole, Progress

LEMMA WholeSave ==
  ASSUME Base, Whole, NEW p \in Agents, MakeCall(p), pc[p] = "save"
  PROVE  Whole'
<1>1. PICK n \in Int : Len(todo[p]) = n
  BY CallMade DEF Base
<1>2. /\ \A m \in Names : m # Log => dir'[m] = dir[m]
      /\ durable' = IF n = 1 THEN dir ELSE durable
  BY <1>1, SaveCall DEF Base
<1>3. /\ UNCHANGED <<pc, stem, done, doomed>> /\ \A q \in Agents : q # p => todo'[q] = todo[q]
  BY CallMade DEF MakeCall, Base, history
<1>4. ASSUME NEW s \in Stems PROVE Kept(s)
  <2>1. \A e \in Exts : <<s, e>> \in Names /\ <<s, e>> # Log
    BY LogAssumption DEF Names
  <2>2. \A e \in Exts : dir'[<<s, e>>] = dir[<<s, e>>]
    BY <1>2, <2>1
  <2> QED
    BY <1>2, <2>2 DEF Kept, Shown, Safe
<1>5. ASSUME NEW q \in Agents PROVE ProgressOf(q)'
  <2>1. pc[q] = "publish" => stem[q] \in Stems /\ q # p
    BY DEF Base, Stages
  <2> QED
    BY <1>3, <1>4, <2>1, KeptProgress
<1> QED
  BY <1>3, <1>4, <1>5, WholeKept DEF Base, TypeOK

\* The pruner takes a file of an envelope it is after, and shows none.
LEMMA WholePrune ==
  ASSUME Base, Whole, NEW p \in Agents, MakeCall(p), pc[p] = "prune"
  PROVE  Whole'
<1>1. PICK u \in doomed, x \in Exts :
        /\ dir'[<<u, x>>] = After("remove", dir[<<u, x>>])
        /\ \A m \in Names : m # <<u, x>> => dir'[m] = dir[m]
  BY PruneCall DEF Base
<1>2. /\ UNCHANGED <<pc, stem, done, doomed, durable>>
      /\ \A q \in Agents : q # p => todo'[q] = todo[q]
  BY CallMade, PruneCall DEF MakeCall, Base, history
<1>3. ASSUME NEW s \in Stems \ {u} PROVE Kept(s)
  <2>1. \A e \in Exts : <<s, e>> \in Names /\ <<s, e>> # <<u, x>>
    BY DEF Names
  <2> QED
    BY <1>1, <1>2, <2>1 DEF Kept, Shown, Safe
<1>4. \A e \in Exts : Shown(u, e)' => Shown(u, e)
  <2>1. ~IsFinal(After("remove", dir[<<u, x>>]))
    BY AfterIs DEF IsFinal
  <2>2. \A e \in Exts : <<u, e>> \in Names
    BY DEF Names, Base, TypeOK
  <2> QED
    BY <1>1, <2>1, <2>2 DEF Shown
<1>5. ASSUME NEW q \in Agents PROVE ProgressOf(q)'
  <2>0. /\ pc[q] = "publish" => stem[q] \in Stems /\ q # p
    BY DEF Base, Stages
  <2>1. CASE stem[q] # u
    BY <1>2, <1>3, <2>0, <2>1, KeptProgress
  <2>2. CASE stem[q] = u /\ pc[q] = "publish"
    <3>1. Made(q, 0) /\ ~Made(q, 12) => ~Shown(u, "tag") /\ ~Safe(u, "tag")
      BY <2>2 DEF Whole, Progress, ProgressOf
    <3>2. UNCHANGED <<pc, stem, durable, doomed>> /\ todo'[q] = todo[q]
      BY <1>2, <2>0, <2>2
    <3>3. Made(q, 0)' /\ ~Made(q, 12)' => ~Shown(u, "tag")' /\ ~Safe(u, "tag")'
      BY <1>4, <3>1, <3>2 DEF Made, Exts, Safe
    <3> QED
      BY <2>2, <3>2, <3>3 DEF ProgressOf, Shown, Safe
  <2>3. CASE stem[q] = u /\ pc[q] # "publish"
    BY <1>2, <2>3 DEF ProgressOf, Made
  <2> QED
    BY <2>1, <2>2, <2>3
<1>6. \A s \in Stems \ doomed : Kept(s)
  BY <1>3
<1> QED
  BY <1>2, <1>5, <1>6, WholeKept DEF Base, TypeOK

\* A new stage shows and hides nothing.
LEMMA StageKeeps ==
  ASSUME Base, NEW p \in Agents, Stage(p), NEW s \in Stems
  PROVE  /\ \A e \in Exts : (Shown(s, e)' <=> Shown(s, e)) /\ (Safe(s, e)' <=> Safe(s, e))
         /\ Kept(s)
<1>1. \A e \in Exts : <<s, e>> \in Names
  BY DEF Names
<1>2. \A m \in Names : dir'[m] = dir[m] \/ (IsPart(m) /\ dir'[m] = "none")
  BY StageRemoves DEF Base
<1>3. durable' = durable
  BY StageRemoves DEF Base
<1>4. \A e \in Exts : Shown(s, e)' <=> Shown(s, e)
  BY <1>1, <1>2 DEF Shown, IsFinal, IsPart
<1>5. \A e \in Exts : Safe(s, e)' <=> Safe(s, e)
  BY <1>3 DEF Safe
<1> QED
  BY <1>4, <1>5 DEF Kept

LEMMA WholeStage ==
  ASSUME Base, Whole, NEW p \in Agents, Stage(p)
  PROVE  Whole'
<1>1. \A s \in Stems : Kept(s)
  BY StageKeeps
<1>2. doomed \subseteq doomed'
  BY StageIs DEF Scan
<1>3. ASSUME NEW q \in Agents PROVE ProgressOf(q)'
  <2>1. CASE q # p \/ pc'[q] # "publish"
    <3>1. pc'[q] = "publish" => /\ pc[q] = "publish" /\ stem'[q] = stem[q]
                                /\ todo'[q] = todo[q] /\ stem[q] \in Stems
      <4>1. pc[q] = "publish" => stem[q] \in Stems
        BY DEF Base, Stages
      <4>2. q # p => pc'[q] = pc[q] /\ todo'[q] = todo[q] /\ stem'[q] = stem[q]
        BY StageIs
      <4> QED
        BY <2>1, <4>1, <4>2
    <3> QED
      BY <1>1, <1>2, <3>1, KeptProgress
  <2>2. CASE q = p /\ pc'[q] = "publish"
    <3>1. stem'[q] \in Stems \ taken /\ Len(todo'[q]) = 13
      BY <2>2, StageIs
    <3>2. ~Shown(stem'[q], "tag") /\ ~Safe(stem'[q], "tag")
      BY <3>1 DEF Base, Fresh, Exts
    <3>3. PICK s \in Stems : stem'[q] = s
      BY <3>1
    <3>4. ~Shown(s, "tag")' /\ ~Safe(s, "tag")'
      BY <3>2, <3>3, StageKeeps DEF Exts
    <3> QED
      BY <2>2, <3>1, <3>3, <3>4 DEF ProgressOf, Made, Shown, Safe
  <2> QED
    BY <2>1, <2>2
<1>4. ASSUME NEW s \in done' \ done, s \notin doomed, NEW e \in Exts
      PROVE  Shown(s, e) /\ Safe(s, e)
  <2>1. PublishDone(p) /\ s = stem[p]
    BY <1>4, StageIs
  <2>2. pc[p] = "publish" /\ Len(todo[p]) = 0
    BY <2>1 DEF PublishDone
  <2>3. PICK t \in Stems : stem[p] = t
    BY <2>2 DEF Base, Stages
  <2>4. ProgressOf(p)
    BY DEF Whole, Progress
  <2>5. \A x \in Exts : Shown(t, x) /\ Safe(t, x)
    BY <1>4, <2>1, <2>2, <2>3, <2>4 DEF ProgressOf, Made, Exts
  <2> QED
    BY <2>1, <2>3, <2>5
<1>5. done' \subseteq Stems
  BY BaseStage DEF Base, TypeOK
<1> QED
  BY <1>1, <1>2, <1>3, <1>4, <1>5, WholeKept

LEMMA WholeCut ==
  ASSUME Base, Whole, PowerCut
  PROVE  Whole'
<1>1. ASSUME NEW s \in Stems, NEW e \in Exts
      PROVE  /\ Shown(s, e)' <=> Safe(s, e)'
             /\ Shown(s, e)' => Shown(s, e) \/ Safe(s, e)
             /\ Shown(s, e) /\ Safe(s, e) => Shown(s, e)'
  <2>1. <<s, e>> \in Names
    BY DEF Names
  <2>2. durable' = dir' /\ dir'[<<s, e>>] \in {dir[<<s, e>>], durable[<<s, e>>]}
    BY <2>1, CutIs
  <2> QED
    BY <2>2 DEF Shown, Safe
<1>2. UNCHANGED <<done, doomed>>
  BY CutIs
<1>3. Progress'
  BY CutIs DEF Progress, ProgressOf, Made
<1>4. TagOnTop'
  BY <1>1, <1>2 DEF Whole, TagOnTop, Exts
<1>5. DoneStays'
  <2>1. done \subseteq Stems
    BY DEF Base, TypeOK
  <2> QED
    BY <1>1, <1>2, <2>1 DEF Whole, DoneStays
<1> QED
  BY <1>3, <1>4, <1>5 DEF Whole

LEMMA WholeStep ==
  Base /\ Whole /\ [Next]_vars => Whole'
<1> SUFFICES ASSUME Base, Whole, [Next]_vars PROVE Whole'
  OBVIOUS
<1>1. ASSUME NEW p \in Agents, Stage(p) \/ MakeCall(p) PROVE Whole'
  <2>1. MakeCall(p) => pc[p] \in {"save", "publish", "prune"}
    BY DEF MakeCall
  <2> QED
    BY <1>1, <2>1, WholePublish, WholeSave, WholePrune, WholeStage
<1>2. CASE PowerCut
  BY <1>2, WholeCut
<1>3. CASE UNCHANGED vars
  <2> USE <1>3 DEF vars, history
  <2>1. Progress'
    BY DEF Whole, Progress, ProgressOf, Made, Shown, Safe
  <2>2. TagOnTop' /\ DoneStays'
    BY DEF Whole, TagOnTop, DoneStays, Shown, Safe
  <2> QED
    BY <2>1, <2>2 DEF Whole
<1> QED
  BY <1>1, <1>2, <1>3, NextIs

LEMMA WholeInit ==
  Init => Whole
<1> SUFFICES ASSUME Init PROVE Whole
  OBVIOUS
<1>1. Progress
  BY DEF Init, Progress, ProgressOf, Made
<1>2. \A s \in Stems, e \in Exts : ~Shown(s, e) /\ ~Safe(s, e)
  BY DEF Init, Shown, Safe, Names, IsFinal
<1>3. TagOnTop /\ DoneStays
  BY <1>2 DEF Init, TagOnTop, DoneStays, Exts
<1> QED
  BY <1>1, <1>3 DEF Whole

THEOREM WholeAlways == Spec => []Whole
  BY WholeInit, WholeStep, BaseAlways, PTL DEF Spec

\* An envelope with its tag has all four files, after any power cut, until the
\* pruner sets out to remove it (main.rs publish_envelope).
THEOREM TagNeverAlone == Spec => []TagMeansWhole
<1>1. Whole => TagMeansWhole
  <2> SUFFICES ASSUME Whole, NEW s \in Stems \ doomed, "tag" \in Finals(dir, s)
               PROVE  Finals(dir, s) = Exts
    BY DEF TagMeansWhole
  <2>1. \A e \in Exts : Shown(s, e)
    BY DEF Whole, TagOnTop, Finals, Shown
  <2> QED
    BY <2>1 DEF Finals, Shown
<1> QED
  BY <1>1, WholeAlways, PTL

-----------------------------------------------------------------------------
(***************************************************************************)
(* The fourth layer: the pruner is after nothing but what has Keep         *)
(* counters above it.                                                      *)
(***************************************************************************)
LEMMA DoomedStep ==
  Base /\ DoomedOld /\ [Next]_vars => DoomedOld'
<1> SUFFICES ASSUME Base, DoomedOld, [Next]_vars PROVE DoomedOld'
  OBVIOUS
<1>1. Keep \in Nat
  BY AuditAssumption
<1>2. taken \in SUBSET Stems
  BY DEF Base, TypeOK
<1>3. ASSUME NEW s, NEW low \in SUBSET Stems, NEW high \in SUBSET Stems,
             low \subseteq high, Cardinality({t \in low : t > s}) >= Keep
      PROVE  Cardinality({t \in high : t > s}) >= Keep
  <2>1. {t \in low : t > s} \in SUBSET {t \in high : t > s}
    BY <1>3
  <2>2. {t \in low : t > s} \in SUBSET Stems /\ {t \in high : t > s} \in SUBSET Stems
    OBVIOUS
  <2> DEFINE L == {t \in low : t > s}
             H == {t \in high : t > s}
  <2>3. /\ Cardinality(L) \in Nat /\ IsFiniteSet(H) /\ Cardinality(H) \in Nat
    BY <2>2, StemsAreFinite
  <2>4. Cardinality(L) <= Cardinality(H)
    <3> HIDE DEF L, H
    <3> QED
      BY <2>1, <2>3, FS_Subset DEF L, H
  <2>5. Cardinality(L) >= Keep
    BY <1>3
  <2> HIDE DEF L, H
  <2>6. Cardinality(H) >= Keep
    BY <1>1, <2>3, <2>4, <2>5
  <2> QED
    BY <2>6 DEF H
<1>4. ASSUME taken \subseteq taken', taken' \subseteq Stems, doomed' = doomed
      PROVE  DoomedOld'
  BY <1>2, <1>3, <1>4 DEF DoomedOld
<1>5. ASSUME NEW p \in Agents, Stage(p)
      PROVE  DoomedOld'
  <2>1. taken \subseteq taken' /\ taken' \subseteq Stems
    BY <1>5, BaseStage DEF Base, TypeOK
  <2>2. CASE doomed' = doomed
    BY <1>4, <2>1, <2>2
  <2>3. CASE Scan
    <3>1. doomed' = doomed \union Range(ToPrune) /\ taken' = taken
      BY <2>3 DEF Scan
    <3>2. \A s \in Range(ToPrune) : Cardinality({t \in Published : t > s}) >= Keep
      BY ToPruneIs
    <3>3. Published \subseteq taken /\ Published \in SUBSET Stems
      BY PublishedTaken DEF Published
    <3>4. \A s \in Range(ToPrune) : Cardinality({t \in taken : t > s}) >= Keep
      BY <1>2, <1>3, <3>2, <3>3
    <3> QED
      BY <3>1, <3>4 DEF DoomedOld
  <2> QED
    BY <1>5, <2>2, <2>3, StageIs
<1>6. ASSUME NEW p \in Agents, MakeCall(p) PROVE DoomedOld'
  BY <1>6 DEF DoomedOld, MakeCall, history
<1>7. CASE PowerCut
  BY <1>7, CutIs DEF DoomedOld
<1>8. CASE UNCHANGED vars
  BY <1>8 DEF vars, history, DoomedOld
<1> QED
  BY <1>5, <1>6, <1>7, <1>8, NextIs

THEOREM DoomedAlways == Spec => []DoomedOld
<1>1. Init => DoomedOld
  BY DEF Init, DoomedOld
<1> QED
  BY <1>1, DoomedStep, BaseAlways, PTL DEF Spec

\* An envelope published to the end is whole, and survives a power cut whole,
\* until Keep counters above its own were taken (main.rs publish_envelope,
\* stems_to_prune).
THEOREM NewestStay == Spec => []NewestSurvives
<1>1. Base /\ Whole /\ DoomedOld => NewestSurvives
  <2> SUFFICES ASSUME Base, Whole, DoomedOld, NEW s \in done,
                      Cardinality({t \in taken : t > s}) < Keep
               PROVE  Finals(dir, s) = Exts /\ Finals(durable, s) = Exts
    BY DEF NewestSurvives
  <2>1. s \notin doomed
    <3>1. {t \in taken : t > s} \in SUBSET Stems /\ Keep \in Nat
      BY AuditAssumption DEF Base, TypeOK
    <3>2. Cardinality({t \in taken : t > s}) \in Nat
      BY <3>1, StemsAreFinite
    <3>3. s \in doomed => Cardinality({t \in taken : t > s}) >= Keep
      BY DEF DoomedOld
    <3> QED
      BY <3>1, <3>2, <3>3
  <2>2. \A e \in Exts : Shown(s, e) /\ Safe(s, e)
    BY <2>1 DEF Whole, DoneStays
  <2> QED
    BY <2>2 DEF Finals, Shown, Safe
<1> QED
  BY <1>1, BaseAlways, WholeAlways, DoomedAlways, PTL

-----------------------------------------------------------------------------
(***************************************************************************)
(* The last layer: what a cycle of `run` leaves.                           *)
(***************************************************************************)
Bounded == LateInHand /\ PartsGo /\ InHandStays /\ FewStay

LEMMA EnterSets ==
  ASSUME Base, NEW p \in Agents, NEW label, NEW calls, Enter(p, label, calls)
  PROVE  /\ pc'[p] = label /\ todo'[p] = calls
         /\ \A q \in Agents \ {p} : pc'[q] = pc[q] /\ todo'[q] = todo[q]
  BY DEF Enter, Base, TypeOK

\* What `attest` does beside a cycle.
LEMMA AttestStage ==
  ASSUME Base, Stage("attest")
  PROVE  /\ pc'["run"] = pc["run"] /\ todo'["run"] = todo["run"]
         /\ stem'["run"] = stem["run"] /\ doomed' = doomed
         /\ late \subseteq late' /\ stem'["attest"] \in {stem["attest"], 0} \union late'
<1> USE DEF history
<1>0. "attest" \in Agents
  BY DEF Agents
<1>1. pc'["run"] = pc["run"] /\ todo'["run"] = todo["run"] /\ stem'["run"] = stem["run"]
  BY <1>0, StageIs DEF Agents
<1>2. doomed' = doomed
  <2>1. ~Scan
    <3>1. ASSUME Scan PROVE FALSE
      <4>1. Enter("run", "prune", Removals(ToPrune)) /\ pc["run"] = "scan"
        BY <3>1 DEF Scan
      <4>2. pc'["run"] = "prune"
        BY <4>1, EnterSets DEF Agents
      <4> QED
        BY <1>1, <4>1, <4>2
    <3> QED
      BY <3>1
  <2> QED
    BY <1>0, <2>1, StageIs
<1>3. CASE TakeCounter("attest")
  <2>1. PICK s \in (1..left.stems) \ taken :
          stem' = [stem EXCEPT !["attest"] = s] /\ late' = late \union {s}
    BY <1>3 DEF TakeCounter
  <2> QED
    BY <1>0, <1>1, <1>2, <2>1 DEF Base, TypeOK
<1>4. CASE Start("attest") \/ ListPartials("attest")
  BY <1>1, <1>2, <1>4 DEF Start, ListPartials
<1>5. CASE RemovePartial("attest")
  <2>1. late' = late /\ (UNCHANGED stem \/ Exit("attest"))
    BY <1>5 DEF RemovePartial
  <2> QED
    BY <1>0, <1>1, <1>2, <2>1, ExitIs DEF Base
<1>6. CASE StagingFails("attest") \/ RenameFails("attest") \/ PublishDone("attest") \/ Stop("attest")
  <2>1. late' = late /\ Exit("attest")
    BY <1>6 DEF StagingFails, Unstage, RenameFails, PublishDone, Stop
  <2> QED
    BY <1>0, <1>1, <1>2, <2>1, ExitIs DEF Base
<1> QED
  BY <1>3, <1>4, <1>5, <1>6 DEF Stage

LEMMA BoundedAttest ==
  ASSUME Base, Bounded, Stage("attest")
  PROVE  Bounded'
<1>1. LateInHand'
  BY AttestStage DEF Bounded, LateInHand, InCycle
<1>2. InHandStays'
  BY AttestStage DEF Bounded, InHandStays
<1>3. PartsGo'
  <2> SUFFICES ASSUME InCycle', NEW s \in Stems \ late', NEW e \in Exts, IsPart(<<s, e>>)'
               PROVE  \/ pc'["run"] = "clear" /\ <<s, e>> \in Head(todo'["run"]).names
                      \/ pc'["run"] = "publish" /\ s = stem'["run"]
    BY DEF PartsGo
  <2>1. <<s, e>> \in Names /\ "attest" \in Agents
    BY DEF Names, Agents
  <2>2. IsPart(<<s, e>>)
    <3>1. dir'[<<s, e>>] = dir[<<s, e>>] \/ dir'[<<s, e>>] = "none"
      BY <2>1, StageRemoves DEF Base
    <3> QED
      BY <3>1 DEF IsPart
  <2>3. InCycle /\ s \in Stems \ late
    BY AttestStage DEF InCycle
  <2> QED
    BY <2>2, <2>3, AttestStage DEF Bounded, PartsGo
<1>4. FewStay'
  <2> SUFFICES ASSUME pc'["run"] \in {"prune", "sleep"}
               PROVE  \E K \in SUBSET Stems :
                        /\ Cardinality(K) <= Keep
                        /\ \A s \in Stems \ (late' \union K), e \in Exts :
                             Shown(s, e)' => /\ pc'["run"] = "prune"
                                             /\ \E i \in 1..Len(todo'["run"]) :
                                                  <<s, e>> \in todo'["run"][i].names
    BY DEF FewStay
  <2>1. /\ pc'["run"] = pc["run"] /\ todo'["run"] = todo["run"] /\ late \subseteq late'
    BY AttestStage
  <2>2. PICK K \in SUBSET Stems :
          /\ Cardinality(K) <= Keep
          /\ \A s \in Stems \ (late \union K), e \in Exts :
               Shown(s, e) => /\ pc["run"] = "prune"
                              /\ \E i \in 1..Len(todo["run"]) :
                                   <<s, e>> \in todo["run"][i].names
    BY <2>1 DEF Bounded, FewStay
  <2>3. \A s \in Stems, e \in Exts : Shown(s, e)' <=> Shown(s, e)
    BY StageKeeps DEF Agents
  <2> QED
    BY <2>1, <2>2, <2>3
<1> QED
  BY <1>1, <1>2, <1>3, <1>4 DEF Bounded

\* The stages of a cycle.
LEMMA RunStage ==
  ASSUME Base, Stage("run"), InCycle'
  PROVE  \/ ListPartials("run") \/ TakeCounter("run") \/ PublishDone("run") \/ Scan \/ PruneDone
         \/ \E n \in Head(todo["run"]).names :
              /\ pc["run"] = "clear" /\ Put({n}, "none") /\ UNCHANGED <<stem, late, doomed>>
              /\ Enter("run", "clear", <<Call("clear", Head(todo["run"]).names \ {n})>>)
<1> USE DEF history
<1>0. "run" \in Agents
  BY DEF Agents
<1>1. ASSUME NEW label, NEW calls, Enter("run", label, calls)
      PROVE  label \in {"clear", "publish", "scan", "prune", "sleep"}
  BY <1>0, <1>1, EnterSets DEF InCycle
<1>2. ~Exit("run")
  BY <1>1 DEF Exit
<1>3. ~Start("run")
  BY <1>1 DEF Start
<1>4. ~SaveLog
  BY <1>1 DEF SaveLog
<1>5. ~SaveEnds /\ ~NextCycle
  BY <1>1 DEF SaveEnds, NextCycle
<1>6. ~StagingFails("run") /\ ~RenameFails("run") /\ ~Stop("run")
  BY <1>2 DEF StagingFails, Unstage, RenameFails, Stop
<1>7. CASE RemovePartial("run")
  <2>1. PICK n \in Head(todo["run"]).names :
          /\ Put({n}, "none")
          /\ Enter("run", "clear", <<Call("clear", Head(todo["run"]).names \ {n})>>)
          /\ UNCHANGED stem
    BY <1>2, <1>7 DEF RemovePartial
  <2>2. pc["run"] = "clear" /\ UNCHANGED <<late, doomed>>
    BY <1>7 DEF RemovePartial
  <2> QED
    BY <2>1, <2>2
<1> QED
  BY <1>3, <1>4, <1>5, <1>6, <1>7 DEF Stage

\* What the scan leaves: the published envelopes that are not pruned.
LEMMA FewStayAtScan ==
  ASSUME Base, Scan
  PROVE  FewStay'
<1> DEFINE K == Published \ Range(ToPrune)
<1>1. /\ pc'["run"] = "prune" /\ todo'["run"] = Removals(ToPrune)
      /\ late' = late /\ dir' = dir
  BY EnterSets DEF Scan, Agents
<1>2. K \in SUBSET Stems /\ Cardinality(K) <= Keep
  BY ToPruneIs DEF Published
<1>3. ASSUME NEW s \in Stems \ (late' \union K), NEW e \in Exts, Shown(s, e)'
      PROVE  \E i \in 1..Len(todo'["run"]) : <<s, e>> \in todo'["run"][i].names
  <2>1. s \in Published
    BY <1>1, <1>3 DEF Published, Finals, Shown
  <2>2. s \in Range(ToPrune)
    BY <1>3, <2>1
  <2>3. PICK k \in 1..Len(Removals(ToPrune)) :
          Removals(ToPrune)[k] = Call("remove", {<<s, e>>})
    BY <2>2, PublishedTaken, RemovalsAre
  <2>4. <<s, e>> \in Removals(ToPrune)[k].names
    BY <2>3 DEF Call
  <2> QED
    BY <1>1, <2>3, <2>4
<1> HIDE DEF K
<1> QED
  BY <1>1, <1>2, <1>3 DEF FewStay

LEMMA BoundedRun ==
  ASSUME Base, Whole, Bounded, Stage("run")
  PROVE  Bounded'
<1> USE DEF history
<1>0. /\ "run" \in Agents /\ "attest" \in Agents /\ "attest" # "run"
      /\ stem'["attest"] = stem["attest"]
  BY StageIs DEF Agents
<1>1. CASE ~InCycle'
  BY <1>1 DEF Bounded, LateInHand, PartsGo, InHandStays, FewStay, InCycle
<1>2. CASE ListPartials("run")
  <2>1. /\ pc'["run"] = "clear" /\ todo'["run"] = <<Call("clear", Partials)>>
        /\ late' = {stem["attest"]} \ {0} /\ dir' = dir
    BY <1>0, <1>2, EnterSets DEF ListPartials, Writing
  <2>2. LateInHand' /\ InHandStays' /\ FewStay'
    BY <1>0, <2>1 DEF LateInHand, InHandStays, FewStay
  <2>3. \A s \in Stems, e \in Exts : IsPart(<<s, e>>)' => <<s, e>> \in Head(todo'["run"]).names
    BY <2>1 DEF Partials, IsPart, Call
  <2>4. PartsGo'
    BY <2>1, <2>3 DEF PartsGo
  <2> QED
    BY <2>2, <2>4 DEF Bounded
<1>3. ASSUME NEW n \in Head(todo["run"]).names,
             pc["run"] = "clear", Put({n}, "none"), UNCHANGED <<stem, late, doomed>>,
             Enter("run", "clear", <<Call("clear", Head(todo["run"]).names \ {n})>>)
      PROVE  Bounded'
  <2>1. /\ pc'["run"] = "clear"
        /\ todo'["run"] = <<Call("clear", Head(todo["run"]).names \ {n})>>
    BY <1>0, <1>3, EnterSets
  <2>2. LateInHand' /\ InHandStays' /\ FewStay'
    BY <1>3, <2>1 DEF Bounded, LateInHand, InHandStays, FewStay, InCycle
  <2>3. Head(todo'["run"]).names = Head(todo["run"]).names \ {n}
    BY <2>1 DEF Call
  <2>4. ASSUME NEW s \in Stems \ late, NEW e \in Exts, IsPart(<<s, e>>)'
        PROVE  <<s, e>> \in Head(todo'["run"]).names
    <3>1. <<s, e>> \in Names
      BY DEF Names
    <3>2. <<s, e>> # n /\ dir'[<<s, e>>] = dir[<<s, e>>]
      BY <1>3, <2>4, <3>1 DEF Put, IsPart
    <3>3. <<s, e>> \in Head(todo["run"]).names
      BY <1>3, <2>4, <3>2 DEF Bounded, PartsGo, InCycle, IsPart
    <3> QED
      BY <2>3, <3>2, <3>3
  <2>5. PartsGo'
    BY <1>3, <2>1, <2>4 DEF PartsGo
  <2> QED
    BY <2>2, <2>5 DEF Bounded
<1>4. CASE TakeCounter("run")
  <2>1. /\ pc["run"] = "clear" /\ Head(todo["run"]).names = {}
        /\ UNCHANGED <<dir, late, doomed>>
    BY <1>4 DEF TakeCounter
  <2>2. pc'["run"] = "publish"
    BY <1>0, <1>4, EnterSets DEF TakeCounter
  <2>3. stem'["run"] \notin taken
    BY <1>0, <2>2, StageIs
  <2>4. InHandStays'
    BY <2>1, <2>3 DEF InHandStays, Base, TypeOK
  <2>5. LateInHand' /\ FewStay'
    BY <1>0, <2>1, <2>2 DEF Bounded, LateInHand, FewStay, InCycle
  <2>6. PartsGo'
    BY <2>1 DEF Bounded, PartsGo, InCycle, IsPart
  <2> QED
    BY <2>4, <2>5, <2>6 DEF Bounded
<1>5. CASE PublishDone("run")
  <2>1. /\ pc["run"] = "publish" /\ Len(todo["run"]) = 0
        /\ UNCHANGED <<dir, stem, late, doomed>>
    BY <1>5 DEF PublishDone
  <2>2. pc'["run"] = "scan"
    BY <1>0, <1>5, EnterSets DEF PublishDone
  <2>3. LateInHand' /\ InHandStays' /\ FewStay'
    BY <2>1, <2>2 DEF Bounded, LateInHand, InHandStays, FewStay, InCycle
  <2>4. \A e \in Exts : ~IsPart(<<stem["run"], e>>)
    <3>1. PICK s \in Stems : stem["run"] = s
      BY <1>0, <2>1 DEF Base, Stages
    <3>2. s \notin doomed
      BY <2>1, <3>1 DEF Bounded, InHandStays
    <3>3. ProgressOf("run")
      BY <1>0 DEF Whole, Progress
    <3>4. \A e \in Exts : Shown(s, e)
      BY <2>1, <3>1, <3>2, <3>3 DEF ProgressOf, Made, Exts
    <3> QED
      BY <3>1, <3>4 DEF Shown, IsFinal, IsPart
  <2>5. \A s \in Stems \ late, e \in Exts : ~IsPart(<<s, e>>)
    BY <2>1, <2>4 DEF Bounded, PartsGo, InCycle
  <2>6. PartsGo'
    BY <2>1, <2>5 DEF PartsGo, IsPart
  <2> QED
    BY <2>3, <2>6 DEF Bounded
<1>6. CASE Scan
  <2>1. pc["run"] = "scan" /\ UNCHANGED <<dir, late>> /\ pc'["run"] = "prune"
    BY <1>0, <1>6, EnterSets DEF Scan
  <2>2. LateInHand' /\ InHandStays'
    BY <1>0, <2>1 DEF Bounded, LateInHand, InHandStays, InCycle
  <2>3. PartsGo'
    BY <2>1 DEF Bounded, PartsGo, InCycle, IsPart
  <2> QED
    BY <1>6, <2>2, <2>3, FewStayAtScan DEF Bounded
<1>7. CASE PruneDone
  <2>1. /\ pc["run"] = "prune" /\ Len(todo["run"]) = 0
        /\ UNCHANGED <<dir, late>> /\ pc'["run"] = "sleep"
    BY <1>0, <1>7, EnterSets DEF PruneDone
  <2>2. LateInHand' /\ InHandStays'
    BY <1>0, <2>1 DEF Bounded, LateInHand, InHandStays, InCycle
  <2>3. PartsGo'
    BY <2>1 DEF Bounded, PartsGo, InCycle, IsPart
  <2>4. PICK K \in SUBSET Stems :
          /\ Cardinality(K) <= Keep
          /\ \A s \in Stems \ (late \union K), e \in Exts :
               Shown(s, e) => \E i \in 1..Len(todo["run"]) : <<s, e>> \in todo["run"][i].names
    BY <2>1 DEF Bounded, FewStay
  <2>5. \A s \in Stems \ (late \union K), e \in Exts : ~Shown(s, e)
    BY <2>1, <2>4
  <2>6. FewStay'
    BY <2>1, <2>4, <2>5 DEF FewStay, Shown
  <2> QED
    BY <2>2, <2>3, <2>6 DEF Bounded
<1> QED
  BY <1>1, <1>2, <1>3, <1>4, <1>5, <1>6, <1>7, RunStage

LEMMA BoundedCall ==
  ASSUME Base, Bounded, NEW p \in Agents, MakeCall(p)
  PROVE  Bounded'
<1>1. UNCHANGED <<pc, stem, late, doomed>> /\ pc[p] \in {"save", "publish", "prune"}
  BY DEF MakeCall, history
<1>2. LateInHand' /\ InHandStays'
  BY <1>1 DEF Bounded, LateInHand, InHandStays, InCycle
<1>3. \A q \in Agents : q # p => todo'[q] = todo[q]
  BY CallMade DEF Base
<1>4. CASE ~InCycle
  BY <1>1, <1>2, <1>4 DEF Bounded, PartsGo, FewStay, InCycle
<1>5. CASE p = "attest" /\ InCycle
  <2>1. pc[p] = "publish" /\ todo'["run"] = todo["run"]
    BY <1>1, <1>3, <1>5 DEF Base, Stages, Agents
  <2>2. stem[p] \in late
    <3>1. stem[p] \in Stems /\ 0 \notin Stems
      <4>1. 0 \notin Stems
        BY DEF Stems
      <4> QED
        BY <2>1, <4>1 DEF Base, Stages
    <3> QED
      BY <1>5, <3>1 DEF Bounded, LateInHand
  <2>3. \A s \in Stems \ late, e \in Exts : dir'[<<s, e>>] = dir[<<s, e>>]
    <3>1. \A s \in Stems \ late, e \in Exts : <<s, e>> \in Names /\ <<s, e>> \notin Of(stem[p])
      BY <2>2 DEF Names, Of
    <3> QED
      BY <2>1, <3>1, PublishFrame DEF Base
  <2>4. PartsGo'
    BY <1>1, <1>5, <2>1, <2>3 DEF Bounded, PartsGo, IsPart
  <2>5. FewStay'
    <3> SUFFICES ASSUME pc["run"] \in {"prune", "sleep"} PROVE FewStay'
      BY <1>1 DEF FewStay
    <3>1. PICK K \in SUBSET Stems :
            /\ Cardinality(K) <= Keep
            /\ \A s \in Stems \ (late \union K), e \in Exts :
                 Shown(s, e) => /\ pc["run"] = "prune"
                                /\ \E i \in 1..Len(todo["run"]) :
                                     <<s, e>> \in todo["run"][i].names
      BY DEF Bounded, FewStay
    <3>2. \A s \in Stems \ late, e \in Exts : Shown(s, e)' <=> Shown(s, e)
      BY <2>3 DEF Shown
    <3>3. \A s \in Stems \ (late \union K), e \in Exts :
            Shown(s, e)' => /\ pc["run"] = "prune"
                            /\ \E i \in 1..Len(todo["run"]) :
                                 <<s, e>> \in todo["run"][i].names
      BY <3>1, <3>2
    <3> QED
      BY <1>1, <2>1, <3>1, <3>3 DEF FewStay
  <2> QED
    BY <1>2, <2>4, <2>5 DEF Bounded
<1>6. CASE p = "run" /\ pc[p] = "publish"
  <2>1. \A s \in Stems \ {stem[p]}, e \in Exts : dir'[<<s, e>>] = dir[<<s, e>>]
    <3>1. \A s \in Stems \ {stem[p]}, e \in Exts : <<s, e>> \in Names /\ <<s, e>> \notin Of(stem[p])
      BY DEF Names, Of
    <3> QED
      BY <1>6, <3>1, PublishFrame DEF Base
  <2>2. PartsGo'
    BY <1>1, <1>6, <2>1 DEF Bounded, PartsGo, InCycle, IsPart
  <2>3. FewStay'
    BY <1>1, <1>6 DEF FewStay
  <2> QED
    BY <1>2, <2>2, <2>3 DEF Bounded
<1>7. CASE p = "run" /\ pc[p] = "prune"
  <2>1. PICK u \in doomed, x \in Exts :
          /\ todo[p][1].names = {<<u, x>>}
          /\ dir'[<<u, x>>] = After("remove", dir[<<u, x>>])
          /\ \A m \in Names : m # <<u, x>> => dir'[m] = dir[m]
    BY <1>7, PruneCall DEF Base
  <2>2. \A m \in Names : /\ IsPart(m)' => IsPart(m)
                         /\ IsFinal(dir'[m]) => IsFinal(dir[m]) /\ m # <<u, x>>
    <3>1. dir'[<<u, x>>] \in {dir[<<u, x>>], "none"} /\ ~IsFinal(dir'[<<u, x>>])
      BY <2>1, AfterIs DEF IsFinal
    <3> QED
      BY <2>1, <3>1 DEF IsPart
  <2>3. \A s \in Stems, e \in Exts : <<s, e>> \in Names
    BY DEF Names
  <2>4. PartsGo'
    BY <1>1, <1>7, <2>2, <2>3 DEF Bounded, PartsGo, InCycle
  <2>5. PICK K \in SUBSET Stems :
          /\ Cardinality(K) <= Keep
          /\ \A s \in Stems \ (late \union K), e \in Exts :
               Shown(s, e) => \E i \in 1..Len(todo[p]) : <<s, e>> \in todo[p][i].names
    BY <1>7 DEF Bounded, FewStay
  <2>6. ASSUME NEW s \in Stems \ (late \union K), NEW e \in Exts, Shown(s, e)'
        PROVE  \E i \in 1..Len(todo'[p]) : <<s, e>> \in todo'[p][i].names
    <3>1. Shown(s, e) /\ <<s, e>> # <<u, x>>
      BY <2>2, <2>3, <2>6 DEF Shown
    <3>2. PICK i \in 1..Len(todo[p]) : <<s, e>> \in todo[p][i].names
      BY <2>5, <3>1
    <3>3. i # 1
      BY <2>1, <3>1, <3>2
    <3>4. Len(todo[p]) \in Nat /\ Len(todo'[p]) = Len(todo[p]) - 1
      BY CallMade, LenProperties DEF Base
    <3>5. i - 1 \in 1..Len(todo'[p]) /\ i - 1 + 1 = i
      BY <3>2, <3>3, <3>4
    <3>6. \A j \in 1..Len(todo'[p]) : todo'[p][j] = todo[p][j + 1]
      BY CallMade DEF Base
    <3>7. todo'[p][i - 1] = todo[p][i]
      BY <3>5, <3>6
    <3> QED
      BY <3>2, <3>5, <3>7
  <2>7. FewStay'
    BY <1>1, <1>7, <2>5, <2>6 DEF FewStay
  <2> QED
    BY <1>2, <2>4, <2>7 DEF Bounded
<1> QED
  BY <1>1, <1>4, <1>5, <1>6, <1>7 DEF InCycle, Agents

LEMMA BoundedStep ==
  Base /\ Whole /\ Bounded /\ [Next]_vars => Bounded'
<1> SUFFICES ASSUME Base, Whole, Bounded, [Next]_vars PROVE Bounded'
  OBVIOUS
<1>1. ASSUME NEW p \in Agents, Stage(p) \/ MakeCall(p) PROVE Bounded'
  BY <1>1, BoundedAttest, BoundedRun, BoundedCall DEF Agents
<1>2. CASE PowerCut
  <2>1. pc'["run"] = "cut"
    BY <1>2, CutIs DEF Agents
  <2> QED
    BY <2>1 DEF Bounded, LateInHand, PartsGo, InHandStays, FewStay, InCycle
<1>3. CASE UNCHANGED vars
  <2> USE <1>3 DEF vars, history
  <2>1. LateInHand' /\ PartsGo' /\ InHandStays'
    BY DEF Bounded, LateInHand, PartsGo, InHandStays, InCycle, IsPart
  <2>2. FewStay'
    BY DEF Bounded, FewStay, Shown
  <2> QED
    BY <2>1, <2>2 DEF Bounded
<1> QED
  BY <1>1, <1>2, <1>3, NextIs

THEOREM BoundedAlways == Spec => []Bounded
<1>1. Init => Bounded
  BY DEF Init, Bounded, LateInHand, PartsGo, InHandStays, FewStay, InCycle, Agents
<1> QED
  BY <1>1, BoundedStep, BaseAlways, WholeAlways, PTL DEF Spec

\* Between two cycles of `run` there are at most Keep envelopes and nothing of
\* an interrupted one, but for what `attest` had in hand during the cycle
\* (main.rs prune_audit, remove_partials).
THEOREM CyclesStayBounded == Spec => []DirectoryBounded
<1>1. Base /\ Bounded => DirectoryBounded
  <2> SUFFICES ASSUME Base, Bounded, pc["run"] = "sleep"
               PROVE  Cardinality({n \in (Stems \ late) \X Exts : dir[n] # "none"}) <= 4 * Keep
    BY DEF DirectoryBounded
  <2> DEFINE There == {n \in (Stems \ late) \X Exts : dir[n] # "none"}
  <2>1. PICK K \in SUBSET Stems :
          /\ Cardinality(K) <= Keep
          /\ \A s \in Stems \ (late \union K), e \in Exts : ~Shown(s, e)
    BY DEF Bounded, FewStay
  <2>2. \A s \in Stems \ late, e \in Exts : ~IsPart(<<s, e>>)
    BY DEF Bounded, PartsGo, InCycle
  <2>3. There \subseteq K \X Exts
    <3>1. ASSUME NEW s \in Stems \ late, NEW e \in Exts, dir[<<s, e>>] # "none"
          PROVE  s \in K
      <4>1. dir[<<s, e>>] \in FileStates
        BY DEF Base, TypeOK, Names
      <4>2. Shown(s, e)
        BY <2>2, <3>1, <4>1 DEF FileStates, IsPart, Shown, IsFinal
      <4> QED
        BY <2>1, <4>2
    <3> QED
      BY <3>1
  <2>4. IsFiniteSet(K) /\ Cardinality(K) \in Nat
    BY StemsAreFinite
  <2>5. IsFiniteSet(Exts) /\ Cardinality(Exts) = 4
    <3>1. IsFiniteSet({"msg"}) /\ Cardinality({"msg"}) = 1 /\ "attest" \notin {"msg"}
      BY FS_Singleton
    <3>2. IsFiniteSet({"msg"} \union {"attest"}) /\ Cardinality({"msg"} \union {"attest"}) = 1 + 1
      BY <3>1, FS_AddElement
    <3>3. {"msg"} \union {"attest"} = {"msg", "attest"} /\ "sig" \notin {"msg", "attest"}
      OBVIOUS
    <3>4. /\ IsFiniteSet({"msg", "attest"} \union {"sig"})
          /\ Cardinality({"msg", "attest"} \union {"sig"}) = 1 + 1 + 1
      BY <3>2, <3>3, FS_AddElement
    <3>5. /\ {"msg", "attest"} \union {"sig"} = {"msg", "attest", "sig"}
          /\ "tag" \notin {"msg", "attest", "sig"}
      OBVIOUS
    <3>6. /\ IsFiniteSet({"msg", "attest", "sig"} \union {"tag"})
          /\ Cardinality({"msg", "attest", "sig"} \union {"tag"}) = 1 + 1 + 1 + 1
      BY <3>4, <3>5, FS_AddElement
    <3>7. Exts = {"msg", "attest", "sig"} \union {"tag"}
      BY DEF Exts
    <3> QED
      BY <3>6, <3>7
  <2>6. IsFiniteSet(K \X Exts) /\ Cardinality(K \X Exts) = Cardinality(K) * 4
    BY <2>4, <2>5, FS_Product
  <2> HIDE DEF There
  <2>7. Cardinality(There) \in Nat /\ Cardinality(There) <= Cardinality(K) * 4
    BY <2>3, <2>6, FS_Subset, FS_CardinalityType
  <2>8. Keep \in Nat /\ Cardinality(K) * 4 <= 4 * Keep
    BY <2>1, <2>4, AuditAssumption
  <2>9. Cardinality(There) <= 4 * Keep
    BY <2>4, <2>7, <2>8
  <2> QED
    BY <2>9 DEF There
<1> QED
  BY <1>1, BaseAlways, BoundedAlways, PTL
=============================================================================
