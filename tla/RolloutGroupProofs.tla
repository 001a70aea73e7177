------------------------- MODULE RolloutGroupProofs -------------------------
(***************************************************************************)
(* Where the groups of RolloutBatch are: every group is in one place at a  *)
(* time and none is trained twice.                                         *)
(*                                                                         *)
(* Each action of Next is first reduced to what it moves (Move), since     *)
(* most of them move no group at all.  PlaceInv is NoGroupTwice with what  *)
(* keeps it: sequences without repetition, pairs that share no group, and  *)
(* transfers and partitions that carry accepted groups only.               *)
(***************************************************************************)
EXTENDS RolloutBatchProofs, SequenceTheorems

USE DEF Positions

\* The variables that say where a group is.
GroupView == <<cfg, rid, fetched, buffer, prefetched, parked, ready, deferred,
               pendings, done, data, batch, requeued, puts, partition>>

----------------------------------------------------------------------------
(* The data source.                                                        *)

\* A sequence cut in two.
LEMMA Cut ==
    ASSUME NEW S, NEW b \in Seq(S), NEW m \in 0..Len(b)
    PROVE  LET head == SubSeq(b, 1, m)
               tail == SubSeq(b, m + 1, Len(b))
           IN  /\ Len(head) = m
               /\ tail \in Seq(S)
               /\ ToSet(head) \cup ToSet(tail) \subseteq ToSet(b)
               /\ IsInjective(b) => IsInjective(tail) /\ ToSet(head) \cap ToSet(tail) = {}
  <1> DEFINE head == SubSeq(b, 1, m)
             tail == SubSeq(b, m + 1, Len(b))
             n == Len(b)
  <1> HIDE DEF n
  <1>0. n \in Nat /\ m \in 0..n
    BY LenProperties DEF n
  <1>1. Len(b) \in Nat /\ DOMAIN b = 1..Len(b) /\ \A i \in 1..Len(b) : b[i] \in S
    BY LenProperties, ElementOfSeq
  <1>2. /\ head \in Seq(S) /\ Len(head) = m
        /\ \A i \in 1..m : head[i] = b[i]
    BY <1>1, SubSeqProperties
  <1>3. /\ tail \in Seq(S) /\ Len(tail) = Len(b) - m
        /\ \A i \in 1..(Len(b) - m) : tail[i] = b[m + i]
    <2>1. /\ tail \in Seq(S)
          /\ Len(tail) = IF m + 1 <= Len(b) THEN Len(b) - (m + 1) + 1 ELSE 0
          /\ \A i \in 1..(Len(b) - (m + 1) + 1) : tail[i] = b[(m + 1) + i - 1]
      BY <1>1, SubSeqProperties
    <2> HIDE DEF tail
    <2>2. Len(tail) = Len(b) - m
      <3>1. CASE m + 1 <= Len(b)
        BY <1>1, <2>1, <3>1
      <3>2. CASE ~(m + 1 <= Len(b))
        <4>1. ~(m + 1 <= n)
          BY <3>2 DEF n
        <4>2. m = n /\ n - m = 0
          BY <1>0, <4>1
        <4> QED
          BY <2>1, <3>2, <4>2 DEF n
      <3> QED  BY <3>1, <3>2
    <2>3. ASSUME NEW i \in 1..(Len(b) - m) PROVE tail[i] = b[m + i]
      <3>1. i \in 1..(Len(b) - (m + 1) + 1) /\ (m + 1) + i - 1 = m + i
        BY <1>1
      <3> QED
        BY <2>1, <3>1
    <2> QED
      BY <2>1, <2>2, <2>3
  <1>4. DOMAIN head = 1..m /\ DOMAIN tail = 1..(Len(b) - m)
    BY <1>2, <1>3, LenProperties
  <1> HIDE DEF head, tail
  <1>n. n \in Nat /\ m \in 0..n /\ DOMAIN b = 1..n /\ DOMAIN tail = 1..(n - m)
        /\ \A i \in 1..(n - m) : tail[i] = b[m + i]
    BY <1>1, <1>3, <1>4 DEF n
  <1>5. ToSet(head) \cup ToSet(tail) \subseteq ToSet(b)
    <2>1. \A i \in 1..m : i \in DOMAIN b
      BY <1>n
    <2>2. \A i \in 1..(n - m) : m + i \in DOMAIN b
      BY <1>n
    <2>3. ToSet(head) \subseteq ToSet(b)
      BY <1>2, <1>4, <2>1 DEF ToSet
    <2>4. ToSet(tail) \subseteq ToSet(b)
      BY <1>n, <2>2 DEF ToSet
    <2> QED  BY <2>3, <2>4
  <1>6. ASSUME IsInjective(b)
        PROVE  IsInjective(tail) /\ ToSet(head) \cap ToSet(tail) = {}
    <2>1. IsInjective(tail)
      <3>1. SUFFICES ASSUME NEW i \in 1..(n - m), NEW j \in 1..(n - m), tail[i] = tail[j]
                     PROVE  i = j
        BY <1>n DEF IsInjective
      <3>2. b[m + i] = b[m + j] /\ m + i \in DOMAIN b /\ m + j \in DOMAIN b
        BY <1>n, <3>1
      <3>3. m + i = m + j
        BY <1>6, <3>2 DEF IsInjective
      <3> QED
        BY <1>n, <3>3
    <2>2. ASSUME NEW i \in 1..m, NEW j \in 1..(n - m), head[i] = tail[j]
          PROVE  FALSE
      <3>1. b[i] = b[m + j] /\ i \in DOMAIN b /\ m + j \in DOMAIN b /\ i # m + j
        BY <1>n, <1>2, <2>2
      <3> QED
        BY <1>6, <3>1 DEF IsInjective
    <2> QED
      BY <1>n, <1>4, <2>1, <2>2 DEF ToSet
  <1> QED
    BY <1>2, <1>3, <1>5, <1>6 DEF head, tail

\* What get_samples takes is in the buffer or new, and leaves the buffer.
LEMMA Get ==
    ASSUME fetched \in Nat, buffer \in Seq(Groups), GetSamples
    PROVE  /\ fetched' \in Nat /\ fetched <= fetched'
           /\ Groups \subseteq Groups'
           /\ buffer' \in Seq(Groups')
           /\ Samples \cup ToSet(buffer') \subseteq ToSet(buffer) \cup (Groups' \ Groups)
           /\ ToSet(buffer') \subseteq ToSet(buffer)
           /\ Samples \subseteq Groups'
           /\ IsInjective(buffer) => IsInjective(buffer') /\ Samples \cap ToSet(buffer') = {}
  <1>1. OverSampling \in Nat
    BY RolloutBatchAssumption
  <1>2. Len(buffer) \in Nat /\ SubSeq(buffer, 1, Len(buffer)) = buffer
    BY LenProperties, SubSeqFull
  <1>3. PICK m \in 0..Len(buffer) : FromBuffer = SubSeq(buffer, 1, m) /\ (~cfg.async => m <= OverSampling)
    <2>1. CASE cfg.async
      <3>1. FromBuffer = SubSeq(buffer, 1, Len(buffer))
        BY <1>2, <2>1 DEF FromBuffer
      <3>2. Len(buffer) \in 0..Len(buffer)
        BY <1>2
      <3> QED
        BY <2>1, <3>1, <3>2
    <2>2. CASE ~cfg.async
      <3> DEFINE T == {Len(buffer), OverSampling}
      <3>1. \E x \in T : \A y \in T : x <= y
        BY <1>1, <1>2
      <3>2. Min(T) \in T /\ \A y \in T : Min(T) <= y
        BY <3>1 DEF Min
      <3>3. Min(T) \in 0..Len(buffer) /\ Min(T) <= OverSampling
        BY <1>1, <1>2, <3>2
      <3> QED
        BY <2>2, <3>3 DEF FromBuffer
    <2> QED
      BY <2>1, <2>2
  <1> DEFINE head == SubSeq(buffer, 1, m)
             tail == SubSeq(buffer, m + 1, Len(buffer))
  <1>4. /\ Len(head) = m
        /\ tail \in Seq(Groups)
        /\ ToSet(head) \cup ToSet(tail) \subseteq ToSet(buffer)
        /\ IsInjective(buffer) => IsInjective(tail) /\ ToSet(head) \cap ToSet(tail) = {}
    BY Cut
  <1> HIDE DEF head, tail
  <1>5. FromBuffer = head /\ buffer' = tail
    BY <1>3, <1>4 DEF GetSamples, head, tail
  <1>6. FreshCount \in Nat /\ fetched' = fetched + FreshCount
    BY <1>1, <1>3, <1>4, <1>5 DEF GetSamples, FreshCount
  <1>7. fetched' \in Nat /\ fetched <= fetched'
    BY <1>6
  <1>8. Groups \subseteq Groups' /\ (fetched + 1)..(fetched + FreshCount) = Groups' \ Groups
    BY <1>6, <1>7 DEF Groups
  <1>9. Samples = ToSet(head) \cup (Groups' \ Groups)
    BY <1>5, <1>8 DEF Samples
  <1>10. ToSet(buffer) \subseteq Groups
    BY LenProperties, ElementOfSeq DEF ToSet
  <1>11. tail \in Seq(Groups')
    BY <1>4, <1>8, SeqMonotonic
  <1> QED
    BY <1>4, <1>5, <1>7, <1>8, <1>9, <1>10, <1>11

\* The same of the samples a step takes, from a pre-fetched reference or now.
LEMMA Take ==
    ASSUME fetched \in Nat, buffer \in Seq(Groups), prefetched \subseteq Groups, TakeSamples
    PROVE  /\ fetched' \in Nat /\ fetched <= fetched'
           /\ Groups \subseteq Groups'
           /\ buffer' \in Seq(Groups')
           /\ ToSet(buffer') \subseteq ToSet(buffer) /\ prefetched' = {}
           /\ Taken \subseteq ToSet(buffer) \cup prefetched \cup (Groups' \ Groups)
           /\ Taken \subseteq Groups'
           /\ IsInjective(buffer) /\ ToSet(buffer) \cap prefetched = {} =>
                  IsInjective(buffer') /\ Taken \cap ToSet(buffer') = {}
  <1>1. CASE prefetched # {}
    <2>1. UNCHANGED <<fetched, buffer>> /\ prefetched' = {} /\ Taken = prefetched
      BY <1>1 DEF TakeSamples, Taken
    <2>2. Groups' = Groups
      BY <2>1 DEF Groups
    <2> QED
      BY <2>1, <2>2
  <1>2. CASE prefetched = {}
    <2>1. GetSamples /\ prefetched' = {} /\ Taken = Samples
      BY <1>2 DEF TakeSamples, Taken
    <2> QED
      BY <2>1, Get
  <1> QED
    BY <1>1, <1>2

\* The same of one more group, and of what a step gives back.
LEMMA Added ==
    ASSUME NEW S, NEW s \in Seq(S), NEW g \in S
    PROVE  /\ Append(s, g) \in Seq(S)
           /\ ToSet(Append(s, g)) = ToSet(s) \cup {g}
           /\ IsInjective(s) /\ g \notin ToSet(s) => IsInjective(Append(s, g))
  <1>1. Len(s) \in Nat /\ DOMAIN s = 1..Len(s)
    BY LenProperties
  <1>2. /\ Append(s, g) \in Seq(S) /\ Len(Append(s, g)) = Len(s) + 1
        /\ \A i \in 1..Len(s) : Append(s, g)[i] = s[i]
        /\ Append(s, g)[Len(s) + 1] = g
    BY AppendProperties
  <1>3. DOMAIN Append(s, g) = 1..(Len(s) + 1)
    BY <1>2, LenProperties
  <1> DEFINE t == Append(s, g)
  <1> HIDE DEF t
  <1>4. /\ DOMAIN t = 1..(Len(s) + 1) /\ \A i \in 1..Len(s) : t[i] = s[i]
        /\ t[Len(s) + 1] = g
    BY <1>2, <1>3 DEF t
  <1>5. ToSet(t) = ToSet(s) \cup {g}
    <2>1. \A i \in 1..(Len(s) + 1) : i \in 1..Len(s) \/ i = Len(s) + 1
      BY <1>1
    <2>2. 1..Len(s) \subseteq 1..(Len(s) + 1) /\ Len(s) + 1 \in 1..(Len(s) + 1)
      BY <1>1
    <2> QED
      BY <1>1, <1>4, <2>1, <2>2 DEF ToSet
  <1>6. ASSUME IsInjective(s), g \notin ToSet(s) PROVE IsInjective(t)
    <2>1. \A i \in 1..Len(s) : s[i] # g
      BY <1>1, <1>6 DEF ToSet
    <2>2. \A i \in 1..(Len(s) + 1) : i \in 1..Len(s) \/ i = Len(s) + 1
      BY <1>1
    <2> QED
      BY <1>1, <1>4, <1>6, <2>1, <2>2 DEF IsInjective
  <1> QED
    BY <1>2, <1>5, <1>6 DEF t

LEMMA Joined ==
    ASSUME NEW S, NEW s \in Seq(S), NEW t \in Seq(S)
    PROVE  /\ s \o t \in Seq(S)
           /\ ToSet(s \o t) = ToSet(s) \cup ToSet(t)
           /\ IsInjective(s) /\ IsInjective(t) /\ ToSet(s) \cap ToSet(t) = {} =>
                  IsInjective(s \o t)
  <1>1. /\ Len(s) \in Nat /\ DOMAIN s = 1..Len(s)
        /\ Len(t) \in Nat /\ DOMAIN t = 1..Len(t)
    BY LenProperties
  <1> DEFINE u == s \o t
  <1>2. /\ u \in Seq(S) /\ Len(u) = Len(s) + Len(t)
        /\ \A i \in 1..(Len(s) + Len(t)) :
               u[i] = IF i <= Len(s) THEN s[i] ELSE t[i - Len(s)]
    BY ConcatProperties
  <1>3. DOMAIN u = 1..(Len(s) + Len(t))
    BY <1>2, LenProperties
  <1> HIDE DEF u
  <1>4. /\ \A i \in 1..Len(s) : i \in DOMAIN u /\ u[i] = s[i]
        /\ \A i \in 1..Len(t) : Len(s) + i \in DOMAIN u /\ u[Len(s) + i] = t[i]
        /\ \A i \in DOMAIN u : i \in 1..Len(s) \/ \E j \in 1..Len(t) : i = Len(s) + j
    <2>1. \A i \in 1..Len(s) : i \in DOMAIN u /\ u[i] = s[i]
      BY <1>1, <1>2, <1>3
    <2>2. ASSUME NEW i \in 1..Len(t)
          PROVE  Len(s) + i \in DOMAIN u /\ u[Len(s) + i] = t[i]
      <3>1. /\ Len(s) + i \in 1..(Len(s) + Len(t))
            /\ ~(Len(s) + i <= Len(s)) /\ (Len(s) + i) - Len(s) = i
        BY <1>1
      <3> QED
        BY <1>2, <1>3, <3>1
    <2>3. ASSUME NEW i \in DOMAIN u, i \notin 1..Len(s)
          PROVE  \E j \in 1..Len(t) : i = Len(s) + j
      <3>1. i - Len(s) \in 1..Len(t) /\ i = Len(s) + (i - Len(s))
        BY <1>1, <1>3, <2>3
      <3> QED  BY <3>1
    <2> QED  BY <2>1, <2>2, <2>3
  <1>5. ToSet(u) = ToSet(s) \cup ToSet(t)
    <2>1. ASSUME NEW x \in ToSet(u) PROVE x \in ToSet(s) \cup ToSet(t)
      BY <1>1, <1>4, <2>1 DEF ToSet
    <2>2. ToSet(s) \subseteq ToSet(u)
      BY <1>1, <1>4 DEF ToSet
    <2>3. ToSet(t) \subseteq ToSet(u)
      BY <1>1, <1>4 DEF ToSet
    <2> QED  BY <2>1, <2>2, <2>3
  <1>6. ASSUME IsInjective(s), IsInjective(t), ToSet(s) \cap ToSet(t) = {}
        PROVE  IsInjective(u)
    <2>1. \A i \in 1..Len(s), j \in 1..Len(t) : s[i] # t[j]
      BY <1>1, <1>6 DEF ToSet
    <2>2. SUFFICES ASSUME NEW a \in DOMAIN u, NEW b \in DOMAIN u, u[a] = u[b] PROVE a = b
      BY DEF IsInjective
    <2>3. CASE a \in 1..Len(s) /\ b \in 1..Len(s)
      BY <1>1, <1>4, <1>6, <2>2, <2>3 DEF IsInjective
    <2>4. CASE a \in 1..Len(s) /\ b \notin 1..Len(s)
      BY <1>4, <2>1, <2>2, <2>4
    <2>5. CASE a \notin 1..Len(s) /\ b \in 1..Len(s)
      BY <1>4, <2>1, <2>2, <2>5
    <2>6. CASE a \notin 1..Len(s) /\ b \notin 1..Len(s)
      <3>1. PICK i \in 1..Len(t), j \in 1..Len(t) : a = Len(s) + i /\ b = Len(s) + j
        BY <1>4, <2>6
      <3>2. t[i] = t[j]
        BY <1>4, <2>2, <3>1
      <3> QED
        BY <1>1, <1>6, <3>1, <3>2 DEF IsInjective
    <2> QED  BY <2>3, <2>4, <2>5, <2>6
  <1> QED
    BY <1>2, <1>5, <1>6 DEF u

----------------------------------------------------------------------------
(* What each operation of the loop does to the places of the groups.       *)

\* A batch is filled from the front of a set of candidates.
LEMMA FirstAreCandidates == \A S, pairs, k : FirstReady(S, pairs, k) \subseteq S
  BY DEF FirstReady

\* Judging moves one group out of done, to the accepted ones, to those given
\* back or nowhere, and submits arms that waited for it.
JudgeMove(g, arms) ==
    /\ pc = "process" /\ pc' \in {"process", "failed"}
    /\ g \in done /\ done' = done \ {g}
    /\ UNCHANGED <<cfg, rid, fetched, buffer, prefetched, parked, ready, puts,
                   putFailed, partition>>
    /\ arms \subseteq ArmOf(g)
    /\ pendings' = pendings \cup arms /\ live' = live \cup arms
    /\ \/ arms = {} /\ UNCHANGED <<deferred, stamp>>
       \/ /\ deferred' = {p \in deferred : p[1] # g}
          /\ stamp' = [a \in DOMAIN stamp \cup arms |->
                           IF a \in arms THEN [by |-> g, passes |-> result[g]]
                           ELSE stamp[a]]
    /\ \/ Accept(g) /\ UNCHANGED requeued
       \/ /\ UNCHANGED <<data, batch>>
          /\ result' \in {result, Without(result, g)}
          /\ requeued' \in {requeued, Append(requeued, g)}
    /\ PairMode => requeued' = requeued
    /\ result[g] = Raised => pc' = "failed" /\ UNCHANGED <<data, requeued>>

\* And what it does to the slots: the group is accepted with its slot, or
\* forgotten and its slot freed, or passed on to its oracle arm, or, in a full
\* step of a filter mode, still counted.
JudgeSlots(g, arms) ==
    \/ pc' = "failed" /\ UNCHANGED remaining
    \/ /\ arms = {} /\ UNCHANGED data
       /\ \/ remaining' = remaining - 1
          \/ PairMode /\ remaining' = Max({0, remaining - 1})
          \/ ~PairMode /\ Full /\ UNCHANGED remaining
    \/ /\ ~Full /\ data' = data \cup {g}
       /\ \/ remaining' = remaining + Cardinality(arms)
          \/ arms = {} /\ UNCHANGED remaining
    \/ /\ ~Full /\ UNCHANGED data
       /\ \/ remaining' = remaining - 1 + Cardinality(arms)
          \/ arms = OracleArm(g) /\ arms # {} /\ UNCHANGED remaining

\* And what it decides in the pair modes: nothing, or which arm follows from the
\* outcome of the group, and whether the group itself is kept.
JudgeArms(g, arms) ==
    \/ arms = {} /\ UNCHANGED data
    \/ result[g] \in Outcomes /\ Keeps(g) /\ Accept(g) /\ arms = SlateArm(g)
    \/ result[g] \in Outcomes /\ ~Keeps(g) /\ UNCHANGED data /\ arms = SlateArm(g)
    \/ UNCHANGED data /\ arms = OracleArm(g)

LEMMA Judging ==
    ASSUME NEW g, JudgeGroup(g)
    PROVE  \E arms : /\ JudgeMove(g, arms)
                     /\ JudgeSlots(g, arms)
                     /\ PairMode => JudgeArms(g, arms)
  <1> USE DEF Judge, Stay, sourceVars, putVars, JudgeSlots
  <1>0. Raised # Aborted /\ Raised \notin Outcomes
    BY RolloutBatchAssumption DEF Raised, Aborted, Outcomes
  <1>1. CASE JudgeError(g)
    <2>1. JudgeMove(g, {})
      BY <1>1 DEF JudgeError, JudgeMove
    <2>2. JudgeSlots(g, {})
      BY <1>1 DEF JudgeError
    <2>3. PairMode => JudgeArms(g, {})
      BY <1>1 DEF JudgeError, JudgeArms
    <2> QED  BY <2>1, <2>2, <2>3
  <1>2. CASE DropLate(g)
    <2>1. JudgeMove(g, {})
      BY <1>2 DEF DropLate, Forget, JudgeMove
    <2>2. JudgeSlots(g, {})
      BY <1>2 DEF DropLate, Forget
    <2>3. PairMode => JudgeArms(g, {})
      BY <1>2 DEF DropLate, Forget, JudgeArms
    <2> QED  BY <2>1, <2>2, <2>3
  <1>3. CASE DropRejected(g)
    <2>1. JudgeMove(g, {})
      BY <1>3 DEF DropRejected, Forget, JudgeMove
    <2>2. JudgeSlots(g, {})
      BY <1>3 DEF DropRejected, Forget
    <2>3. PairMode => JudgeArms(g, {})
      BY <1>3 DEF DropRejected, Forget, JudgeArms
    <2> QED  BY <2>1, <2>2, <2>3
  <1>4. CASE DropAborted(g)
    <2>1. JudgeMove(g, {})
      BY <1>0, <1>4 DEF DropAborted, WasAborted, Forget, JudgeMove
    <2>2. JudgeSlots(g, {})
      BY <1>4 DEF DropAborted, Forget
    <2>3. PairMode => JudgeArms(g, {})
      BY <1>4 DEF DropAborted, Forget, JudgeArms
    <2> QED  BY <2>1, <2>2, <2>3
  <1>5. CASE KeepFiltered(g)
    <2>1. JudgeMove(g, {})
      BY <1>0, <1>5 DEF KeepFiltered, AcceptIfRoom, Forget, JudgeMove
    <2>2. JudgeSlots(g, {})
      BY <1>5 DEF KeepFiltered, AcceptIfRoom, Accept, Forget
    <2>3. PairMode => JudgeArms(g, {})
      BY <1>5 DEF KeepFiltered, JudgeArms
    <2> QED  BY <2>1, <2>2, <2>3
  <1>6. CASE KeepGroup(g)
    <2>1. JudgeMove(g, SlateArm(g))
      BY <1>0, <1>6 DEF KeepGroup, JudgePair, SubmitArms, Submit, SlateArm, JudgeMove
    <2>2. JudgeSlots(g, SlateArm(g))
      BY <1>6 DEF KeepGroup, JudgePair, Accept, ArmSlots
    <2>3. PairMode => JudgeArms(g, SlateArm(g))
      BY <1>6 DEF KeepGroup, JudgePair, JudgeArms
    <2> QED  BY <2>1, <2>2, <2>3
  <1>7. CASE RefuseGroup(g)
    <2>1. JudgeMove(g, SlateArm(g))
      BY <1>0, <1>7 DEF RefuseGroup, JudgePair, SubmitArms, Submit, SlateArm, Forget, JudgeMove
    <2>2. JudgeSlots(g, SlateArm(g))
      BY <1>7 DEF RefuseGroup, JudgePair, Forget, FreedSlots, ArmSlots
    <2>3. PairMode => JudgeArms(g, SlateArm(g))
      BY <1>7 DEF RefuseGroup, JudgePair, Forget, JudgeArms
    <2> QED  BY <2>1, <2>2, <2>3
  <1>8. CASE Rescue(g)
    <2>1. OracleArm(g) \subseteq ArmOf(g)
      BY DEF OracleArm
    <2>2. JudgeMove(g, OracleArm(g))
      BY <1>0, <1>8, <2>1 DEF Rescue, JudgePair, SubmitArms, Submit, Forget, JudgeMove
    <2>3. JudgeSlots(g, OracleArm(g))
      BY <1>8 DEF Rescue, JudgePair, Forget
    <2>4. PairMode => JudgeArms(g, OracleArm(g))
      BY <1>8 DEF Rescue, JudgePair, Forget, JudgeArms
    <2> QED  BY <2>2, <2>3, <2>4
  <1> QED
    BY <1>1, <1>2, <1>3, <1>4, <1>5, <1>6, <1>7, <1>8 DEF JudgeGroup

\* Filling moves candidates to the tasks: from the backlog, or from a fetch.
FetchMove(S, first) ==
    /\ pc = "fetch" /\ pc' = "fill"
    /\ TakeSamples /\ S = Taken
    /\ pendings' = pendings \cup first /\ live' = live \cup first
    /\ UNCHANGED <<cfg, rid, stamp, result, done, data, batch, requeued, puts,
                   putFailed, partition>>
    /\ \/ /\ ~PairMode /\ first = S
          /\ UNCHANGED <<parked, deferred, ready>>
       \/ LET rows == parked \cup {g \in S : IsNoSkill(g) \/ IsArm(g)}
              pairs == IF PairsOn THEN Pairing(rows) ELSE {}
              paired == {p[1] : p \in pairs} \cup {p[2] : p \in pairs}
              plain == {g \in S : ~IsNoSkill(g) /\ ~IsArm(g)}
              candidates == plain \cup IF PairsOn THEN {p[1] : p \in pairs}
                                       ELSE {g \in S : IsNoSkill(g)}
          IN  /\ first \subseteq candidates
              /\ parked' = IF PairsOn THEN rows \ paired ELSE parked
              /\ deferred' = deferred \cup pairs
              /\ ready' = candidates \ first

ReadyMove(first) ==
    /\ pc = "fill" /\ pc' = "fill"
    /\ first \subseteq ready /\ ready' = ready \ first
    /\ pendings' = pendings \cup first /\ live' = live \cup first
    /\ UNCHANGED <<cfg, rid, fetched, buffer, prefetched, parked, deferred, stamp,
                   result, done, data, batch, requeued, puts, putFailed, partition>>

LEMMA Fetching == ASSUME FetchAll \/ FetchPairs PROVE \E S, first : FetchMove(S, first)
  <1> USE DEF judgeVars, putVars
  <1>1. CASE FetchAll
    <2>1. FetchMove(Taken, Taken)
      BY <1>1 DEF FetchAll, Submit, cacheVars, FetchMove
    <2> QED  BY <2>1
  <1>2. CASE FetchPairs
    <2> DEFINE S == Taken
               rows == parked \cup {g \in S : IsNoSkill(g) \/ IsArm(g)}
               pairs == IF PairsOn THEN Pairing(rows) ELSE {}
               plain == {g \in S : ~IsNoSkill(g) /\ ~IsArm(g)}
               candidates == plain \cup IF PairsOn THEN {p[1] : p \in pairs}
                                        ELSE {g \in S : IsNoSkill(g)}
               first == FirstReady(candidates, pairs, Capacity - remaining)
    <2>1. first \subseteq candidates
      BY FirstAreCandidates
    <2>2. FetchMove(S, first)
      BY <1>2, <2>1 DEF FetchPairs, Prepare, Submit, FetchMove
    <2> QED  BY <2>2
  <1> QED  BY <1>1, <1>2

LEMMA Refilling == ASSUME FillFromReady PROVE \E first : ReadyMove(first)
  <1> DEFINE first == FirstReady(ready, deferred, Capacity - remaining)
  <1>1. first \subseteq ready
    BY FirstAreCandidates
  <1>2. ReadyMove(first)
    BY <1>1 DEF FillFromReady, Submit, ReadyMove, stepVars, sourceVars, judgeVars, putVars
  <1> QED  BY <1>2

\* A task ends, while the loop wants it or after.
EndMove(g) ==
    /\ g \in live /\ live' = live \ {g}
    /\ UNCHANGED <<GroupView, stamp>>
    /\ \/ /\ pc \in {"fetch", "wait"} /\ pc' = pc
          /\ \E r \in Outcomes \cup {Aborted, Raised} :
                 result' = [h \in DOMAIN result \cup {g} |-> IF h = g THEN r ELSE result[h]]
       \/ pc = "drain" /\ pc' = "drain" /\ UNCHANGED result

\* A transfer ends, with its batch, or part of it, in the partition.
PutMove(b, T) ==
    /\ b \in puts /\ puts' = puts \ {b}
    /\ T \subseteq b /\ partition' = [partition EXCEPT ![rid] = @ \cup T]
    /\ UNCHANGED <<pc, cfg, rid, fetched, buffer, prefetched, parked, ready, deferred,
                   stamp, pendings, live, result, done, data, batch, requeued>>

\* Everything else leaves the groups where they are.
Still == /\ UNCHANGED <<GroupView, live, result, stamp>>
         /\ pc' \in Looping => pc \in Looping \cup {"idle"}

Move ==
    \/ Still
    \/ \E first : ReadyMove(first)
    \/ \E S, first : FetchMove(S, first)
    \/ \E g : EndMove(g)
    \/ Collect
    \/ \E g, arms : JudgeMove(g, arms) /\ (PairMode => JudgeArms(g, arms))
    \/ JudgedAll
    \/ \E b, T : PutMove(b, T)
    \/ AbortRaises
    \/ StepReturns

LEMMA Moves == Next => Move
  <1> SUFFICES ASSUME Next PROVE Move
    OBVIOUS
  <1> USE DEF GroupView, sourceVars, cacheVars, taskVars, judgeVars, putVars, Looping
  <1>1. ASSUME StepLoop \/ FillDone \/ FillFetches \/ Gathered \/ GatherRaises
               \/ AbortBegins \/ AbortRequests \/ AbortSent
        PROVE  Still
    BY <1>1 DEF Fail, stepVars, StepLoop, StartStep, StepLoopFails, FillDone, FillFetches, Gathered,
                GatherRaises, AbortBegins, AbortRequests, AbortSent, Still
  <1>2. ASSUME NEW e, Evaluate(e) \/ Eval(e) PROVE Still
    BY <1>2 DEF Evaluate, Eval, EvalLock, EvalGate, EvalReturns, EvalRaises, EvalEnds, Still,
                stepVars
  <1>3. CASE Fill
    BY <1>1, <1>3, Refilling, Fetching DEF Fill, Move
  <1>4. CASE Collecting
    BY <1>4, Judging DEF Collecting, Move
  <1>5. CASE Ending
    BY <1>1, <1>5 DEF Ending, Move
  <1>6. ASSUME NEW g, NEW r \in Outcomes \cup {Aborted, Raised}, Finish(g, r) PROVE EndMove(g)
    BY <1>6 DEF Finish, EndMove, stepVars
  <1>7. CASE Task
    <2>1. PICK g \in live : \/ Succeed(g) \/ EndBadly(g) \/ Break(g)
                            \/ FinishLate(g) \/ BreakLate(g)
      BY <1>7 DEF Task
    <2>2. N \in Nat /\ 0 \in Outcomes /\ N \in Outcomes
      BY RolloutBatchAssumption DEF Outcomes
    <2>3. CASE Succeed(g)
      BY <1>6, <2>3 DEF Succeed, Move
    <2>4. CASE EndBadly(g)
      BY <1>6, <2>2, <2>4 DEF EndBadly, Move
    <2>5. CASE Break(g)
      BY <1>6, <2>5 DEF Break, Move
    <2>6. CASE FinishLate(g) \/ BreakLate(g)
      <3>1. EndMove(g)
        BY <2>6 DEF FinishLate, BreakLate, EndsLate, EndMove, stepVars
      <3> QED  BY <3>1 DEF Move
    <2> QED  BY <2>1, <2>3, <2>4, <2>5, <2>6
  <1>8. CASE Transfer
    <2>1. PICK b \in puts : PutDone(b) \/ PutRaises(b)
      BY <1>8 DEF Transfer
    <2>2. CASE PutDone(b)
      <3>1. PutMove(b, b)
        BY <2>2 DEF PutDone, Put, PutMove, stepVars
      <3> QED  BY <3>1 DEF Move
    <2>3. CASE PutRaises(b)
      <3>1. PICK T \in {{}, b} : partition' = [partition EXCEPT ![rid] = @ \cup T]
        BY <2>3 DEF PutRaises
      <3>2. PutMove(b, T)
        BY <2>3, <3>1 DEF PutRaises, Put, PutMove, stepVars
      <3> QED  BY <3>2 DEF Move
    <2> QED  BY <2>1, <2>2, <2>3
  <1> QED
    BY <1>1, <1>2, <1>3, <1>4, <1>5, <1>7, <1>8 DEF Next, Rollout, Move

----------------------------------------------------------------------------
(* Types.                                                                  *)

CountTypes ==
    /\ rid <= cfg.rollouts
    /\ dropped \in Nat /\ rejects \in Nat /\ bad \in Nat /\ faults \in Nat
    /\ putFailed \in BOOLEAN
    /\ lock \subseteq Evals /\ evaluating \subseteq Evals /\ handler \subseteq Evals

GroupTypes ==
    /\ fetched \in Nat
    /\ prefetched \subseteq Groups /\ parked \subseteq Groups
    /\ ready \subseteq Groups /\ deferred \subseteq Groups \X Groups
    /\ pendings \subseteq Groups /\ live \subseteq Groups
    /\ done \subseteq Groups /\ data \subseteq Groups /\ batch \subseteq Groups
    /\ buffer \in Seq(Groups) /\ requeued \in Seq(Groups)
    /\ puts \subseteq SUBSET Groups
    /\ partition \in [Steps -> SUBSET Groups]
    /\ DOMAIN result \subseteq Groups
    /\ \A g \in DOMAIN result : result[g] \in Outcomes \cup {Aborted, Raised}
    /\ DOMAIN stamp \subseteq Groups

LEMMA InitTypes == Init => CountTypes /\ GroupTypes
  <1> SUFFICES ASSUME Init PROVE CountTypes /\ GroupTypes
    OBVIOUS
  <1>1. CountTypes
    <2>1. rid <= cfg.rollouts
      <3>1. rid = 0 /\ cfg \in Configs
        BY DEF Init
      <3> QED
        BY <3>1, Numbers
    <2> QED
      BY <2>1 DEF Init, CountTypes
  <1>2. << >> \in Seq(Groups)
    BY EmptySeq
  <1>3. partition \in [Steps -> SUBSET Groups]
    BY DEF Init
  <1>4. DOMAIN << >> = {}
    OBVIOUS
  <1>5. GroupTypes
    BY <1>2, <1>3, <1>4 DEF Init, GroupTypes
  <1> QED  BY <1>1, <1>5

LEMMA CountTypesStep == ASSUME StepInv, CountTypes, Next PROVE CountTypes'
  <1> USE DEF CountTypes, bounds
  <1>1. CASE StepLoop
    BY <1>1 DEF StepLoop, StartStep, StepLoopFails, Fail, judgeVars, putVars, evalVars
  <1>2. CASE Fill
    BY <1>2 DEF Fill, FillDone, FillFromReady, FillFetches, FetchAll, FetchPairs,
                judgeVars, putVars, evalVars, stepVars
  <1>3. CASE Collect \/ JudgedAll
    BY <1>3 DEF Collect, JudgedAll, putVars, evalVars
  <1>4. ASSUME NEW g, JudgeGroup(g) PROVE CountTypes'
    <2>1. UNCHANGED <<cfg, rid, putVars, evalVars, bounds>>
      BY <1>4 DEF JudgeGroup, JudgeError, DropLate, DropRejected, DropAborted,
             KeepFiltered, KeepGroup, RefuseGroup, Rescue, JudgePair, Judge
    <2>2. dropped' \in {dropped, dropped + 1} /\ rejects' \in {rejects, rejects + 1}
      BY <1>4 DEF JudgeGroup, JudgeError, DropLate, DropRejected, DropAborted,
             KeepFiltered, KeepGroup, RefuseGroup, Rescue, JudgePair, CountReject
    <2> QED
      BY <2>1, <2>2 DEF putVars, evalVars
  <1>5. CASE Ending
    <2>1. CASE StepReturns
      BY <2>1, Numbers DEF StepReturns, StepInv, Closing, Steps, putVars, evalVars
    <2> QED
      BY <1>5, <2>1 DEF Ending, Gathered, GatherRaises, AbortBegins, AbortRequests,
          AbortSent, AbortRaises, Fail, Fault, judgeVars, putVars, evalVars
  <1>6. CASE Task
    BY <1>6 DEF Task, Succeed, EndBadly, Break, BreakLate, Fault, FinishLate, EndsLate, Finish,
                judgeVars, putVars, evalVars, stepVars
  <1>7. CASE Transfer
    <2>1. /\ UNCHANGED <<cfg, rid, dropped, rejects, evalVars>>
          /\ bad' = bad /\ (faults' = faults \/ faults' = faults + 1)
          /\ putFailed' = putFailed \/ putFailed' = TRUE
      BY <1>7 DEF Transfer, PutDone, PutRaises, Put, Fault, judgeVars, stepVars
    <2>2. faults' \in Nat
      BY <2>1
    <2>3. putFailed' \in BOOLEAN
      BY <2>1, Zenon
    <2> QED
      BY <2>1, <2>2, <2>3 DEF evalVars
  <1>8. ASSUME NEW e \in Evals, Evaluate(e) \/ Eval(e) PROVE CountTypes'
    BY <1>8 DEF Evaluate, Eval, EvalLock, EvalGate, EvalReturns, EvalRaises, EvalEnds,
                Counted, Fault, judgeVars, putVars, stepVars
  <1> QED
    BY <1>1, <1>2, <1>3, <1>4, <1>5, <1>6, <1>7, <1>8 DEF Next, Rollout, Collecting

\* In a data source that has grown, every group is still a group.
LEMMA GroupsGrow ==
    ASSUME GroupTypes, Groups \subseteq Groups', Steps' = Steps, fetched' \in Nat,
           prefetched' \subseteq Groups', buffer' \in Seq(Groups'),
           parked' \subseteq Groups', ready' \subseteq Groups',
           deferred' \subseteq Groups' \X Groups', pendings' \subseteq Groups',
           live' \subseteq Groups', puts' \subseteq SUBSET Groups',
           batch' \subseteq Groups',
           UNCHANGED <<done, data, requeued, partition, result, stamp>>
    PROVE  GroupTypes'
  <1>1. requeued' \in Seq(Groups')
    BY SeqMonotonic DEF GroupTypes
  <1>2. partition' \in [Steps' -> SUBSET Groups']
    BY DEF GroupTypes
  <1> QED
    BY <1>1, <1>2 DEF GroupTypes, Outcomes

LEMMA FetchTypes == ASSUME GroupTypes, NEW S, NEW first, FetchMove(S, first) PROVE GroupTypes'
  <1>1. /\ fetched' \in Nat /\ Groups \subseteq Groups' /\ buffer' \in Seq(Groups')
        /\ prefetched' = {} /\ S \subseteq Groups'
    BY Take DEF GroupTypes, FetchMove
  <1>2. Steps' = Steps
    BY DEF FetchMove, Steps
  <1>3. /\ first \subseteq Groups' /\ parked' \subseteq Groups' /\ ready' \subseteq Groups'
        /\ deferred' \subseteq Groups' \X Groups'
    <2> DEFINE rows == parked \cup {g \in S : IsNoSkill(g) \/ IsArm(g)}
               pairs == IF PairsOn THEN Pairing(rows) ELSE {}
               plain == {g \in S : ~IsNoSkill(g) /\ ~IsArm(g)}
               candidates == plain \cup IF PairsOn THEN {p[1] : p \in pairs}
                                        ELSE {g \in S : IsNoSkill(g)}
    <2>1. rows \subseteq Groups' /\ plain \subseteq Groups'
      BY <1>1 DEF GroupTypes
    <2>2. pairs \subseteq Groups' \X Groups'
      BY <2>1 DEF Pairing
    <2>3. candidates \subseteq Groups'
      BY <1>1, <2>1, <2>2
    <2>4. CASE first = S /\ UNCHANGED <<parked, deferred, ready>>
      BY <1>1, <2>4 DEF GroupTypes
    <2>5. CASE /\ first \subseteq candidates
               /\ parked' \subseteq rows \cup parked
               /\ deferred' = deferred \cup pairs
               /\ ready' = candidates \ first
      <3> HIDE DEF rows, pairs, candidates
      <3> QED
        BY <1>1, <2>1, <2>2, <2>3, <2>5 DEF GroupTypes
    <2> QED
      BY <2>4, <2>5 DEF FetchMove
  <1>4. /\ pendings' \subseteq Groups' /\ live' \subseteq Groups'
        /\ puts' \subseteq SUBSET Groups' /\ batch' \subseteq Groups'
    BY <1>1, <1>3 DEF FetchMove, GroupTypes
  <1> QED
    BY <1>1, <1>2, <1>3, <1>4, GroupsGrow DEF FetchMove

LEMMA JudgeTypes == ASSUME GroupTypes, NEW g, NEW arms, JudgeMove(g, arms) PROVE GroupTypes'
  <1>1. Groups' = Groups /\ Steps' = Steps /\ Outcomes' = Outcomes
    BY DEF JudgeMove, Groups, Steps, Outcomes
  <1>2. g \in Groups /\ arms \subseteq Groups
    BY DEF JudgeMove, ArmOf, GroupTypes
  <1>3. /\ fetched' \in Nat /\ prefetched' \subseteq Groups /\ parked' \subseteq Groups
        /\ ready' \subseteq Groups /\ deferred' \subseteq Groups \X Groups
        /\ pendings' \subseteq Groups /\ live' \subseteq Groups /\ done' \subseteq Groups
        /\ buffer' \in Seq(Groups) /\ puts' \subseteq SUBSET Groups
        /\ partition' \in [Steps -> SUBSET Groups]
        /\ DOMAIN stamp' \subseteq Groups
    BY <1>2 DEF JudgeMove, GroupTypes
  <1>4. data' \subseteq Groups /\ batch' \subseteq Groups
    BY <1>2 DEF JudgeMove, GroupTypes, Accept
  <1>5. requeued' \in Seq(Groups)
    <2>1. requeued' = requeued \/ requeued' = Append(requeued, g)
      BY DEF JudgeMove
    <2>2. requeued \in Seq(Groups)
      BY DEF GroupTypes
    <2> QED
      BY <1>2, <2>1, <2>2, Added
  <1>6. /\ DOMAIN result' \subseteq Groups
        /\ \A h \in DOMAIN result' : result'[h] \in Outcomes \cup {Aborted, Raised}
    BY DEF JudgeMove, GroupTypes, Accept, Without
  <1> QED
    BY <1>1, <1>3, <1>4, <1>5, <1>6 DEF GroupTypes

LEMMA GroupTypesStep == ASSUME GroupTypes, Move PROVE GroupTypes'
  <1>1. CASE Still
    BY <1>1 DEF Still, GroupView, GroupTypes, Groups, Steps, Outcomes
  <1>2. ASSUME NEW first, ReadyMove(first) PROVE GroupTypes'
    BY <1>2 DEF ReadyMove, GroupTypes, Groups, Steps, Outcomes
  <1>3. ASSUME NEW g, EndMove(g) PROVE GroupTypes'
    <2>1. Groups' = Groups /\ Steps' = Steps /\ Outcomes' = Outcomes
      BY <1>3 DEF EndMove, GroupView, Groups, Steps, Outcomes
    <2>2. /\ DOMAIN result' \subseteq Groups
          /\ \A h \in DOMAIN result' : result'[h] \in Outcomes \cup {Aborted, Raised}
      BY <1>3 DEF EndMove, GroupTypes
    <2> QED
      BY <1>3, <2>1, <2>2 DEF EndMove, GroupView, GroupTypes
  <1>4. CASE Collect
    BY <1>4 DEF Collect, sourceVars, cacheVars, putVars, GroupTypes, Groups, Steps, Outcomes
  <1>5. CASE JudgedAll
    <2>1. /\ Steps' = Steps
          /\ UNCHANGED <<parked, ready, deferred, stamp, pendings, live, result, done, data,
                         requeued, partition>>
          /\ puts' \in {puts, puts \cup {batch}} /\ batch' \in {batch, {}}
      BY <1>5 DEF JudgedAll, Steps, cacheVars, taskVars
    <2>2. /\ Groups \subseteq Groups' /\ fetched' \in Nat
          /\ buffer' \in Seq(Groups') /\ prefetched' \subseteq Groups'
      <3>1. CASE Full /\ ~cfg.async
        BY <1>5, <3>1, Get DEF JudgedAll, GroupTypes
      <3>2. CASE ~(Full /\ ~cfg.async)
        BY <1>5, <3>2 DEF JudgedAll, GroupTypes, sourceVars, Groups
      <3> QED  BY <3>1, <3>2
    <2>3. /\ parked' \subseteq Groups' /\ ready' \subseteq Groups'
          /\ deferred' \subseteq Groups' \X Groups'
          /\ pendings' \subseteq Groups' /\ live' \subseteq Groups'
      BY <2>1, <2>2 DEF GroupTypes
    <2>4. puts' \subseteq SUBSET Groups' /\ batch' \subseteq Groups'
      BY <2>1, <2>2 DEF GroupTypes
    <2> QED
      BY <2>1, <2>2, <2>3, <2>4, GroupsGrow
  <1>6. ASSUME NEW b, NEW T, PutMove(b, T) PROVE GroupTypes'
    <2>1. Groups' = Groups /\ Steps' = Steps /\ Outcomes' = Outcomes
      BY <1>6 DEF PutMove, Groups, Steps, Outcomes
    <2>2. partition' \in [Steps -> SUBSET Groups]
      BY <1>6 DEF PutMove, GroupTypes
    <2> QED
      BY <1>6, <2>1, <2>2 DEF PutMove, GroupTypes
  <1>7. CASE AbortRaises
    BY <1>7 DEF AbortRaises, Reset, sourceVars, cacheVars, judgeVars, putVars,
                GroupTypes, Groups, Steps, Outcomes
  <1>8. CASE StepReturns
    <2>1. Groups' = Groups /\ Steps' = Steps
      BY <1>8 DEF StepReturns, Groups, Steps
    <2>2. buffer' \in Seq(Groups) /\ requeued' \in Seq(Groups)
      BY <1>8, EmptySeq, Joined DEF StepReturns, GroupTypes
    <2>3. DOMAIN << >> = {}
      OBVIOUS
    <2> QED
      BY <1>8, <2>1, <2>2, <2>3 DEF StepReturns, Reset, putVars, GroupTypes
  <1> QED
    BY <1>1, <1>2, <1>3, <1>4, <1>5, <1>6, <1>7, <1>8, FetchTypes, JudgeTypes DEF Move

----------------------------------------------------------------------------
(* Every group is in one place.                                            *)

Buffered == ToSet(buffer)
GivenBack == ToSet(requeued)
Arms == {p[2] : p \in deferred}
Past == UNION {partition[r] : r \in Steps}

\* The nine places of a group, of which it is in one at most.
Apart ==
    /\ Buffered \cap (prefetched \cup parked \cup ready \cup Arms \cup pendings
                      \cup done \cup GivenBack \cup data \cup Past) = {}
    /\ prefetched \cap (parked \cup ready \cup Arms \cup pendings \cup done
                        \cup GivenBack \cup data \cup Past) = {}
    /\ parked \cap (ready \cup Arms \cup pendings \cup done \cup GivenBack
                    \cup data \cup Past) = {}
    /\ ready \cap (Arms \cup pendings \cup done \cup GivenBack \cup data \cup Past) = {}
    /\ Arms \cap (pendings \cup done \cup GivenBack \cup data \cup Past) = {}
    /\ pendings \cap (done \cup GivenBack \cup data \cup Past) = {}
    /\ done \cap (GivenBack \cup data \cup Past) = {}
    /\ GivenBack \cap (data \cup Past) = {}

\* The sources of groups do not repeat one.
NoRepeat == IsInjective(buffer) /\ IsInjective(requeued)

\* A pair shares no group with another one, and its no-skill group has left the
\* sources.
Paired(p) ==
    /\ IsNoSkill(p[1]) /\ IsArm(p[2]) /\ Key(p[1]) = Key(p[2])
    /\ p[1] \notin Buffered \cup prefetched \cup parked
PairInv ==
    /\ \A p \in deferred : Paired(p)
    /\ \A p, q \in deferred : p[1] = q[1] \/ p[2] = q[2] => p = q

\* What is transferred has been accepted, in the step it is transferred in.
TrainInv ==
    /\ batch \subseteq data /\ \A b \in puts : b \subseteq data
    /\ \A r \in Steps : IF r = rid THEN partition[r] \subseteq data
                                   ELSE partition[r] \cap data = {}
    /\ \A r, s \in Steps : r # s => partition[r] \cap partition[s] = {}

PlaceInv == Apart /\ NoRepeat /\ PairInv /\ TrainInv

LEMMA InitPlace == Init => PlaceInv
  <1> SUFFICES ASSUME Init PROVE PlaceInv
    OBVIOUS
  <1>1. /\ buffer = << >> /\ requeued = << >> /\ prefetched = {} /\ parked = {}
        /\ ready = {} /\ deferred = {} /\ pendings = {} /\ done = {} /\ data = {}
        /\ batch = {} /\ puts = {} /\ partition = [r \in Steps |-> {}]
    BY DEF Init
  <1>2. DOMAIN << >> = {}
    OBVIOUS
  <1>3. NoRepeat
    BY <1>1, <1>2 DEF NoRepeat, IsInjective
  <1>4. Buffered = {} /\ GivenBack = {} /\ Arms = {} /\ Past = {}
    BY <1>1, <1>2 DEF Buffered, GivenBack, Arms, Past, ToSet
  <1>5. Apart
    BY <1>1, <1>4 DEF Apart
  <1>6. PairInv /\ TrainInv
    BY <1>1 DEF PairInv, TrainInv
  <1> QED
    BY <1>3, <1>5, <1>6 DEF PlaceInv

\* Rows do not change, and which arm a row is depends on the settings only.
LEMMA SameRows ==
    ASSUME cfg' = cfg
    PROVE  \A g : /\ IsNoSkill(g)' = IsNoSkill(g) /\ IsArm(g)' = IsArm(g)
                  /\ Key(g)' = Key(g)
  BY DEF IsNoSkill, IsArm, SlateKind, Key, Row

LEMMA StillPlace == ASSUME PlaceInv, UNCHANGED GroupView PROVE PlaceInv'
  <1>1. /\ Buffered' = Buffered /\ GivenBack' = GivenBack /\ Arms' = Arms /\ Past' = Past
        /\ Steps' = Steps
    BY DEF GroupView, Buffered, GivenBack, Arms, Past, Steps
  <1>2. Apart'
    BY <1>1 DEF PlaceInv, Apart, GroupView
  <1>3. NoRepeat'
    BY DEF PlaceInv, NoRepeat, GroupView
  <1>4. PairInv'
    BY <1>1, SameRows DEF PlaceInv, PairInv, Paired, GroupView
  <1>5. TrainInv'
    BY <1>1 DEF PlaceInv, TrainInv, GroupView
  <1> QED
    BY <1>2, <1>3, <1>4, <1>5 DEF PlaceInv

\* The sets that a step leaves alone.
LEMMA SameTrained ==
    ASSUME TrainInv, UNCHANGED <<cfg, rid, data, batch, puts, partition>>
    PROVE  TrainInv' /\ Past' = Past
  <1>1. Steps' = Steps
    BY DEF Steps
  <1> QED
    BY <1>1 DEF TrainInv, Past

LEMMA ReadyPlace == ASSUME PlaceInv, NEW first, ReadyMove(first) PROVE PlaceInv'
  <1>1. Buffered' = Buffered /\ GivenBack' = GivenBack /\ Arms' = Arms
    BY DEF ReadyMove, Buffered, GivenBack, Arms
  <1>2. TrainInv' /\ Past' = Past
    BY SameTrained DEF PlaceInv, ReadyMove
  <1>3. Apart'
    BY <1>1, <1>2 DEF PlaceInv, Apart, ReadyMove
  <1>4. NoRepeat'
    BY DEF PlaceInv, NoRepeat, ReadyMove
  <1>5. PairInv'
    BY <1>1, SameRows DEF PlaceInv, PairInv, Paired, ReadyMove
  <1> QED
    BY <1>2, <1>3, <1>4, <1>5 DEF PlaceInv

LEMMA EndPlace == ASSUME PlaceInv, NEW g, EndMove(g) PROVE PlaceInv'
  BY StillPlace DEF EndMove

LEMMA CollectPlace == ASSUME PlaceInv, StepInv, Collect PROVE PlaceInv'
  <1>1. /\ Buffered' = Buffered /\ GivenBack' = GivenBack /\ Arms' = Arms
        /\ UNCHANGED <<cfg, rid, buffer, prefetched, parked, ready, deferred, data, batch,
                       requeued, puts, partition>>
        /\ done' = pendings \ live /\ pendings' = pendings \cap live
    BY DEF Collect, Buffered, GivenBack, Arms, sourceVars, cacheVars, putVars
  <1>2. TrainInv' /\ Past' = Past
    BY <1>1, SameTrained DEF PlaceInv
  <1>3. Apart'
    BY <1>1, <1>2 DEF PlaceInv, Apart
  <1>4. NoRepeat'
    BY <1>1 DEF PlaceInv, NoRepeat
  <1>5. PairInv'
    BY <1>1, SameRows DEF PlaceInv, PairInv, Paired
  <1> QED
    BY <1>2, <1>3, <1>4, <1>5 DEF PlaceInv

LEMMA PutPlace == ASSUME PlaceInv, GroupTypes, NEW b, NEW T, PutMove(b, T) PROVE PlaceInv'
  <1>1. /\ Buffered' = Buffered /\ GivenBack' = GivenBack /\ Arms' = Arms
        /\ Steps' = Steps
        /\ UNCHANGED <<cfg, rid, buffer, prefetched, parked, ready, deferred, pendings,
                       done, data, batch, requeued>>
    BY DEF PutMove, Buffered, GivenBack, Arms, Steps
  <1>2. T \subseteq data
    BY DEF PutMove, PlaceInv, TrainInv
  <1>3. \A r \in Steps : partition'[r] = IF r = rid THEN partition[r] \cup T ELSE partition[r]
    BY DEF PutMove, GroupTypes
  <1>4. Past \cup data = Past' \cup data
    <2>1. Past' = UNION {partition'[r] : r \in Steps}
      BY <1>1 DEF Past
    <2>2. ASSUME NEW x \in Past' PROVE x \in Past \cup data
      <3>1. PICK r \in Steps : x \in partition'[r]
        BY <2>1, <2>2
      <3>2. x \in partition[r] \/ x \in T
        BY <1>3, <3>1
      <3> QED
        BY <1>2, <3>2 DEF Past
    <2>3. ASSUME NEW x \in Past PROVE x \in Past'
      <3>1. PICK r \in Steps : x \in partition[r]
        BY <2>3 DEF Past
      <3>2. x \in partition'[r]
        BY <1>3, <3>1
      <3> QED
        BY <2>1, <3>2
    <2> QED  BY <2>2, <2>3
  <1>5. TrainInv'
    BY <1>1, <1>2, <1>3 DEF PlaceInv, TrainInv, PutMove
  <1>6. Apart'
    BY <1>1, <1>4 DEF PlaceInv, Apart
  <1>7. NoRepeat'
    BY <1>1 DEF PlaceInv, NoRepeat
  <1>8. PairInv'
    BY <1>1, SameRows DEF PlaceInv, PairInv, Paired
  <1> QED
    BY <1>5, <1>6, <1>7, <1>8 DEF PlaceInv

\* Two rows of one task have different ranks.
LEMMA RankSeparates ==
    ASSUME NEW S, IsFiniteSet(S), S \subseteq Nat, NEW g \in S, NEW h \in S,
           Key(g) = Key(h), Rank(g, S) = Rank(h, S)
    PROVE  g = h
  <1> DEFINE Upto(x) == {y \in S : Key(y) = Key(x) /\ y <= x}
  <1>2. \A x \in S : IsFiniteSet(Upto(x)) /\ Rank(x, S) = Cardinality(Upto(x))
    BY FS_Subset DEF Rank
  <1>3. ASSUME NEW x \in S, NEW y \in S, Key(x) = Key(y), x < y, Rank(x, S) = Rank(y, S)
        PROVE  FALSE
    <2>1. x \in Int /\ y \in Int
      OBVIOUS
    <2>2. ASSUME NEW z \in Upto(x) PROVE z \in Upto(y)
      <3>1. z \in S /\ z \in Int /\ Key(z) = Key(x) /\ z <= x
        OBVIOUS
      <3>2. z <= y
        BY <1>3, <2>1, <3>1
      <3> QED
        BY <1>3, <3>1, <3>2
    <2>3. y \in Upto(y) /\ y \notin Upto(x)
      BY <1>3, <2>1
    <2>4. Upto(x) = Upto(y)
      BY <1>2, <1>3, <2>2, FS_Subset
    <2> QED
      BY <2>3, <2>4
  <1>4. g \in Int /\ h \in Int /\ (g < h \/ h < g \/ g = h)
    OBVIOUS
  <1> QED
    BY <1>3, <1>4

\* Pairing gives a row one partner.
LEMMA PairsSeparate ==
    ASSUME NEW S, IsFiniteSet(S), S \subseteq Nat
    PROVE  /\ \A p \in Pairing(S) : /\ p[1] \in S /\ p[2] \in S
                                    /\ IsNoSkill(p[1]) /\ IsArm(p[2]) /\ Key(p[1]) = Key(p[2])
           /\ \A p, q \in Pairing(S) : p[1] = q[1] \/ p[2] = q[2] => p = q
  <1> DEFINE noSkill == {g \in S : IsNoSkill(g)}
             arms == {g \in S : IsArm(g)}
  <1>1. \A p \in Pairing(S) : /\ p \in noSkill \X arms /\ Key(p[1]) = Key(p[2])
                              /\ Rank(p[1], noSkill) = Rank(p[2], arms)
    BY DEF Pairing
  <1>2. ASSUME NEW p \in Pairing(S), NEW q \in Pairing(S), p[1] = q[1] \/ p[2] = q[2]
        PROVE  p = q
    <2>0. p \in noSkill \X arms /\ q \in noSkill \X arms
      BY <1>1
    <2>2. /\ IsFiniteSet(noSkill) /\ noSkill \subseteq Nat
          /\ IsFiniteSet(arms) /\ arms \subseteq Nat
      BY FS_Subset
    <2>3. Key(p[1]) = Key(q[1]) /\ Key(p[2]) = Key(q[2])
      BY <1>1, <1>2
    <2>4. Rank(p[1], noSkill) = Rank(q[1], noSkill) /\ Rank(p[2], arms) = Rank(q[2], arms)
      BY <1>1, <1>2
    <2> HIDE DEF noSkill, arms
    <2>1. /\ p[1] \in noSkill /\ q[1] \in noSkill /\ p[2] \in arms /\ q[2] \in arms
          /\ p = <<p[1], p[2]>> /\ q = <<q[1], q[2]>>
      BY <2>0
    <2>5. p[1] = q[1]
      BY <2>1, <2>2, <2>3, <2>4, RankSeparates
    <2>6. p[2] = q[2]
      BY <2>1, <2>2, <2>3, <2>4, RankSeparates
    <2> QED
      BY <2>1, <2>5, <2>6
  <1> QED
    BY <1>1, <1>2

LEMMA Exclusive == \A g : ~(IsNoSkill(g) /\ IsArm(g))
  BY DEF IsNoSkill, IsArm, SlateKind

\* A fetch takes groups nobody has, and pairs them among themselves and with
\* those that are parked.
LEMMA FetchPlace ==
    ASSUME PlaceInv, GroupTypes, NEW S, NEW first, FetchMove(S, first)
    PROVE  PlaceInv'
  <1> USE DEF PlaceInv
  <1>1. /\ buffer' \in Seq(Groups') /\ fetched' \in Nat
        /\ Buffered' \subseteq Buffered /\ prefetched' = {}
        /\ S \subseteq Buffered \cup prefetched \cup (Groups' \ Groups)
        /\ S \subseteq Groups' /\ Groups \subseteq Groups'
        /\ IsInjective(buffer') /\ S \cap Buffered' = {}
    <2>1. IsInjective(buffer) /\ Buffered \cap prefetched = {}
      BY DEF NoRepeat, Apart
    <2> QED
      BY <2>1, Take DEF FetchMove, GroupTypes, Buffered
  <1>2. GivenBack' = GivenBack /\ cfg' = cfg /\ UNCHANGED <<done, data>>
    BY DEF GivenBack, FetchMove
  <1>3. TrainInv' /\ Past' = Past
    BY SameTrained DEF FetchMove
  <1>4. /\ Buffered \subseteq Groups /\ Arms \subseteq Groups /\ GivenBack \subseteq Groups
        /\ Past \subseteq Groups /\ \A p \in deferred : p[1] \in Groups
    <2>1. Buffered \subseteq Groups /\ GivenBack \subseteq Groups
      BY LenProperties, ElementOfSeq DEF GroupTypes, Buffered, GivenBack, ToSet
    <2>2. Past \subseteq Groups
      BY DEF GroupTypes, Past
    <2> QED
      BY <2>1, <2>2 DEF GroupTypes, Arms
  <1>5. /\ S \cap (parked \cup ready \cup Arms \cup pendings \cup done \cup GivenBack
                   \cup data \cup Past) = {}
        /\ \A p \in deferred : p[1] \notin S
    <2>1. Buffered \cap Groups = Buffered /\ prefetched \cap Groups = prefetched
      BY <1>4 DEF GroupTypes
    <2>2. S \cap (parked \cup ready \cup Arms \cup pendings \cup done \cup GivenBack
                   \cup data \cup Past) = {}
      BY <1>1, <1>4 DEF Apart, GroupTypes
    <2>3. \A p \in deferred : p[1] \notin S
      BY <1>1, <1>4 DEF PairInv, Paired
    <2> QED  BY <2>2, <2>3
  <1>6. NoRepeat'
    BY <1>1 DEF NoRepeat, FetchMove
  <1>7. CASE first = S /\ UNCHANGED <<parked, deferred, ready>>
    <2>1. Arms' = Arms /\ pendings' = pendings \cup S
      BY <1>7 DEF Arms, FetchMove
    <2>2. Apart'
      BY <1>1, <1>2, <1>3, <1>5, <1>7, <2>1 DEF Apart
    <2>3. PairInv'
      BY <1>1, <1>2, <1>7, SameRows DEF PairInv, Paired
    <2> QED
      BY <1>3, <1>6, <2>2, <2>3
  <1>8. CASE ~(first = S /\ UNCHANGED <<parked, deferred, ready>>)
    <2> DEFINE rows == parked \cup {g \in S : IsNoSkill(g) \/ IsArm(g)}
               pairs == IF PairsOn THEN Pairing(rows) ELSE {}
               firsts == {p[1] : p \in pairs}
               seconds == {p[2] : p \in pairs}
               plain == {g \in S : ~IsNoSkill(g) /\ ~IsArm(g)}
               candidates == plain \cup IF PairsOn THEN firsts
                                        ELSE {g \in S : IsNoSkill(g)}
    <2>1. /\ first \subseteq candidates /\ ready' = candidates \ first
          /\ pendings' = pendings \cup first
          /\ deferred' = deferred \cup pairs
          /\ parked' = IF PairsOn THEN rows \ (firsts \cup seconds) ELSE parked
      BY <1>8 DEF FetchMove
    <2>2. rows \subseteq Groups'
      BY <1>1 DEF GroupTypes
    <2>3. /\ \A p \in pairs : /\ p[1] \in rows /\ p[2] \in rows
                              /\ IsNoSkill(p[1]) /\ IsArm(p[2]) /\ Key(p[1]) = Key(p[2])
          /\ \A p, q \in pairs : p[1] = q[1] \/ p[2] = q[2] => p = q
      <3>1. CASE PairsOn
        <4>1. pairs = Pairing(rows)
          BY <3>1
        <4>2. IsFiniteSet(Groups') /\ Groups' \subseteq Nat
          BY <1>1, FS_Interval DEF Groups
        <4>3. IsFiniteSet(rows) /\ rows \subseteq Nat
          BY <2>2, <4>2, FS_Subset
        <4> HIDE DEF rows
        <4> QED
          BY <4>1, <4>3, PairsSeparate
      <3>2. CASE ~PairsOn
        BY <3>2
      <3> QED  BY <3>1, <3>2
    <2>4. firsts \subseteq rows /\ seconds \subseteq rows /\ firsts \cap seconds = {}
      BY <2>3, Exclusive
    <2>5. plain \subseteq S /\ plain \cap rows = {}
      BY <1>5
    <2>6. ~PairsOn => pairs = {} /\ firsts = {} /\ seconds = {}
      OBVIOUS
    <2>7. Arms' = Arms \cup seconds
      BY <2>1 DEF Arms
    <2>8. rows \subseteq parked \cup S /\ candidates \subseteq plain \cup firsts \cup S
      OBVIOUS
    <2>9. candidates \cap (parked' \cup seconds) = {}
      <3>1. CASE PairsOn
        BY <2>1, <2>4, <2>5, <3>1
      <3>2. CASE ~PairsOn
        BY <1>5, <2>1, <2>5, <2>6, <3>2
      <3> QED  BY <3>1, <3>2
    <2>10. /\ parked' \subseteq rows \cup parked /\ parked' \cap seconds = {}
      BY <2>1, <2>6
    <2> HIDE DEF rows, pairs, firsts, seconds, plain, candidates
    <2>11. (rows \cup candidates) \cap (Buffered' \cup ready \cup Arms \cup pendings \cup done
                                       \cup GivenBack \cup data \cup Past) = {}
      <3>1. rows \cup candidates \subseteq parked \cup S
        BY <2>4, <2>5, <2>8
      <3>2. parked \cap (Buffered' \cup ready \cup Arms \cup pendings \cup done
                                       \cup GivenBack \cup data \cup Past) = {}
        BY <1>1 DEF Apart
      <3> QED
        BY <1>1, <1>5, <3>1, <3>2
    <2>12. Apart'
      BY <1>1, <1>2, <1>3, <2>1, <2>4, <2>7, <2>8, <2>9, <2>10, <2>11, SMTT(60) DEF Apart
    <2>13. PairInv'
      <3>1. \A p \in deferred' : /\ IsNoSkill(p[1])' /\ IsArm(p[2])' /\ Key(p[1])' = Key(p[2])'
        BY <1>2, <2>1, <2>3, SameRows DEF PairInv, Paired
      <3>2. ASSUME NEW p \in deferred PROVE p[1] \notin rows \cup Buffered' \cup parked'
        <4>1. p[1] \notin Buffered \cup prefetched \cup parked
          BY DEF PairInv, Paired
        <4> QED
          BY <1>1, <1>5, <2>8, <2>10, <4>1
      <3>3. ASSUME NEW p \in pairs PROVE p[1] \notin Buffered' \cup parked'
        <4>1. p[1] \in firsts /\ p[1] \in rows
          BY <2>3 DEF firsts
        <4>2. p[1] \notin Buffered'
          BY <2>11, <4>1
        <4>3. p[1] \notin parked'
          <5>1. CASE PairsOn
            BY <2>1, <4>1, <5>1
          <5>2. CASE ~PairsOn
            BY <2>6, <3>3, <5>2
          <5> QED  BY <5>1, <5>2
        <4> QED  BY <4>2, <4>3
      <3>4. \A p \in deferred' : p[1] \notin Buffered' \cup prefetched' \cup parked'
        BY <1>1, <2>1, <3>2, <3>3
      <3>5. ASSUME NEW p \in deferred, NEW q \in pairs PROVE p[1] # q[1] /\ p[2] # q[2]
        <4>1. p[2] \in Arms /\ q[1] \in rows /\ q[2] \in rows
          BY <2>3 DEF Arms
        <4> QED
          BY <2>11, <3>2, <4>1
      <3>6. \A p, q \in deferred' : p[1] = q[1] \/ p[2] = q[2] => p = q
        BY <2>1, <2>3, <3>5 DEF PairInv
      <3> QED
        BY <3>1, <3>4, <3>6 DEF PairInv, Paired
    <2> QED
      BY <1>3, <1>6, <2>12, <2>13
  <1> QED
    BY <1>7, <1>8

\* An ended group leaves done; the arms it decides about leave deferred.
LEMMA JudgePlace ==
    ASSUME PlaceInv, GroupTypes, NEW g, NEW arms, JudgeMove(g, arms)
    PROVE  PlaceInv'
  <1> USE DEF PlaceInv
  <1>1. /\ g \in done /\ done' = done \ {g} /\ pendings' = pendings \cup arms
        /\ UNCHANGED <<cfg, rid, buffer, prefetched, parked, ready, puts, partition>>
        /\ Buffered' = Buffered /\ Steps' = Steps /\ Past' = Past
    BY DEF JudgeMove, Buffered, Past, Steps
  <1>2. arms \subseteq Arms
    BY DEF JudgeMove, ArmOf, Arms
  <1>3. deferred' \subseteq deferred /\ Arms' \subseteq Arms
    BY DEF JudgeMove, Arms
  <1>4. arms \cap Arms' = {}
    <2>1. CASE arms = {}
      BY <2>1
    <2>2. CASE deferred' = {p \in deferred : p[1] # g}
      <3>1. ASSUME NEW a \in arms, a \in Arms' PROVE FALSE
        <4>1. PICK p \in deferred : p[1] = g /\ a = p[2]
          BY <3>1 DEF JudgeMove, ArmOf
        <4>2. PICK q \in deferred : q[1] # g /\ a = q[2]
          BY <2>2, <3>1 DEF Arms
        <4> QED
          BY <4>1, <4>2 DEF PairInv
      <3> QED  BY <3>1
    <2> QED
      BY <2>1, <2>2 DEF JudgeMove
  <1>5. PairInv'
    BY <1>1, <1>3, SameRows DEF PairInv, Paired
  <1>6. g \notin Past /\ g \notin GivenBack /\ g \notin data
    BY <1>1 DEF Apart
  <1>7. CASE Accept(g) /\ requeued' = requeued
    <2>1. GivenBack' = GivenBack /\ data' = data \cup {g} /\ batch' = batch \cup {g}
      BY <1>7 DEF GivenBack, Accept
    <2>2. Apart'
      BY <1>1, <1>2, <1>3, <1>4, <2>1 DEF Apart
    <2>3. NoRepeat'
      BY <1>1, <1>7 DEF NoRepeat
    <2>4. \A r \in Steps : g \notin partition[r]
      BY <1>6 DEF Past
    <2>5. TrainInv'
      BY <1>1, <2>1, <2>4 DEF TrainInv
    <2> QED
      BY <1>5, <2>2, <2>3, <2>5
  <1>8. CASE /\ UNCHANGED <<data, batch>>
             /\ requeued' \in {requeued, Append(requeued, g)}
    <2>1. GivenBack' \subseteq GivenBack \cup {g} /\ IsInjective(requeued')
      <3>1. CASE requeued' = requeued
        BY <3>1 DEF GivenBack, NoRepeat
      <3>2. CASE requeued' = Append(requeued, g)
        <4>1. g \in Groups /\ requeued \in Seq(Groups)
          BY <1>1 DEF GroupTypes
        <4> QED
          BY <1>6, <3>2, <4>1, Added DEF GivenBack, NoRepeat
      <3> QED  BY <1>8, <3>1, <3>2
    <2>2. Apart'
      BY <1>1, <1>2, <1>3, <1>4, <1>8, <2>1 DEF Apart
    <2>3. NoRepeat'
      BY <1>1, <2>1 DEF NoRepeat
    <2>4. TrainInv'
      BY <1>1, <1>8 DEF TrainInv
    <2> QED
      BY <1>5, <2>2, <2>3, <2>4
  <1> QED
    BY <1>7, <1>8 DEF JudgeMove

\* The full batch asks for the samples of the next step.
LEMMA JudgedAllPlace == ASSUME PlaceInv, GroupTypes, JudgedAll PROVE PlaceInv'
  <1> USE DEF PlaceInv
  <1>1. /\ UNCHANGED <<cfg, rid, parked, ready, deferred, pendings, done, data, requeued,
                       partition>>
        /\ GivenBack' = GivenBack /\ Arms' = Arms /\ Steps' = Steps /\ Past' = Past
    BY DEF JudgedAll, cacheVars, taskVars, GivenBack, Arms, Steps, Past
  <1>2. TrainInv'
    <2>1. batch' \in {batch, {}} /\ puts' \in {puts, puts \cup {batch}}
      BY DEF JudgedAll
    <2> QED
      BY <1>1, <2>1 DEF TrainInv
  <1>3. /\ Buffered \subseteq Groups /\ Arms \subseteq Groups /\ GivenBack \subseteq Groups
        /\ Past \subseteq Groups /\ \A p \in deferred : p[1] \in Groups
    <2>1. Buffered \subseteq Groups /\ GivenBack \subseteq Groups
      BY LenProperties, ElementOfSeq DEF GroupTypes, Buffered, GivenBack, ToSet
    <2>2. Past \subseteq Groups
      BY DEF GroupTypes, Past
    <2> QED
      BY <2>1, <2>2 DEF GroupTypes, Arms
  <1>4. CASE UNCHANGED sourceVars
    <2>1. Buffered' = Buffered /\ UNCHANGED <<buffer, prefetched>>
      BY <1>4 DEF Buffered, sourceVars
    <2>2. Apart'
      BY <1>1, <2>1 DEF Apart
    <2>3. NoRepeat'
      BY <1>1, <2>1 DEF NoRepeat
    <2>4. PairInv'
      BY <1>1, <2>1, SameRows DEF PairInv, Paired
    <2> QED
      BY <1>2, <2>2, <2>3, <2>4
  <1>5. CASE prefetched' = Samples /\ GetSamples
    <2>1. /\ Buffered' \subseteq Buffered
          /\ prefetched' \subseteq Buffered \cup (Groups' \ Groups)
          /\ IsInjective(buffer') /\ prefetched' \cap Buffered' = {}
      BY <1>5, Get DEF GroupTypes, NoRepeat, Buffered
    <2>2. (Groups' \ Groups) \cap (parked \cup ready \cup Arms \cup pendings \cup done
               \cup GivenBack \cup data \cup Past) = {}
      BY <1>3 DEF GroupTypes
    <2>3. Apart'
      BY <1>1, <2>1, <2>2 DEF Apart
    <2>4. NoRepeat'
      BY <1>1, <2>1 DEF NoRepeat
    <2>5. PairInv'
      BY <1>1, <1>3, <2>1, SameRows DEF PairInv, Paired
    <2> QED
      BY <1>2, <2>3, <2>4, <2>5
  <1> QED
    BY <1>4, <1>5 DEF JudgedAll

LEMMA RaisesPlace == ASSUME PlaceInv, AbortRaises PROVE PlaceInv'
  <1> USE DEF PlaceInv
  <1>1. /\ UNCHANGED <<cfg, rid, buffer, prefetched, parked, ready, deferred, done, data,
                       batch, requeued, puts, partition>>
        /\ pendings' = {}
        /\ Buffered' = Buffered /\ GivenBack' = GivenBack /\ Arms' = Arms
    BY DEF AbortRaises, Fail, Reset, sourceVars, cacheVars, judgeVars, putVars,
           Buffered, GivenBack, Arms
  <1>2. TrainInv' /\ Past' = Past
    BY <1>1, SameTrained
  <1>3. Apart'
    BY <1>1, <1>2 DEF Apart
  <1>4. NoRepeat'
    BY <1>1 DEF NoRepeat
  <1>5. PairInv'
    BY <1>1, SameRows DEF PairInv, Paired
  <1> QED
    BY <1>2, <1>3, <1>4, <1>5

\* What a step gives back goes behind what the buffer still has; its partition
\* is finished, that of the next step empty.
LEMMA ReturnPlace == ASSUME PlaceInv, GroupTypes, BatchInv, StepReturns PROVE PlaceInv'
  <1> USE DEF PlaceInv
  <1>1. /\ UNCHANGED <<cfg, prefetched, done, puts, partition>>
        /\ pendings' = {} /\ buffer' = buffer \o requeued /\ requeued' = << >>
        /\ parked' = {} /\ ready' = {} /\ deferred' = {} /\ data' = {} /\ batch' = {}
        /\ rid' = rid + 1 /\ pc \in Closing
    BY DEF StepReturns, Reset, putVars, Closing
  <1>2. Steps' = Steps /\ Past' = Past /\ Arms' = {}
    BY <1>1 DEF Steps, Past, Arms
  <1>3. DOMAIN << >> = {}
    OBVIOUS
  <1>4. GivenBack' = {} /\ IsInjective(requeued')
    BY <1>1, <1>3 DEF GivenBack, ToSet, IsInjective
  <1>5. Buffered' = Buffered \cup GivenBack /\ IsInjective(buffer')
    <2>1. buffer \in Seq(Groups) /\ requeued \in Seq(Groups)
      BY DEF GroupTypes
    <2>2. Buffered \cap GivenBack = {}
      BY DEF Apart
    <2> QED
      BY <1>1, <2>1, <2>2, Joined DEF Buffered, GivenBack, NoRepeat
  <1>6. Apart'
    BY <1>1, <1>2, <1>4, <1>5 DEF Apart
  <1>7. NoRepeat' /\ PairInv'
    BY <1>1, <1>4, <1>5 DEF NoRepeat, PairInv
  <1>8. puts = {}
    BY <1>1 DEF BatchInv, StepInv
  <1>9. \A r \in Steps : r = rid + 1 => partition[r] = {}
    BY DEF BatchInv, DataInv, StepInv
  <1>10. TrainInv'
    BY <1>1, <1>2, <1>8, <1>9 DEF TrainInv
  <1> QED
    BY <1>6, <1>7, <1>10

LEMMA PlaceStep == ASSUME PlaceInv, GroupTypes, BatchInv, Move PROVE PlaceInv'
  BY StillPlace, ReadyPlace, FetchPlace, EndPlace, CollectPlace, JudgePlace,
     JudgedAllPlace, PutPlace, RaisesPlace, ReturnPlace DEF Move, Still, BatchInv

\* Types and places together.
WhereInv == CountTypes /\ GroupTypes /\ PlaceInv

LEMMA WhereHolds == Spec => []WhereInv
  <1>1. Init => WhereInv
    BY InitTypes, InitPlace DEF WhereInv
  <1>2. BatchInv /\ WhereInv /\ [Next]_vars => WhereInv'
    <2> SUFFICES ASSUME BatchInv, WhereInv, [Next]_vars PROVE WhereInv'
      OBVIOUS
    <2>1. CASE Next
      BY <2>1, Moves, CountTypesStep, GroupTypesStep, PlaceStep DEF WhereInv, BatchInv
    <2>2. CASE UNCHANGED vars
      <3>1. Still /\ CountTypes'
        BY <2>2 DEF vars, WhereInv, CountTypes, Still, GroupView, stepVars, sourceVars,
               cacheVars, taskVars, judgeVars, putVars, evalVars, bounds
      <3> QED
        BY <3>1, GroupTypesStep, PlaceStep DEF WhereInv, Move
    <2> QED  BY <2>1, <2>2
  <1> QED
    BY <1>1, <1>2, BatchHolds, PTL DEF Spec

\* A row is never trained twice through the backlog, the pre-fetch or the
\* requeue: a group is in one place, and in one partition.
THEOREM NoGroupTwiceHolds == Spec => []NoGroupTwice
  <1>1. WhereInv => NoGroupTwice
    <2> SUFFICES ASSUME WhereInv PROVE NoGroupTwice
      OBVIOUS
    <2> DEFINE places == Places
               trained == data \cup UNION {partition[r] : r \in Steps}
    <2>1. /\ DOMAIN places = 1..8
          /\ places[1] = Buffered /\ places[2] = prefetched /\ places[3] = parked
          /\ places[4] = ready /\ places[5] = Arms /\ places[6] = pendings
          /\ places[7] = done /\ places[8] = GivenBack
      BY DEF Places, Buffered, Arms, GivenBack
    <2>2. trained = data \cup Past
      BY DEF Past
    <2> HIDE DEF places, trained
    <2>3. \A i \in DOMAIN places : places[i] \cap trained = {}
      BY <2>1, <2>2 DEF WhereInv, PlaceInv, Apart
    <2>4. ASSUME NEW i \in DOMAIN places, NEW j \in DOMAIN places, i < j
          PROVE  places[i] \cap places[j] = {}
      <3> USE DEF WhereInv, PlaceInv, Apart
      <3>1. CASE i = 1
        BY <2>1, <2>4, <3>1
      <3>2. CASE i = 2
        BY <2>1, <2>4, <3>2
      <3>3. CASE i = 3
        BY <2>1, <2>4, <3>3
      <3>4. CASE i = 4
        BY <2>1, <2>4, <3>4
      <3>5. CASE i = 5
        BY <2>1, <2>4, <3>5
      <3>6. CASE i = 6
        BY <2>1, <2>4, <3>6
      <3>7. CASE i = 7
        BY <2>1, <2>4, <3>7
      <3> QED
        BY <2>1, <2>4, <3>1, <3>2, <3>3, <3>4, <3>5, <3>6, <3>7
    <2>5. \A r \in Steps :
             /\ r # rid => partition[r] \cap data = {}
             /\ \A s \in Steps : r # s => partition[r] \cap partition[s] = {}
      BY DEF WhereInv, PlaceInv, TrainInv
    <2> QED
      BY <2>3, <2>4, <2>5 DEF NoGroupTwice, places, trained
  <1> QED
    BY <1>1, WhereHolds, PTL

----------------------------------------------------------------------------
(* What a step leaves behind it is used by nobody.                         *)

Leftovers == strays \cup abandoned

\* A group whose task has ended before its samples' is neither running nor
\* where groups wait or are trained; while the loop still has it, it has it as
\* one that raised, which is what keeps it out.
StrayInv ==
    /\ Leftovers \subseteq Groups
    /\ Leftovers \cap (live \cup Used) = {}
    /\ pc \in Looping => \A g \in Leftovers \cap (pendings \cup done) :
                             g \in DOMAIN result /\ result[g] = Raised
    /\ cfg.waits => abandoned = {}

LEMMA InitStray == Init => StrayInv
  BY DEF Init, StrayInv, Leftovers

\* A place by the names the proofs use.
LEMMA UsedPlaces ==
    Used = Buffered \cup prefetched \cup parked \cup ready \cup Arms \cup GivenBack
               \cup data \cup Past
  BY DEF Used, Buffered, Arms, GivenBack, Past

\* A running group is in none of them.
LEMMA RunningUnused ==
    ASSUME BatchInv, WhereInv, pc # "failed", NEW g \in live
    PROVE  g \in pendings /\ g \in Groups /\ g \notin Used
  <1>1. g \in pendings /\ g \in Groups
    BY DEF BatchInv, StepInv, WhereInv, GroupTypes
  <1> QED
    BY <1>1, UsedPlaces DEF WhereInv, PlaceInv, Apart

\* What is in one of them, or runs, after a step was so before it, or is new.
LEMMA UsedGrows ==
    ASSUME BatchInv, WhereInv, Move,
           NEW x \in Groups, x \notin live \cup Used,
           pc \in Looping /\ x \in pendings \cup done =>
               x \in DOMAIN result /\ result[x] = Raised
    PROVE  /\ x \notin live' \cup Used'
           /\ pc' \in Looping /\ x \in pendings' \cup done' =>
                  x \in DOMAIN result' /\ result'[x] = Raised
  <1> DEFINE Kept == x \in DOMAIN result' /\ result'[x] = Raised
  <1> USE UsedPlaces DEF WhereInv, PlaceInv
  <1>u. Used' = Buffered' \cup prefetched' \cup parked' \cup ready' \cup Arms'
                    \cup GivenBack' \cup data' \cup Past'
    BY DEF Used, Buffered, Arms, GivenBack, Past
  <1>1. CASE Still
    <2>1. Used' = Used
      BY <1>1 DEF Still, GroupView, Used, Steps
    <2>2. pc = "idle" => pendings = {} /\ done = {}
      BY DEF BatchInv, StepInv, Between
    <2> QED
      BY <1>1, <2>1, <2>2 DEF Still, GroupView
  <1>2. ASSUME NEW first, ReadyMove(first)
        PROVE  x \notin live' \cup Used' /\ (x \in pendings' \cup done' => Kept)
    <2>1. /\ Buffered' = Buffered /\ Arms' = Arms /\ GivenBack' = GivenBack /\ Past' = Past
      BY <1>2 DEF ReadyMove, Buffered, Arms, GivenBack, Past, Steps
    <2> QED
      BY <1>2, <1>u, <2>1 DEF ReadyMove, Looping
  <1>3. ASSUME NEW S, NEW first, FetchMove(S, first)
        PROVE  x \notin live' \cup Used' /\ (x \in pendings' \cup done' => Kept)
    <2>1. /\ Buffered' \subseteq Buffered /\ prefetched' = {} /\ x \notin S
          /\ GivenBack' = GivenBack /\ Past' = Past
      <3>1. /\ Buffered' \subseteq Buffered /\ prefetched' = {}
            /\ S \subseteq Buffered \cup prefetched \cup (Groups' \ Groups)
        BY <1>3, Take DEF FetchMove, GroupTypes, Buffered
      <3> QED
        BY <1>3, <3>1 DEF FetchMove, GivenBack, Past, Steps
    <2>2. x \notin first /\ x \notin parked' /\ x \notin ready' /\ x \notin Arms'
      <3>1. CASE first = S /\ UNCHANGED <<parked, deferred, ready>>
        BY <2>1, <3>1 DEF Arms
      <3>2. CASE ~(first = S /\ UNCHANGED <<parked, deferred, ready>>)
        <4> DEFINE rows == parked \cup {g \in S : IsNoSkill(g) \/ IsArm(g)}
                   pairs == IF PairsOn THEN Pairing(rows) ELSE {}
                   firsts == {p[1] : p \in pairs}
                   plain == {g \in S : ~IsNoSkill(g) /\ ~IsArm(g)}
                   candidates == plain \cup IF PairsOn THEN firsts
                                            ELSE {g \in S : IsNoSkill(g)}
        <4>1. /\ first \subseteq candidates /\ ready' = candidates \ first
              /\ deferred' = deferred \cup pairs
              /\ parked' \subseteq rows
          BY <1>3, <3>2 DEF FetchMove
        <4>2. x \notin rows
          BY <2>1
        <4>3. pairs \subseteq rows \X rows
          BY DEF Pairing
        <4>4. x \notin candidates
          <5>1. firsts \subseteq rows
            BY <4>3
          <5>2. candidates \subseteq S \cup firsts
            OBVIOUS
          <5> HIDE DEF rows, firsts, candidates
          <5> QED
            BY <2>1, <4>2, <5>1, <5>2
        <4>5. x \notin Arms'
          BY <4>1, <4>2, <4>3 DEF Arms
        <4> HIDE DEF rows, candidates
        <4> QED
          BY <4>1, <4>2, <4>4, <4>5
      <3> QED  BY <3>1, <3>2
    <2> QED
      BY <1>3, <1>u, <2>1, <2>2 DEF FetchMove, Looping
  <1>4. ASSUME NEW g, EndMove(g)
        PROVE  /\ x \notin live' \cup Used'
               /\ pc' \in Looping /\ x \in pendings' \cup done' => Kept
    <2>1. Used' = Used
      BY <1>4 DEF EndMove, GroupView, Used, Steps
    <2> QED
      BY <1>4, <2>1 DEF EndMove, GroupView, Looping
  <1>5. CASE Collect
    <2>1. Used' = Used
      BY <1>5 DEF Collect, Used, Steps, sourceVars, cacheVars, putVars
    <2> QED
      BY <1>5, <2>1 DEF Collect, Looping
  <1>6. ASSUME NEW g, NEW arms, JudgeMove(g, arms)
        PROVE  /\ x \notin live' \cup Used'
               /\ pc' \in Looping /\ x \in pendings' \cup done' => Kept
    <2>1. /\ pc = "process" /\ g \in done /\ done' = done \ {g}
          /\ pendings' = pendings \cup arms /\ live' = live \cup arms
          /\ UNCHANGED <<prefetched, parked, ready>>
          /\ Buffered' = Buffered /\ Past' = Past
      BY <1>6 DEF JudgeMove, Buffered, Past, Steps
    <2>2. arms \subseteq Arms /\ Arms' \subseteq Arms
      BY <1>6 DEF JudgeMove, ArmOf, Arms
    <2>3. x \notin arms
      BY <2>2
    <2>4. x \notin data' \cup GivenBack'
      <3>1. CASE x = g
        <4>1. UNCHANGED <<data, requeued>>
          BY <1>6, <2>1, <3>1 DEF JudgeMove, Looping
        <4> QED
          BY <4>1 DEF GivenBack
      <3>2. CASE x # g
        <4>1. data' \subseteq data \cup {g}
          BY <1>6 DEF JudgeMove, Accept
        <4>2. requeued' = requeued \/ requeued' = Append(requeued, g)
          BY <1>6 DEF JudgeMove
        <4>3. g \in Groups /\ requeued \in Seq(Groups)
          BY <2>1 DEF GroupTypes
        <4>4. GivenBack' \subseteq GivenBack \cup {g}
          BY <4>2, <4>3, Added DEF GivenBack
        <4> QED
          BY <3>2, <4>1, <4>4
      <3> QED  BY <3>1, <3>2
    <2>5. x \notin live' \cup Used'
      BY <1>u, <2>1, <2>2, <2>3, <2>4
    <2>6. ASSUME pc' \in Looping, x \in pendings' \cup done' PROVE Kept
      <3>1. x \in pendings \cup done /\ x # g
        BY <2>1, <2>3, <2>6 DEF Apart
      <3>2. x \in DOMAIN result /\ result[x] = Raised
        BY <2>1, <3>1 DEF Looping
      <3> QED
        BY <1>6, <3>1, <3>2 DEF JudgeMove, Accept, Without
    <2> QED  BY <2>5, <2>6
  <1>7. CASE JudgedAll
    <2>1. /\ UNCHANGED <<parked, ready, data, live, pendings, done, result>>
          /\ pc = "process"
          /\ Arms' = Arms /\ GivenBack' = GivenBack /\ Past' = Past
      BY <1>7 DEF JudgedAll, cacheVars, taskVars, Arms, GivenBack, Past, Steps
    <2>2. x \notin Buffered' \cup prefetched'
      <3>1. CASE Full /\ ~cfg.async
        BY <1>7, <3>1, Get DEF JudgedAll, GroupTypes, Buffered
      <3>2. CASE ~(Full /\ ~cfg.async)
        BY <1>7, <3>2 DEF JudgedAll, sourceVars, Buffered
      <3> QED  BY <3>1, <3>2
    <2> QED
      BY <1>u, <2>1, <2>2 DEF Looping
  <1>8. ASSUME NEW b, NEW T, PutMove(b, T)
        PROVE  /\ x \notin live' \cup Used'
               /\ pc' \in Looping /\ x \in pendings' \cup done' => Kept
    <2>1. /\ UNCHANGED <<prefetched, parked, ready, data, live, pendings, done, result, pc>>
          /\ Buffered' = Buffered /\ Arms' = Arms /\ GivenBack' = GivenBack /\ Steps' = Steps
      BY <1>8 DEF PutMove, Buffered, Arms, GivenBack, Steps
    <2>2. T \subseteq data
      BY <1>8 DEF PutMove, TrainInv
    <2>3. x \notin Past'
      <3>1. \A r \in Steps : partition'[r] \subseteq partition[r] \cup T
        BY <1>8 DEF PutMove, GroupTypes
      <3>2. Past' = UNION {partition'[r] : r \in Steps}
        BY <2>1 DEF Past
      <3>3. \A r \in Steps : x \notin partition[r] \cup T
        BY <2>2 DEF Past
      <3> QED
        BY <3>1, <3>2, <3>3
    <2> QED
      BY <1>u, <2>1, <2>3
  <1>9. CASE AbortRaises
    <2>1. UNCHANGED <<live, Used>> /\ pc' = "failed"
      BY <1>9 DEF AbortRaises, Fail, Used, Steps, sourceVars, cacheVars, judgeVars, putVars
    <2> QED
      BY <2>1 DEF Looping
  <1>10. CASE StepReturns
    <2>1. /\ live' \subseteq live /\ pc' = "idle"
          /\ parked' = {} /\ ready' = {} /\ deferred' = {} /\ data' = {}
          /\ prefetched' = prefetched /\ Past' = Past
      BY <1>10 DEF StepReturns, putVars, Past, Steps
    <2>2. Buffered' = Buffered \cup GivenBack
      <3>1. buffer \in Seq(Groups) /\ requeued \in Seq(Groups)
        BY DEF GroupTypes
      <3> QED
        BY <1>10, <3>1, Joined DEF StepReturns, Buffered, GivenBack
    <2>3. GivenBack' = {} /\ Arms' = {}
      <3>1. requeued' = << >> /\ DOMAIN << >> = {}
        BY <1>10 DEF StepReturns
      <3> QED
        BY <2>1, <3>1 DEF GivenBack, Arms, ToSet
    <2> QED
      BY <1>u, <2>1, <2>2, <2>3 DEF Looping
  <1> QED
    BY <1>1, <1>2, <1>3, <1>4, <1>5, <1>6, <1>7, <1>8, <1>9, <1>10 DEF Move

\* The steps that leave something behind: the task of a group that ends with its
\* first sample, and a return that does not wait.
LeavesOne(g) ==
    /\ EndMove(g) /\ pc # "failed"
    /\ strays' = strays \cup {g} /\ abandoned' = abandoned
    /\ pc' \in Looping => g \in DOMAIN result' /\ result'[g] = Raised

LEMMA Leaving ==
    ASSUME Next
    PROVE  UNCHANGED leftVars \/ (\E g : LeavesOne(g)) \/ StepReturns
  <1> USE DEF taskVars
  <1>1. StepLoop \/ Fill => UNCHANGED leftVars
    BY DEF StepLoop, StartStep, StepLoopFails, Fill, FillDone, FillFromReady, FillFetches,
           FetchAll, FetchPairs
  <1>2. ASSUME NEW g, JudgeGroup(g) PROVE UNCHANGED leftVars
    BY <1>2 DEF JudgeGroup, JudgeError, DropLate, DropRejected, DropAborted, KeepFiltered,
                KeepGroup, RefuseGroup, Rescue, JudgePair, Judge
  <1>3. Collect \/ JudgedAll => UNCHANGED leftVars
    BY DEF Collect, JudgedAll
  <1>4. Ending => UNCHANGED leftVars \/ StepReturns
    BY DEF Ending, Gathered, GatherRaises, AbortBegins, AbortRequests, AbortSent, AbortRaises
  <1>5. ASSUME NEW g, Break(g) PROVE LeavesOne(g)
    <2>1. pc \in {"fetch", "wait"} /\ pc' = pc /\ Finish(g, Raised)
      BY <1>5 DEF Break, Finish, stepVars
    <2>2. EndMove(g)
      BY <2>1 DEF Finish, EndMove, GroupView, stepVars, sourceVars, cacheVars, judgeVars,
             putVars
    <2> QED
      BY <1>5, <2>1, <2>2 DEF Break, Finish, LeavesSiblings, LeavesOne
  <1>6. ASSUME NEW g, BreakLate(g) PROVE LeavesOne(g)
    <2>1. pc = "drain" /\ pc' = "drain"
      BY <1>6 DEF BreakLate, EndsLate, stepVars
    <2>2. EndMove(g)
      BY <1>6, <2>1 DEF BreakLate, EndsLate, EndMove, GroupView, stepVars, sourceVars,
             cacheVars, judgeVars, putVars
    <2> QED
      BY <1>6, <2>1, <2>2 DEF BreakLate, EndsLate, LeavesSiblings, LeavesOne, Looping
  <1>7. Task => UNCHANGED leftVars \/ \E g : LeavesOne(g)
    BY <1>5, <1>6 DEF Task, Succeed, EndBadly, FinishLate, EndsLate, Finish, leftVars
  <1>8. Transfer => UNCHANGED leftVars
    BY DEF Transfer, PutDone, PutRaises, Put
  <1>9. ASSUME NEW e, Evaluate(e) \/ Eval(e) PROVE UNCHANGED leftVars
    BY <1>9 DEF Evaluate, Eval, EvalLock, EvalGate, EvalReturns, EvalRaises, EvalEnds
  <1> QED
    BY <1>1, <1>2, <1>3, <1>4, <1>7, <1>8, <1>9 DEF Next, Rollout, Collecting

LEMMA StrayStep == ASSUME BatchInv, WhereInv, StrayInv, Next PROVE StrayInv'
  <1>1. Move
    BY Moves
  <1>2. Groups \subseteq Groups' /\ cfg' = cfg
    <2> USE DEF WhereInv, GroupTypes
    <2>1. Still \/ (\E g : EndMove(g)) => UNCHANGED <<fetched, cfg>>
      BY DEF Still, EndMove, GroupView
    <2>2. Collect \/ AbortRaises \/ StepReturns => UNCHANGED <<fetched, cfg>>
      BY DEF Collect, AbortRaises, StepReturns, sourceVars
    <2>3. ASSUME NEW S, NEW first, FetchMove(S, first)
          PROVE  Groups \subseteq Groups' /\ cfg' = cfg
      BY <2>3, Take DEF FetchMove
    <2>4. JudgedAll => Groups \subseteq Groups' /\ cfg' = cfg
      <3>1. JudgedAll => cfg' = cfg /\ (GetSamples \/ UNCHANGED fetched)
        BY DEF JudgedAll, sourceVars
      <3> QED
        BY <3>1, Get DEF Groups
    <2>5. (\E first : ReadyMove(first)) \/ (\E b, T : PutMove(b, T))
              \/ (\E g, arms : JudgeMove(g, arms)) => UNCHANGED <<fetched, cfg>>
      BY DEF ReadyMove, PutMove, JudgeMove
    <2> QED
      BY <1>1, <2>1, <2>2, <2>3, <2>4, <2>5 DEF Move, Groups
  <1>3. ASSUME NEW x \in Leftovers
        PROVE  /\ x \in Groups' /\ x \notin live' \cup Used'
               /\ pc' \in Looping /\ x \in pendings' \cup done' =>
                      x \in DOMAIN result' /\ result'[x] = Raised
    BY <1>1, <1>2, UsedGrows DEF StrayInv
  <1>4. CASE UNCHANGED leftVars
    BY <1>2, <1>3, <1>4 DEF StrayInv, Leftovers, leftVars
  <1>5. ASSUME NEW g, LeavesOne(g) PROVE StrayInv'
    <2>1. g \in Groups /\ g \notin Used
      BY <1>5, RunningUnused DEF LeavesOne, EndMove
    <2>2. Used' = Used /\ live' = live \ {g}
      BY <1>5 DEF LeavesOne, EndMove, GroupView, Used, Steps
    <2>3. Leftovers' = Leftovers \cup {g} /\ abandoned' = abandoned
      BY <1>5 DEF LeavesOne, Leftovers
    <2>4. pc' \in Looping => g \in DOMAIN result' /\ result'[g] = Raised
      BY <1>5 DEF LeavesOne
    <2> QED
      BY <1>2, <1>3, <2>1, <2>2, <2>3, <2>4 DEF StrayInv
  <1>6. CASE StepReturns
    <2>1. /\ pc = "drain" /\ pc' = "idle" /\ live' = live \ pendings
          /\ strays' = strays /\ abandoned' = abandoned \cup (live \cap pendings)
          /\ cfg.waits => pendings \cap live = {}
      BY <1>6 DEF StepReturns, Drained
    <2>2. Leftovers' = Leftovers \cup (live \cap pendings)
      BY <2>1 DEF Leftovers
    <2>3. ASSUME NEW g \in live \cap pendings
          PROVE  g \in Groups' /\ g \notin live' \cup Used'
      <3>1. g \in Groups /\ g \notin Used
        BY <2>1, RunningUnused
      <3>2. Used' \subseteq Used
        <4>1. /\ parked' = {} /\ ready' = {} /\ deferred' = {} /\ data' = {}
              /\ prefetched' = prefetched /\ Past' = Past
              /\ buffer' = buffer \o requeued /\ requeued' = << >>
          BY <1>6 DEF StepReturns, putVars, Past, Steps
        <4>2. Buffered' = Buffered \cup GivenBack
          BY <4>1, Joined DEF Buffered, GivenBack, WhereInv, GroupTypes
        <4>3. GivenBack' = {} /\ Arms' = {}
          <5>1. DOMAIN << >> = {}
            OBVIOUS
          <5> QED
            BY <4>1, <5>1 DEF GivenBack, Arms, ToSet
        <4>4. Used' = Buffered' \cup prefetched' \cup parked' \cup ready' \cup Arms'
                          \cup GivenBack' \cup data' \cup Past'
          BY DEF Used, Buffered, Arms, GivenBack, Past
        <4> QED
          BY <4>1, <4>2, <4>3, <4>4, UsedPlaces
      <3> QED
        BY <1>2, <2>1, <3>1, <3>2
    <2> QED
      BY <1>2, <1>3, <2>1, <2>2, <2>3 DEF StrayInv, Looping
  <1> QED
    BY <1>4, <1>5, <1>6, Leaving

LEMMA StrayHolds == Spec => []StrayInv
  <1>1. BatchInv /\ WhereInv /\ StrayInv /\ [Next]_vars => StrayInv'
    <2>1. ASSUME StrayInv, UNCHANGED vars PROVE StrayInv'
      BY <2>1 DEF vars, StrayInv, Leftovers, Used, Groups, Steps, stepVars, sourceVars,
             cacheVars, taskVars, leftVars, judgeVars, putVars
    <2> QED
      BY <2>1, StrayStep
  <1> QED
    BY <1>1, InitStray, BatchHolds, WhereHolds, PTL DEF Spec

\* Between two steps no transfer is under way and no ended group is left; a
\* task of a sample, or with RELAX_ABORT_CANCEL_WAIT_SEC <= 0 of a group, may
\* outlive its step, but then its group is not used again.
THEOREM LeftoversUnusedHolds == Spec => []LeftoversUnused
  <1>1. BatchInv => (pc \in {"idle", "over"} => live = {} /\ done = {} /\ puts = {})
    BY DEF BatchInv, StepInv, Closing, Between
  <1>2. StrayInv => /\ cfg.waits => abandoned = {}
                    /\ (strays \cup abandoned) \cap (live \cup Used) = {}
    BY DEF StrayInv, Leftovers
  <1> QED
    BY <1>1, <1>2, BatchHolds, StrayHolds, PTL DEF LeftoversUnused

=============================================================================
