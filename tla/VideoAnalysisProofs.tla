------------------------ MODULE VideoAnalysisProofs ------------------------
(* Theorems of VideoJobs and of VideoAnalysis, for any number of calls,     *)
(* keys, tenants, slots and places: the runner leaks no slot, the analyses  *)
(* use it as it promises, their work in flight can be joined, their uploads *)
(* are deleted and their allowance is neither exceeded nor lost.            *)
EXTENDS VideoAnalysis, FiniteSetTheorems, SequenceTheorems, TLAPS

-----------------------------------------------------------------------------
(* The runner by itself. *)

\* What the slots and the queue need of the types.
QueueOK ==
  /\ running \in Int /\ phase \in [Calls -> Phases]
  /\ waiters \in Seq(Calls) /\ Len(waiters) <= MaxQueued

\* Inductive: the queue and the slots say the same as the phases.
QueueInv == QueueOK /\ SlotsHeld /\ NobodyWaitsInVain

Held == {"granted", "mkdtemp", "job", "cleanup"}

\* The slots counted are finitely many.
LEMMA HoldersFinite == IsFiniteSet(Holders) /\ Cardinality(Holders) \in Nat
  <1>1. Holders \subseteq Calls
    BY DEF Holders
  <1> QED BY <1>1, RunnerAssumption, FS_Subset, FS_CardinalityType

\* A queue loses its head.
LEMMA QueueTail ==
  ASSUME NEW w \in Seq(Calls), w # <<>>
  PROVE  /\ Head(w) \in Calls /\ Head(w) = w[1] /\ Tail(w) \in Seq(Calls)
         /\ Len(Tail(w)) = Len(w) - 1
         /\ \A i \in DOMAIN Tail(w) : i + 1 \in DOMAIN w /\ Tail(w)[i] = w[i + 1]
         /\ \A i \in DOMAIN w : i # 1 => i - 1 \in DOMAIN Tail(w) /\ Tail(w)[i - 1] = w[i]
  <1>1. Len(w) \in Nat \ {0} /\ DOMAIN w = 1..Len(w)
    BY EmptySeq
  <1>2. /\ Head(w) = w[1] /\ Tail(w) \in Seq(Calls) /\ Len(Tail(w)) = Len(w) - 1
        /\ \A i \in 1..Len(Tail(w)) : Tail(w)[i] = w[i + 1]
    BY <1>1, HeadTailProperties
  <1>3. DOMAIN Tail(w) = 1..(Len(w) - 1)
    BY <1>2
  <1> QED BY <1>1, <1>2, <1>3

\* The places before and after the one that is lost.
LEMMA Places ==
  ASSUME NEW n \in Nat, NEW i \in 1..n, NEW j \in Int
  PROVE  /\ j \in 1..(i - 1) => j \in 1..n /\ j \in 1..(n - 1)
         /\ j \in 1..n /\ j > i => j - 1 \in 1..(n - 1) /\ j - 1 \in i..(n - 1) /\ (j - 1) + 1 = j
         /\ j \in 1..n /\ j < i => j \in 1..(i - 1)
  OBVIOUS

\* v is w without the member at i.
Without(w, i, v) ==
  /\ v \in Seq(Calls) /\ Len(v) = Len(w) - 1
  /\ \A j \in DOMAIN v : \E k \in DOMAIN w \ {i} : v[j] = w[k]
  /\ \A k \in DOMAIN w \ {i} : \E j \in DOMAIN v : v[j] = w[k]
  /\ (\A j, k \in DOMAIN w : w[j] = w[k] => j = k) =>
       (\A j, k \in DOMAIN v : v[j] = v[k] => j = k)

\* A queue loses any of its members (splice).
LEMMA QueueWithout ==
  ASSUME NEW w \in Seq(Calls), NEW i \in DOMAIN w, NEW v,
         v = SubSeq(w, 1, i - 1) \o SubSeq(w, i + 1, Len(w))
  PROVE  Without(w, i, v)
  <1>1. Len(w) \in Nat /\ i \in 1..Len(w)
    OBVIOUS
  <1> DEFINE a == SubSeq(w, 1, i - 1)
             b == SubSeq(w, i + 1, Len(w))
  <1>2. /\ a \in Seq(Calls) /\ Len(a) = i - 1
        /\ \A j \in 1..(i - 1) : a[j] = w[j]
    BY <1>1
  <1>3. /\ b \in Seq(Calls) /\ Len(b) = Len(w) - i
        /\ \A j \in 1..(Len(w) - i) : b[j] = w[i + j]
    BY <1>1
  <1> HIDE DEF a, b
  <1>4. v = a \o b
    BY DEF a, b
  <1>5. /\ v \in Seq(Calls) /\ Len(v) = Len(w) - 1
        /\ \A j \in 1..(i - 1) : v[j] = a[j]
        /\ \A j \in i..(Len(w) - 1) : v[j] = b[j - (i - 1)]
    <2>1. a \in Seq(Calls) /\ b \in Seq(Calls)
      BY <1>2, <1>3
    <2>2. /\ a \o b \in Seq(Calls) /\ Len(a \o b) = Len(a) + Len(b)
          /\ \A j \in 1..(Len(a) + Len(b)) : (a \o b)[j] = IF j <= Len(a) THEN a[j] ELSE b[j - Len(a)]
      BY <2>1, ConcatProperties
    <2>3. /\ v \in Seq(Calls) /\ Len(v) = (i - 1) + (Len(w) - i)
          /\ \A j \in 1..((i - 1) + (Len(w) - i)) : v[j] = IF j <= i - 1 THEN a[j] ELSE b[j - (i - 1)]
      BY <1>2, <1>3, <1>4, <2>2, Zenon
    <2>4. (i - 1) + (Len(w) - i) = Len(w) - 1 /\ i \in Nat /\ i <= Len(w)
      BY <1>1
    <2>5. ASSUME NEW j \in 1..(i - 1) PROVE v[j] = a[j]
      <3>1. j \in 1..((i - 1) + (Len(w) - i)) /\ j <= i - 1
        BY <1>1
      <3> QED BY <2>3, <3>1, Zenon
    <2>6. ASSUME NEW j \in i..(Len(w) - 1) PROVE v[j] = b[j - (i - 1)]
      <3>1. j \in 1..((i - 1) + (Len(w) - i)) /\ ~(j <= i - 1)
        BY <1>1
      <3> QED BY <2>3, <3>1, Zenon
    <2> QED BY <2>3, <2>4, <2>5, <2>6, Zenon
  <1>6. ASSUME NEW j \in i..(Len(w) - 1) PROVE v[j] = w[j + 1]
    <2>1. j - (i - 1) \in 1..(Len(w) - i) /\ i + (j - (i - 1)) = j + 1
      BY <1>1
    <2> QED BY <1>3, <1>5, <2>1
  <1>7. DOMAIN w = 1..Len(w) /\ DOMAIN v = 1..(Len(w) - 1)
    BY <1>5
  <1>8. ASSUME NEW j \in 1..(i - 1)
        PROVE  j \in DOMAIN v /\ j \in DOMAIN w /\ v[j] = w[j]
    <2>0. Len(w) \in Nat /\ i \in 1..Len(w) /\ j \in Int
      BY <1>1
    <2>1. j \in 1..Len(w) /\ j \in 1..(Len(w) - 1)
      BY <2>0, Places
    <2> QED BY <1>2, <1>5, <1>7, <2>1, Zenon
  <1>9. ASSUME NEW j \in DOMAIN v
        PROVE  /\ j < i => j \in DOMAIN w /\ v[j] = w[j]
               /\ j >= i => j + 1 \in DOMAIN w /\ v[j] = w[j + 1]
    <2>1. j \in 1..(Len(w) - 1)
      BY <1>7
    <2>2. /\ j < i => j \in 1..(i - 1)
          /\ j >= i => j + 1 \in 1..Len(w) /\ j \in i..(Len(w) - 1)
      BY <1>1, <2>1
    <2> QED BY <1>6, <1>7, <1>8, <2>2, Zenon
  <1>10. ASSUME NEW j \in DOMAIN w
         PROVE  /\ j < i => j \in DOMAIN v /\ v[j] = w[j]
                /\ j > i => j - 1 \in DOMAIN v /\ v[j - 1] = w[j]
    <2>1. j \in 1..Len(w)
      BY <1>7
    <2>2. /\ j < i => j \in 1..(i - 1)
          /\ j > i => j - 1 \in 1..(Len(w) - 1) /\ j - 1 \in i..(Len(w) - 1) /\ (j - 1) + 1 = j
      BY <1>1, <2>1, Places
    <2>3. j > i => v[j - 1] = w[(j - 1) + 1]
      BY <1>6, <2>2, Zenon
    <2>4. j > i => v[j - 1] = w[j]
      BY <2>2, <2>3, Zenon
    <2> QED BY <1>7, <1>8, <2>2, <2>4, Zenon
  <1>11. i \in Nat /\ DOMAIN v \subseteq Nat /\ DOMAIN w \subseteq Nat
    BY <1>1, <1>7
  <1> DEFINE from(j) == IF j < i THEN j ELSE j + 1
  <1>12. ASSUME NEW j \in DOMAIN v PROVE from(j) \in DOMAIN w \ {i} /\ v[j] = w[from(j)]
    BY <1>9, <1>11
  <1>13. ASSUME NEW k \in DOMAIN w, k # i PROVE \E j \in DOMAIN v : v[j] = w[k]
    <2>1. k < i \/ k > i
      BY <1>11, <1>13
    <2>2. CASE k < i
      BY <1>10, <2>2, Zenon
    <2>3. CASE k > i
      BY <1>10, <2>3, Zenon
    <2> QED BY <2>1, <2>2, <2>3
  <1>14. ASSUME \A j, k \in DOMAIN w : w[j] = w[k] => j = k,
                NEW j \in DOMAIN v, NEW k \in DOMAIN v, v[j] = v[k]
         PROVE  j = k
    <2>1. from(j) = from(k)
      <3> HIDE DEF from
      <3> QED BY <1>12, <1>14
    <2> QED BY <1>11, <2>1
  <1> HIDE DEF from
  <1> QED BY <1>5, <1>12, <1>13, <1>14 DEF Without

\* A change of phase that neither takes nor frees a slot nor queues.
LEMMA PhaseKeeps ==
  ASSUME QueueInv, NEW c \in Calls, NEW p \in Phases,
         phase' = [phase EXCEPT ![c] = p], phase[c] # "queued", p # "queued",
         phase[c] \in Held <=> p \in Held,
         UNCHANGED <<running, waiters>>
  PROVE  QueueInv'
  <1>1. Holders' = Holders
    BY DEF Holders, Held, QueueInv, QueueOK
  <1>2. \A d \in Calls : phase'[d] = "queued" <=> phase[d] = "queued"
    BY DEF QueueInv, QueueOK
  <1>3. NobodyWaitsInVain'
    <2>1. \A i \in DOMAIN waiters : waiters[i] \in Calls
      BY DEF QueueInv, QueueOK
    <2> QED BY <1>2, <2>1 DEF QueueInv, NobodyWaitsInVain
  <1> QED BY <1>1, <1>3 DEF QueueInv, QueueOK, SlotsHeld

\* acquire, whichever way it goes.
LEMMA AcquireKeeps ==
  ASSUME QueueInv, NEW c \in Calls, phase[c] = "idle", acquire(c)
  PROVE  QueueInv'
  <1>0. /\ QueueOK /\ SlotsHeld /\ NobodyWaitsInVain /\ MaxConcurrent \in Nat /\ MaxQueued \in Nat
        /\ \A i \in DOMAIN waiters : waiters[i] \in Calls
    BY RunnerAssumption DEF QueueInv, QueueOK
  <1>1. CASE /\ running < MaxConcurrent /\ running' = running + 1
             /\ phase' = [phase EXCEPT ![c] = "granted"] /\ waiters' = waiters
    <2>1. Holders' = Holders \cup {c} /\ c \notin Holders
      BY <1>0, <1>1 DEF Holders, QueueOK
    <2>2. Cardinality(Holders') = Cardinality(Holders) + 1
      BY <2>1, HoldersFinite, FS_AddElement
    <2>3. SlotsHeld'
      BY <1>0, <1>1, <2>2 DEF SlotsHeld, QueueOK
    <2>4. waiters = <<>>
      BY <1>0, <1>1 DEF NobodyWaitsInVain, QueueOK
    <2>5. NobodyWaitsInVain'
      BY <1>0, <1>1, <2>4 DEF NobodyWaitsInVain, QueueOK
    <2> QED BY <1>0, <1>1, <2>3, <2>5 DEF QueueInv, QueueOK, Phases
  <1>2. CASE Rejects(c) /\ UNCHANGED <<running, waiters>>
    BY <1>2, PhaseKeeps DEF Rejects, Held, Phases
  <1>3. CASE /\ running >= MaxConcurrent /\ Len(waiters) < MaxQueued
             /\ waiters' = Append(waiters, c)
             /\ phase' = [phase EXCEPT ![c] = "queued"] /\ running' = running
    <2>1. Holders' = Holders
      BY <1>0, <1>3 DEF Holders, QueueOK
    <2>2. /\ waiters' \in Seq(Calls) /\ Len(waiters') = Len(waiters) + 1
          /\ \A i \in DOMAIN waiters : i \in DOMAIN waiters' /\ waiters'[i] = waiters[i]
          /\ waiters'[Len(waiters) + 1] = c
          /\ DOMAIN waiters' = DOMAIN waiters \cup {Len(waiters) + 1}
      BY <1>0, <1>3 DEF QueueOK
    <2>3. \A i \in DOMAIN waiters : waiters[i] # c
      BY <1>0 DEF NobodyWaitsInVain
    <2>4. NobodyWaitsInVain'
      <3>1. running' = MaxConcurrent
        BY <1>0, <1>3 DEF SlotsHeld, QueueOK
      <3>2. ASSUME NEW d \in Calls, phase'[d] = "queued"
            PROVE  \E i \in DOMAIN waiters' : waiters'[i] = d
        <4>1. CASE d = c
          BY <2>2, <4>1
        <4>2. CASE d # c
          <5>1. phase[d] = "queued"
            BY <1>0, <1>3, <3>2, <4>2 DEF QueueOK
          <5>2. PICK i \in DOMAIN waiters : waiters[i] = d
            BY <1>0, <5>1 DEF NobodyWaitsInVain
          <5> QED BY <2>2, <5>2
        <4> QED BY <4>1, <4>2
      <3>3. \A i \in DOMAIN waiters' : phase'[waiters'[i]] = "queued"
        BY <1>0, <1>3, <2>2, <2>3 DEF NobodyWaitsInVain, QueueOK
      <3>4. \A i, j \in DOMAIN waiters' : waiters'[i] = waiters'[j] => i = j
        BY <1>0, <2>2, <2>3 DEF NobodyWaitsInVain
      <3> QED BY <3>1, <3>2, <3>3, <3>4 DEF NobodyWaitsInVain
    <2>5. QueueOK'
      BY <1>0, <1>3, <2>2 DEF QueueOK, Phases
    <2> QED BY <1>0, <1>3, <2>1, <2>4, <2>5 DEF QueueInv, SlotsHeld
  <1> QED BY <1>1, <1>2, <1>3 DEF acquire

\* release: the slot is free, or the first waiter's.
LEMMA ReleaseKeeps ==
  ASSUME QueueInv, NEW c \in Calls, phase[c] \in Held, release(c)
  PROVE  QueueInv'
  <1>0. /\ QueueOK /\ SlotsHeld /\ NobodyWaitsInVain /\ MaxConcurrent \in Nat /\ MaxQueued \in Nat
        /\ \A i \in DOMAIN waiters : waiters[i] \in Calls
        /\ c \in Holders /\ phase[c] # "queued"
    BY RunnerAssumption DEF QueueInv, QueueOK, Holders, Held
  <1>1. CASE /\ waiters = <<>> /\ running' = running - 1 /\ waiters' = waiters
             /\ phase' = [phase EXCEPT ![c] = "settled"]
    <2>1. Holders' = Holders \ {c}
      BY <1>0, <1>1 DEF Holders, QueueOK
    <2>2. Cardinality(Holders') = Cardinality(Holders) - 1
      BY <1>0, <2>1, HoldersFinite, FS_RemoveElement
    <2>3. SlotsHeld'
      BY <1>0, <1>1, <2>2 DEF SlotsHeld, QueueOK
    <2>4. NobodyWaitsInVain'
      BY <1>0, <1>1 DEF NobodyWaitsInVain, QueueOK
    <2> QED BY <1>0, <1>1, <2>3, <2>4 DEF QueueInv, QueueOK, Phases
  <1>2. CASE /\ waiters # <<>> /\ running' = (running - 1) + 1 /\ waiters' = Tail(waiters)
             /\ phase' = [phase EXCEPT ![c] = "settled", ![Head(waiters)] = "granted"]
    <2> DEFINE h == Head(waiters)
    <2>1. /\ h \in Calls /\ h = waiters[1] /\ waiters' \in Seq(Calls)
          /\ Len(waiters') = Len(waiters) - 1
          /\ \A i \in DOMAIN waiters' : i + 1 \in DOMAIN waiters /\ waiters'[i] = waiters[i + 1]
          /\ \A i \in DOMAIN waiters : i # 1 => i - 1 \in DOMAIN waiters' /\ waiters'[i - 1] = waiters[i]
      BY <1>0, <1>2, QueueTail DEF QueueOK
    <2>2. 1 \in DOMAIN waiters /\ DOMAIN waiters \subseteq Nat \ {0} /\ DOMAIN waiters' \subseteq Nat \ {0}
      BY <1>0, <1>2, <2>1, EmptySeq DEF QueueOK
    <2>3. phase[h] = "queued" /\ h # c /\ h \notin Holders
      BY <1>0, <2>1, <2>2 DEF NobodyWaitsInVain, Holders
    <2> HIDE DEF h
    <2>4. /\ phase'[c] = "settled" /\ phase'[h] = "granted"
          /\ \A d \in Calls \ {c, h} : phase'[d] = phase[d]
          /\ phase' \in [Calls -> Phases]
      BY <1>0, <1>2, <2>1, <2>3 DEF QueueOK, Phases, h
    <2>5. Holders' = (Holders \ {c}) \cup {h}
      BY <2>1, <2>4 DEF Holders
    <2>6. Cardinality(Holders') = Cardinality(Holders)
      <3>1. IsFiniteSet(Holders \ {c}) /\ Cardinality(Holders \ {c}) = Cardinality(Holders) - 1
        BY <1>0, HoldersFinite, FS_RemoveElement
      <3>2. Cardinality((Holders \ {c}) \cup {h}) = Cardinality(Holders \ {c}) + 1
        BY <2>3, <3>1, FS_AddElement
      <3> QED BY <2>5, <3>1, <3>2, HoldersFinite
    <2>7. running' = running
      BY <1>0, <1>2 DEF QueueOK
    <2>8. NobodyWaitsInVain'
      <3>1. running' = MaxConcurrent
        BY <1>0, <1>2, <2>7 DEF NobodyWaitsInVain
      <3>2. ASSUME NEW d \in Calls, phase'[d] = "queued"
            PROVE  \E i \in DOMAIN waiters' : waiters'[i] = d
        <4>1. d \notin {c, h} /\ phase[d] = "queued"
          BY <2>1, <2>4, <3>2
        <4>2. PICK i \in DOMAIN waiters : waiters[i] = d
          BY <1>0, <4>1 DEF NobodyWaitsInVain
        <4>3. i # 1
          BY <2>1, <4>1, <4>2
        <4> QED BY <2>1, <4>2, <4>3
      <3>3. ASSUME NEW i \in DOMAIN waiters' PROVE phase'[waiters'[i]] = "queued"
        <4>1. i + 1 \in DOMAIN waiters /\ waiters'[i] = waiters[i + 1] /\ i + 1 # 1
          BY <2>1, <2>2
        <4>2. waiters[i + 1] # h /\ phase[waiters[i + 1]] = "queued" /\ waiters[i + 1] \in Calls
          BY <1>0, <2>1, <2>2, <4>1 DEF NobodyWaitsInVain
        <4> QED BY <1>0, <2>4, <4>1, <4>2
      <3>4. ASSUME NEW i \in DOMAIN waiters', NEW j \in DOMAIN waiters',
                   waiters'[i] = waiters'[j]
            PROVE  i = j
        <4>1. i + 1 = j + 1
          BY <1>0, <2>1, <3>4 DEF NobodyWaitsInVain
        <4> QED BY <2>2, <4>1
      <3> QED BY <3>1, <3>2, <3>3, <3>4 DEF NobodyWaitsInVain
    <2> QED BY <1>0, <2>1, <2>4, <2>6, <2>7, <2>8 DEF QueueInv, QueueOK, SlotsHeld
  <1> QED BY <1>1, <1>2 DEF release

\* A waiter leaves the queue from wherever it is.
LEMMA CancelKeeps ==
  ASSUME QueueInv, NEW c \in Calls, phase[c] = "queued", cancel(c), running' = running
  PROVE  QueueInv'
  <1>0. /\ QueueOK /\ SlotsHeld /\ NobodyWaitsInVain /\ MaxConcurrent \in Nat /\ MaxQueued \in Nat
        /\ phase' = [phase EXCEPT ![c] = "settled"]
    BY RunnerAssumption DEF QueueInv, cancel, Rejects
  <1>1. PICK i \in DOMAIN waiters :
          /\ waiters[i] = c
          /\ waiters' = SubSeq(waiters, 1, i - 1) \o SubSeq(waiters, i + 1, Len(waiters))
    BY DEF cancel
  <1>2. Without(waiters, i, waiters')
    <2>1. waiters \in Seq(Calls)
      BY <1>0 DEF QueueOK
    <2> QED BY <1>1, <2>1, QueueWithout
  <1>3. \A j \in DOMAIN waiters : waiters[j] \in Calls
    BY <1>0 DEF QueueOK
  <1>4. \A j \in DOMAIN waiters' : \E k \in DOMAIN waiters \ {i} : waiters'[j] = waiters[k]
    BY <1>2 DEF Without
  <1>5. \A k \in DOMAIN waiters \ {i} : \E j \in DOMAIN waiters' : waiters'[j] = waiters[k]
    BY <1>2 DEF Without
  <1>6. Holders' = Holders
    BY <1>0 DEF Holders, QueueOK
  <1>7. NobodyWaitsInVain'
    <2>1. waiters' # <<>> => running' = MaxConcurrent
      BY <1>0, <1>1 DEF NobodyWaitsInVain
    <2>2. ASSUME NEW d \in Calls, phase'[d] = "queued"
          PROVE  \E k \in DOMAIN waiters' : waiters'[k] = d
      <3>1. d # c /\ phase[d] = "queued"
        BY <1>0, <2>2 DEF QueueOK
      <3>2. PICK j \in DOMAIN waiters : waiters[j] = d
        BY <1>0, <3>1 DEF NobodyWaitsInVain
      <3> QED BY <1>1, <1>5, <3>1, <3>2
    <2>3. ASSUME NEW j \in DOMAIN waiters' PROVE phase'[waiters'[j]] = "queued"
      <3>1. PICK k \in DOMAIN waiters \ {i} : waiters'[j] = waiters[k]
        BY <1>4
      <3>2. waiters[k] \in Calls /\ waiters[k] # c /\ phase[waiters[k]] = "queued"
        BY <1>0, <1>1, <1>3 DEF NobodyWaitsInVain
      <3> QED BY <1>0, <3>1, <3>2 DEF QueueOK
    <2>4. \A j, k \in DOMAIN waiters' : waiters'[j] = waiters'[k] => j = k
      BY <1>0, <1>2 DEF NobodyWaitsInVain, Without
    <2> QED BY <2>1, <2>2, <2>3, <2>4 DEF NobodyWaitsInVain
  <1> QED BY <1>0, <1>2, <1>6, <1>7 DEF QueueInv, QueueOK, SlotsHeld, Phases, Without

\* Nothing is held and nobody waits at first.
LEMMA InitQueue == InitRunner => QueueInv
  <1> SUFFICES ASSUME InitRunner PROVE QueueInv
    OBVIOUS
  <1>1. QueueOK
    BY RunnerAssumption DEF InitRunner, QueueOK, Phases
  <1>2. Holders = {}
    BY DEF InitRunner, Holders
  <1>3. SlotsHeld
    BY <1>2, RunnerAssumption, FS_EmptySet DEF InitRunner, SlotsHeld
  <1>4. NobodyWaitsInVain
    BY DEF InitRunner, NobodyWaitsInVain
  <1> QED BY <1>1, <1>3, <1>4 DEF QueueInv

\* One case per action of the runner.
LEMMA NextQueue == QueueInv /\ [RunnerNext]_<<now, runnerVars, aborted>> => QueueInv'
  <1> SUFFICES ASSUME QueueInv, [RunnerNext]_<<now, runnerVars, aborted>> PROVE QueueInv'
    OBVIOUS
  <1>1. CASE UNCHANGED <<running, waiters, phase>>
    BY <1>1 DEF QueueInv, QueueOK, SlotsHeld, Holders, NobodyWaitsInVain
  <1>2. ASSUME NEW c \in Calls, run(c) PROVE QueueInv'
    <2>1. phase[c] = "idle"
      BY <1>2 DEF run
    <2>2. CASE acquire(c)
      BY <2>1, <2>2, AcquireKeeps
    <2>3. CASE Rejects(c) /\ UNCHANGED <<running, waiters>>
      BY <2>1, <2>3, PhaseKeeps DEF Rejects, Held, Phases
    <2> QED BY <1>2, <2>2, <2>3 DEF run
  <1>3. ASSUME NEW c \in Calls, Start(c) \/ MadeDir(c) PROVE QueueInv'
    BY <1>3, PhaseKeeps DEF Start, MadeDir, Held, Phases
  <1>4. ASSUME NEW c \in Calls, StartAborted(c) \/ NoDir(c) \/ CleanedUp(c) PROVE QueueInv'
    BY <1>4, ReleaseKeeps DEF StartAborted, NoDir, CleanedUp, Held
  <1>5. ASSUME NEW c \in Calls, JobEnds(c, "ok") \/ JobEnds(c, "error") PROVE QueueInv'
    BY <1>5, PhaseKeeps DEF JobEnds, Held, Phases
  <1>6. ASSUME NEW c \in Calls, QueueTimeout(c) PROVE QueueInv'
    BY <1>6, CancelKeeps DEF QueueTimeout
  <1>7. ASSUME NEW c \in Calls, Abort(c) PROVE QueueInv'
    <2>1. CASE phase[c] = "queued"
      BY <1>7, <2>1, CancelKeeps DEF Abort
    <2>2. CASE phase[c] # "queued"
      BY <1>1, <1>7, <2>2 DEF Abort
    <2> QED BY <2>1, <2>2
  <1>8. ASSUME NEW c \in Calls, DeadlineFires(c) PROVE QueueInv'
    BY <1>1, <1>8 DEF DeadlineFires
  <1>9. CASE Tick \/ UNCHANGED <<now, runnerVars, aborted>>
    BY <1>1, <1>9 DEF Tick, runnerVars
  <1> QED BY <1>2, <1>3, <1>4, <1>5, <1>6, <1>7, <1>8, <1>9 DEF RunnerNext

\* No way for a call to end leaks a slot, and there are never more jobs than
\* slots (acquire, release, waiter.cancel).
THEOREM SlotsNeverLeak == RunnerSpec => []SlotsHeld
  <1>1. QueueInv => SlotsHeld
    BY DEF QueueInv
  <1> QED BY <1>1, InitQueue, NextQueue, PTL DEF RunnerSpec

\* The queue is exactly the calls that wait, and they wait only for slots that
\* are all in use (acquire, release, waiter.cancel).
THEOREM NoWakeUpIsLost == RunnerSpec => []NobodyWaitsInVain
  <1>1. QueueInv => NobodyWaitsInVain
    BY DEF QueueInv
  <1> QED BY <1>1, InitQueue, NextQueue, PTL DEF RunnerSpec
-----------------------------------------------------------------------------
(* The analyses. *)

\* Each step of an analysis is a step of the runner by itself, or none.
LEMMA StepOfRunner == [Next]_vars => [RunnerNext]_<<now, runnerVars, aborted>>
  <1> SUFFICES ASSUME [Next]_vars PROVE [RunnerNext]_<<now, runnerVars, aborted>>
    OBVIOUS
  <1> USE DEF RunnerNext
  <1>1. Analyses \subseteq Calls /\ Deliveries \subseteq Calls
    BY AnalysisAssumption DEF Analyses
  <1>2. ASSUME NEW c \in Calls, AbortCall(c) \/ Runner(c)
        PROVE  RunnerNext
    BY <1>2 DEF AbortCall, Runner
  <1>3. ASSUME NEW c \in Deliveries, Deliver(c) PROVE RunnerNext
    BY <1>1, <1>3 DEF Deliver
  <1>4. ASSUME NEW c \in Analyses, StartNew(c) \/ JoinFailed(c)
        PROVE  [RunnerNext]_<<now, runnerVars, aborted>>
    BY <1>1, <1>4 DEF StartNew, JoinFailed, startWork
  <1>5. ASSUME NEW c \in Analyses,
               \/ JobStarts(c) \/ PrepareFails(c) \/ UploadRefused(c)
               \/ Generated(c) \/ GenerateFails(c) \/ Deleted(c)
        PROVE  [RunnerNext]_<<now, runnerVars, aborted>>
    BY <1>1, <1>5 DEF JobStarts, PrepareFails, UploadRefused, Generated, GenerateFails,
                      Deleted, Ends, Goes
  <1>6. ASSUME NEW c \in Analyses,
               \/ CacheHit(c) \/ Join(c) \/ JoinAnswered(c) \/ Prepared(c) \/ Announced(c)
               \/ UploadLost(c) \/ Uploaded(c) \/ Publish(c) \/ Finish(c)
        PROVE  UNCHANGED <<now, runnerVars, aborted>>
    BY <1>6 DEF CacheHit, Join, JoinAnswered, Prepared, Announced, UploadLost, Uploaded,
                Publish, Finish, Goes
  <1>7. ASSUME NEW k \in CacheKeys, CacheDrops(k) PROVE UNCHANGED <<now, runnerVars, aborted>>
    BY <1>7 DEF CacheDrops
  <1>8. CASE UNCHANGED vars
    BY <1>8 DEF vars
  <1> QED BY <1>2, <1>3, <1>4, <1>5, <1>6, <1>7, <1>8 DEF Next

\* The analysis of videos implements the runner by itself: however an analysis
\* goes, the runner sees calls of run whose jobs end.
THEOREM ImplementsRunner == Spec => RunnerSpec
  <1>1. Init => InitRunner
    BY DEF Init
  <1> QED BY <1>1, StepOfRunner, PTL DEF Spec, RunnerSpec

\* Hence no analysis leaks a slot.
COROLLARY AnalysesLeakNoSlot == Spec => []SlotsHeld
  BY ImplementsRunner, SlotsNeverLeak, PTL
-----------------------------------------------------------------------------
\* Work that goes on is pending, and work found in flight goes on under the
\* key it is found at.
FlightInv ==
  /\ DOMAIN call = Calls /\ DOMAIN work = Calls
  /\ inFlight \in [CacheKeys -> Calls \cup {NoCall}]
  /\ \A c \in Calls : call[c] = "working" => work[c] = "pending"
  /\ \A k \in CacheKeys : inFlight[k] # NoCall =>
       call[inFlight[k]] = "working" /\ cacheKey[inFlight[k]] = k

LEMMA InitFlight == Init => FlightInv
  BY DEF Init, FlightInv

\* A call that is not at work changes its place.
LEMMA OthersKeepFlight ==
  ASSUME FlightInv, NEW c \in Calls, call[c] # "working", NEW p, p # "working",
         call' = [call EXCEPT ![c] = p], UNCHANGED <<work, inFlight>>
  PROVE  FlightInv'
  <1>1. DOMAIN call' = Calls /\ \A d \in Calls : call'[d] = "working" <=> call[d] = "working"
    BY DEF FlightInv
  <1> QED BY <1>1 DEF FlightInv

LEMMA StartWorkKeepsFlight ==
  ASSUME FlightInv, NEW c \in Calls, call[c] # "working", startWork(c)
  PROVE  FlightInv'
  <1>1. CASE call' = [call EXCEPT ![c] = "failed"] /\ UNCHANGED <<work, inFlight>>
    BY <1>1, OthersKeepFlight
  <1>2. CASE /\ call' = [call EXCEPT ![c] = "working"] /\ work' = [work EXCEPT ![c] = "pending"]
             /\ inFlight' = [inFlight EXCEPT ![cacheKey[c]] = c]
    <2>1. cacheKey[c] \in CacheKeys
      BY AnalysisAssumption
    <2>2. inFlight' \in [CacheKeys -> Calls \cup {NoCall}]
      BY <1>2, <2>1 DEF FlightInv
    <2>3. \A d \in Calls : call'[d] = "working" => work'[d] = "pending"
      BY <1>2 DEF FlightInv
    <2>4. ASSUME NEW k \in CacheKeys, inFlight'[k] # NoCall
          PROVE  call'[inFlight'[k]] = "working" /\ cacheKey[inFlight'[k]] = k
      <3>1. CASE k = cacheKey[c]
        BY <1>2, <2>1, <3>1 DEF FlightInv
      <3>2. CASE k # cacheKey[c]
        BY <1>2, <2>1, <2>4, <3>2 DEF FlightInv
      <3> QED BY <3>1, <3>2
    <2> QED BY <1>2, <2>2, <2>3, <2>4 DEF FlightInv
  <1> QED BY <1>1, <1>2 DEF startWork

\* Its own entry leaves with the work.
LEMMA FinishKeepsFlight ==
  ASSUME FlightInv, NEW c \in Calls, Finish(c)
  PROVE  FlightInv'
  <1>1. /\ DOMAIN call' = Calls /\ DOMAIN work' = Calls /\ call'[c] # "working"
        /\ \A d \in Calls \ {c} : call'[d] = call[d] /\ work'[d] = work[d]
    BY DEF Finish, FlightInv
  <1>2. /\ inFlight' \in [CacheKeys -> Calls \cup {NoCall}]
        /\ \A k \in CacheKeys : inFlight'[k] \in {inFlight[k], NoCall}
        /\ inFlight[cacheKey[c]] = c => inFlight'[cacheKey[c]] = NoCall
    BY AnalysisAssumption DEF Finish, FlightInv
  <1>3. ASSUME NEW k \in CacheKeys, inFlight'[k] # NoCall
        PROVE  call'[inFlight'[k]] = "working" /\ cacheKey[inFlight'[k]] = k
    <2>1. inFlight'[k] = inFlight[k] /\ inFlight[k] \in Calls /\ cacheKey[inFlight[k]] = k
      BY <1>2, <1>3 DEF FlightInv
    <2>2. inFlight[k] # c
      BY <1>2, <1>3, <2>1
    <2> QED BY <1>1, <2>1, <2>2, <1>3 DEF FlightInv
  <1> QED BY <1>1, <1>2, <1>3 DEF FlightInv

\* One case per group of actions.
LEMMA NextFlight == FlightInv /\ [Next]_vars => FlightInv'
  <1> SUFFICES ASSUME FlightInv, [Next]_vars PROVE FlightInv'
    OBVIOUS
  <1>1. Analyses \subseteq Calls /\ Deliveries \subseteq Calls
    BY AnalysisAssumption DEF Analyses
  <1>2. CASE UNCHANGED <<call, work, inFlight>>
    BY <1>2 DEF FlightInv
  <1>3. ASSUME NEW c \in Analyses, StartNew(c) \/ JoinFailed(c) PROVE FlightInv'
    BY <1>1, <1>3, StartWorkKeepsFlight DEF StartNew, JoinFailed
  <1>4. ASSUME NEW c \in Analyses, Join(c) PROVE FlightInv'
    BY <1>1, <1>4, OthersKeepFlight DEF Join
  <1>5. ASSUME NEW c \in Analyses, CacheHit(c) \/ JoinAnswered(c) PROVE FlightInv'
    BY <1>1, <1>5, OthersKeepFlight DEF CacheHit, JoinAnswered
  <1>6. ASSUME NEW c \in Calls, AbortCall(c) PROVE FlightInv'
    BY <1>2, <1>6, OthersKeepFlight DEF AbortCall
  <1>7. ASSUME NEW c \in Analyses, Finish(c) PROVE FlightInv'
    BY <1>1, <1>7, FinishKeepsFlight
  <1>8. ASSUME NEW c \in Analyses,
               \/ JobStarts(c) \/ PrepareFails(c) \/ Prepared(c) \/ Announced(c)
               \/ UploadRefused(c) \/ UploadLost(c) \/ Uploaded(c) \/ Generated(c)
               \/ GenerateFails(c) \/ Deleted(c) \/ Publish(c)
        PROVE  FlightInv'
    BY <1>2, <1>8 DEF JobStarts, PrepareFails, Prepared, Announced, UploadRefused, UploadLost,
                      Uploaded, Generated, GenerateFails, Deleted, Publish, analysisVars
  <1>9. ASSUME NEW c \in Calls, Runner(c) PROVE FlightInv'
    BY <1>2, <1>9 DEF Runner, analysisVars
  <1>10. ASSUME NEW c \in Deliveries, Deliver(c) PROVE FlightInv'
    BY <1>2, <1>10 DEF Deliver, analysisVars
  <1>11. ASSUME NEW k \in CacheKeys, CacheDrops(k) PROVE FlightInv'
    BY <1>2, <1>11 DEF CacheDrops
  <1>12. CASE UNCHANGED analysisVars \/ UNCHANGED vars
    BY <1>2, <1>12 DEF analysisVars, vars
  <1> QED BY <1>3, <1>4, <1>5, <1>6, <1>7, <1>8, <1>9, <1>10, <1>11, <1>12 DEF Next

\* What a call finds in flight under its key has not settled: it can be
\* joined, whichever of several attempts wrote and removed the entry
\* (analyzeVideoWithGemini).
THEOREM JoinersFindPendingWork == Spec => []InFlightIsPending
  <1>1. FlightInv => InFlightIsPending
    BY DEF FlightInv, InFlightIsPending
  <1> QED BY <1>1, InitFlight, NextFlight, PTL DEF Spec
-----------------------------------------------------------------------------
\* A file is at Google only at the steps of a running job that lead to its
\* deletion.
UploadInv ==
  /\ QueueInv /\ DOMAIN step = Calls /\ file \subseteq Analyses
  /\ \A c \in file : phase[c] = "job" /\ step[c] \in {"generate", "delete_ok", "delete_error"}

\* No step of the runner but its own end takes a job from its place: a freed
\* slot goes to a waiter.
LEMMA JobsStay ==
  ASSUME QueueInv, NEW c \in Calls, NEW d \in Calls, phase[d] = "job",
         \/ run(c) \/ Start(c) \/ StartAborted(c) \/ MadeDir(c) \/ NoDir(c) \/ CleanedUp(c)
         \/ QueueTimeout(c) \/ Abort(c) \/ DeadlineFires(c)
         \/ (c # d /\ \E result : JobEnds(c, result))
  PROVE  phase'[d] = "job"
  <1>1. phase \in [Calls -> Phases]
    BY DEF QueueInv, QueueOK
  <1>2. CASE run(c) \/ Start(c) \/ MadeDir(c) \/ (c # d /\ \E result : JobEnds(c, result))
    <2>1. c # d /\ (UNCHANGED phase \/ \E p : phase' = [phase EXCEPT ![c] = p])
      BY <1>2 DEF run, Rejects, acquire, Start, MadeDir, JobEnds
    <2> QED BY <1>1, <2>1
  <1>3. CASE StartAborted(c) \/ NoDir(c) \/ CleanedUp(c)
    <2>1. c # d /\ release(c)
      BY <1>3 DEF StartAborted, NoDir, CleanedUp
    <2>2. CASE phase' = [phase EXCEPT ![c] = "settled"]
      BY <1>1, <2>1, <2>2
    <2>3. CASE waiters # <<>> /\ phase' = [phase EXCEPT ![c] = "settled", ![Head(waiters)] = "granted"]
      <3>1. Head(waiters) = waiters[1] /\ 1 \in DOMAIN waiters
        BY <2>3, QueueTail, EmptySeq DEF QueueInv, QueueOK
      <3>2. phase[Head(waiters)] = "queued"
        BY <3>1 DEF QueueInv, NobodyWaitsInVain
      <3>3. Head(waiters) # d
        BY <3>2
      <3> QED BY <1>1, <2>1, <2>3, <3>3
    <2> QED BY <2>1, <2>2, <2>3 DEF release
  <1>4. CASE QueueTimeout(c) \/ Abort(c)
    <2>1. UNCHANGED phase \/ (phase[c] = "queued" /\ phase' = [phase EXCEPT ![c] = "settled"])
      BY <1>4 DEF QueueTimeout, Abort, cancel, Rejects
    <2> QED BY <1>1, <2>1
  <1>5. CASE DeadlineFires(c)
    BY <1>5 DEF DeadlineFires
  <1> QED BY <1>2, <1>3, <1>4, <1>5

\* A step that leaves the uploads and their steps alone, and their jobs running.
LEMMA UploadsStay ==
  ASSUME UploadInv, QueueInv', DOMAIN step' = Calls, file' = file,
         \A d \in file : phase'[d] = "job" /\ step'[d] = step[d]
  PROVE  UploadInv'
  BY DEF UploadInv

\* A call without a file goes on, to any step.
LEMMA OtherSteps ==
  ASSUME UploadInv, QueueInv', NEW c \in Calls, c \notin file, file' = file,
         UNCHANGED step \/ \E s : step' = [step EXCEPT ![c] = s],
         \A d \in file : phase'[d] = "job"
  PROVE  UploadInv'
  <1>1. DOMAIN step = Calls
    BY DEF UploadInv
  <1>2. CASE UNCHANGED step
    BY <1>1, <1>2, UploadsStay
  <1>3. CASE \E s : step' = [step EXCEPT ![c] = s]
    <2>1. DOMAIN step' = Calls
      BY <1>1, <1>3
    <2>2. ASSUME NEW d \in file PROVE step'[d] = step[d]
      BY <1>3, <2>2
    <2> QED BY <2>1, <2>2, UploadsStay
  <1> QED BY <1>2, <1>3

\* One case per group of actions.
LEMMA NextUpload == UploadInv /\ [Next]_vars => UploadInv'
  <1> SUFFICES ASSUME UploadInv, [Next]_vars PROVE UploadInv'
    OBVIOUS
  <1>0. /\ Analyses \subseteq Calls /\ Deliveries \subseteq Calls /\ Analyses \cap Deliveries = {}
        /\ QueueInv /\ QueueInv' /\ file \subseteq Calls
    BY AnalysisAssumption, StepOfRunner, NextQueue DEF Analyses, UploadInv
  <1>1. CASE UNCHANGED <<phase, step, file>>
    BY <1>0, <1>1, UploadsStay DEF UploadInv
  <1>2. ASSUME NEW c \in Calls, AbortCall(c) \/ Runner(c) PROVE UploadInv'
    <2>1. UNCHANGED <<step, file>>
      BY <1>2 DEF AbortCall, Runner
    <2>2. \A d \in file : phase'[d] = "job"
      BY <1>0, <1>2, JobsStay DEF AbortCall, Runner, UploadInv
    <2> QED BY <1>0, <2>1, <2>2, UploadsStay DEF UploadInv
  <1>3. ASSUME NEW c \in Deliveries, Deliver(c) PROVE UploadInv'
    <2>1. UNCHANGED <<step, file>>
      BY <1>3 DEF Deliver
    <2>2. c \in Calls /\ c \notin file
      BY <1>0, <1>3 DEF UploadInv
    <2>3. \A d \in file : phase'[d] = "job"
      BY <1>0, <1>3, <2>2, JobsStay DEF Deliver, UploadInv
    <2> QED BY <1>0, <2>1, <2>3, UploadsStay DEF UploadInv
  <1>4. ASSUME NEW c \in Analyses, StartNew(c) \/ JoinFailed(c) PROVE UploadInv'
    <2>1. UNCHANGED <<step, file>> /\ (run(c) \/ UNCHANGED runnerVars)
      BY <1>4 DEF StartNew, JoinFailed, startWork
    <2>2. CASE run(c)
      <3>1. \A d \in file : phase'[d] = "job"
        BY <1>0, <2>2, JobsStay DEF UploadInv
      <3> QED BY <1>0, <2>1, <3>1, UploadsStay DEF UploadInv
    <2>3. CASE UNCHANGED runnerVars
      BY <1>1, <2>1, <2>3 DEF runnerVars
    <2> QED BY <2>1, <2>2, <2>3
  <1>5. ASSUME NEW c \in Analyses, JobStarts(c) PROVE UploadInv'
    <2>1. c \notin file /\ file' = file /\ \E s : step' = [step EXCEPT ![c] = s]
      BY <1>5 DEF JobStarts, MadeDir, UploadInv
    <2>2. \A d \in file : phase'[d] = "job"
      BY <1>0, <1>5, JobsStay DEF JobStarts, UploadInv
    <2> QED BY <1>0, <2>1, <2>2, OtherSteps
  <1>6. ASSUME NEW c \in Analyses, NEW result, At(c, "prepare") \/ At(c, "upload") \/ c \notin file,
               Ends(c, result), file' = file
        PROVE  UploadInv'
    <2>1. c \notin file
      BY <1>6 DEF At, UploadInv
    <2>2. \A d \in file : phase'[d] = "job"
      BY <1>0, <1>6, <2>1, JobsStay DEF Ends, UploadInv
    <2> QED BY <1>0, <1>6, <2>1, <2>2, OtherSteps DEF Ends
  <1>7. ASSUME NEW c \in Analyses, PrepareFails(c) \/ UploadRefused(c) PROVE UploadInv'
    BY <1>6, <1>7 DEF PrepareFails, UploadRefused
  <1>8. ASSUME NEW c \in Analyses, Prepared(c) \/ Announced(c) \/ Publish(c) PROVE UploadInv'
    <2>1. c \notin file /\ file' = file /\ UNCHANGED phase /\ \E s : step' = [step EXCEPT ![c] = s]
      BY <1>8 DEF Prepared, Announced, Publish, At, Goes, UploadInv, runnerVars
    <2> QED BY <1>0, <2>1, OtherSteps DEF UploadInv
  <1>9. ASSUME NEW c \in Analyses, NEW s \in {"generate", "delete_ok", "delete_error"},
               phase[c] = "job", Goes(c, s), file' \in {file, file \cup {c}}
        PROVE  UploadInv'
    <2>1. UNCHANGED phase /\ step' = [step EXCEPT ![c] = s]
      BY <1>9 DEF Goes, runnerVars
    <2>2. DOMAIN step' = Calls /\ step'[c] = s /\ \A d \in Calls \ {c} : step'[d] = step[d]
      BY <1>0, <2>1 DEF UploadInv
    <2> QED BY <1>0, <1>9, <2>1, <2>2 DEF UploadInv
  <1>10. ASSUME NEW c \in Analyses, UploadLost(c) \/ Uploaded(c) PROVE UploadInv'
    BY <1>9, <1>10 DEF UploadLost, Uploaded, At
  <1>11. ASSUME NEW c \in Analyses, Generated(c) \/ GenerateFails(c) PROVE UploadInv'
    BY <1>6, <1>9, <1>11 DEF Generated, GenerateFails, At
  <1>12. ASSUME NEW c \in Analyses, Deleted(c) PROVE UploadInv'
    <2>1. /\ step' = [step EXCEPT ![c] = "none"] /\ file' = file \ {c}
          /\ \E result : JobEnds(c, result)
      BY <1>12 DEF Deleted, Ends
    <2>2. \A d \in file \ {c} : phase'[d] = "job"
      BY <1>0, <2>1, JobsStay DEF UploadInv
    <2>3. DOMAIN step' = Calls /\ \A d \in Calls \ {c} : step'[d] = step[d]
      BY <2>1 DEF UploadInv
    <2> QED BY <1>0, <2>1, <2>2, <2>3 DEF UploadInv
  <1>13. ASSUME NEW c \in Analyses, CacheHit(c) \/ Join(c) \/ JoinAnswered(c) \/ Finish(c)
         PROVE  UploadInv'
    BY <1>1, <1>13 DEF CacheHit, Join, JoinAnswered, Finish, runnerVars
  <1>14. ASSUME NEW k \in CacheKeys, CacheDrops(k) PROVE UploadInv'
    BY <1>1, <1>14 DEF CacheDrops, runnerVars
  <1>15. CASE Tick /\ UNCHANGED <<analysisVars, step, billed, file>>
    BY <1>1, <1>15 DEF Tick, runnerVars
  <1>16. CASE UNCHANGED vars
    BY <1>1, <1>16 DEF vars, runnerVars
  <1> QED BY <1>2, <1>3, <1>4, <1>5, <1>7, <1>8, <1>10, <1>11, <1>12, <1>13, <1>14, <1>15, <1>16
          DEF Next

\* Whatever fails, is aborted or times out, an upload outlives its job only if
\* its deletion was tried (analyzeVideoWithGemini).
THEOREM UploadsAreDeleted == Spec => []UploadsDeleted
  <1>1. Init => UploadInv
    BY InitQueue DEF Init, UploadInv
  <1>2. UploadInv => UploadsDeleted
    BY DEF UploadInv, UploadsDeleted
  <1> QED BY <1>1, <1>2, NextUpload, PTL DEF Spec
-----------------------------------------------------------------------------
\* Types.

LEMMA RunnerTypes == RunnerOK /\ QueueInv' /\ [RunnerNext]_<<now, runnerVars, aborted>> => RunnerOK'
  <1> SUFFICES ASSUME RunnerOK, QueueInv', [RunnerNext]_<<now, runnerVars, aborted>>
               PROVE  RunnerOK'
    OBVIOUS
  <1> USE DEF RunnerOK
  <1>1. /\ running' \in Int /\ phase' \in [Calls -> Phases]
        /\ waiters' \in Seq(Calls) /\ Len(waiters') <= MaxQueued
    BY DEF QueueInv, QueueOK
  <1>2. ASSUME NEW c \in Calls, run(c) PROVE RunnerOK'
    <2>1. /\ outcome' \in [Calls -> {"none", "ok", "error"}] /\ UNCHANGED <<now, aborted, cut>>
      BY <1>2 DEF run, Rejects, acquire
    <2>2. purged \in [Tenants -> SUBSET [by : Calls, at : Nat]] /\ tenant[c] \in Tenants
      BY RunnerAssumption DEF purged
    <2>3. [by |-> c, at |-> now] \in [by : Calls, at : Nat]
      OBVIOUS
    <2>4. [purged EXCEPT ![tenant[c]] = @ \cup {[by |-> c, at |-> now]}]
            \in [Tenants -> SUBSET [by : Calls, at : Nat]]
      BY <2>2, <2>3
    <2>5. tenantWindows' \in [Tenants -> SUBSET [by : Calls, at : Nat]]
      BY <1>2, <2>2, <2>4 DEF run
    <2> QED BY <1>1, <2>1, <2>5
  <1>3. ASSUME NEW c \in Calls,
               \/ Start(c) \/ StartAborted(c) \/ MadeDir(c) \/ NoDir(c)
               \/ JobEnds(c, "ok") \/ JobEnds(c, "error") \/ CleanedUp(c)
               \/ QueueTimeout(c) \/ Abort(c) \/ DeadlineFires(c)
        PROVE  RunnerOK'
    <2>1. /\ outcome' \in [Calls -> {"none", "ok", "error"}] /\ UNCHANGED <<now, tenantWindows>>
          /\ aborted' \subseteq Calls /\ cut' \subseteq Calls
      BY <1>3 DEF Start, StartAborted, MadeDir, NoDir, JobEnds, CleanedUp, QueueTimeout, Abort,
                  DeadlineFires, cancel, Rejects
    <2> QED BY <1>1, <2>1
  <1>4. CASE Tick \/ UNCHANGED <<now, runnerVars, aborted>>
    BY <1>1, <1>4 DEF Tick, runnerVars
  <1> QED BY <1>2, <1>3, <1>4 DEF RunnerNext

LEMMA AllowanceTypes ==
  ASSUME TypeOK, NEW c \in Calls
  PROVE  /\ Allowance!acquire(c, tenant[c]) => permits' \in [Tenants -> SUBSET Allowance!Stamps]
         /\ Allowance!refund(c, tenant[c]) => permits' \in [Tenants -> SUBSET Allowance!Stamps]
  <1>1. /\ permits \in [Tenants -> SUBSET Allowance!Stamps] /\ tenant[c] \in Tenants
        /\ now \in Nat
    BY RunnerAssumption DEF TypeOK, RunnerOK
  <1>2. Allowance!purge \in [Tenants -> SUBSET Allowance!Stamps]
    BY <1>1 DEF Allowance!purge
  <1>3. [by |-> c, at |-> now] \in Allowance!Stamps
    BY <1>1 DEF Allowance!Stamps
  <1>4. [Allowance!purge EXCEPT ![tenant[c]] = @ \cup {[by |-> c, at |-> now]}]
          \in [Tenants -> SUBSET Allowance!Stamps]
    BY <1>1, <1>2, <1>3
  <1> QED BY <1>1, <1>2, <1>4 DEF Allowance!acquire, Allowance!refund

LEMMA NextAnalysisTypes ==
  TypeOK /\ QueueInv /\ FlightInv /\ [Next]_vars => TypeOK'
  <1> SUFFICES ASSUME TypeOK, QueueInv, FlightInv, [Next]_vars PROVE TypeOK'
    OBVIOUS
  <1>1. /\ Analyses \subseteq Calls /\ Deliveries \subseteq Calls /\ NoCall \notin Calls
        /\ RunnerOK' /\ inFlight' \in [CacheKeys -> Calls \cup {NoCall}]
        /\ cacheKey \in [Calls -> CacheKeys]
    BY StepOfRunner, NextQueue, NextFlight, RunnerTypes, AnalysisAssumption
    DEF Analyses, FlightInv, TypeOK
  <1> USE DEF TypeOK
  <1>2. CASE UNCHANGED <<call, joins, work, step, cache, billed, file, permits, startedAt>>
    BY <1>1, <1>2 DEF Allowance!Stamps
  <1>3. ASSUME NEW c \in Analyses, StartNew(c) \/ JoinFailed(c) PROVE TypeOK'
    <2>0. startedAt' \in [Calls -> Nat]
      <3>1. UNCHANGED startedAt \/ startedAt' = [startedAt EXCEPT ![c] = now]
        BY <1>3 DEF StartNew, JoinFailed, startWork
      <3>2. startedAt \in [Calls -> Nat] /\ now \in Nat
        BY DEF RunnerOK
      <3> QED BY <3>1, <3>2
    <2>1. /\ call' \in [Calls -> {"new", "joined", "working", "answered", "failed"}]
          /\ work' \in [Calls -> {"none", "pending", "ok", "failed"}]
          /\ joins' \in [Calls -> Calls \cup {NoCall}]
          /\ UNCHANGED <<step, cache, billed, file>>
      BY <1>1, <1>3 DEF StartNew, JoinFailed, startWork
    <2>2. permits' \in [Tenants -> SUBSET Allowance!Stamps]
      BY <1>1, <1>3, AllowanceTypes DEF StartNew, JoinFailed, startWork
    <2> QED BY <1>1, <2>0, <2>1, <2>2 DEF Allowance!Stamps
  <1>4. ASSUME NEW c \in Analyses, CacheHit(c) \/ Join(c) \/ JoinAnswered(c) PROVE TypeOK'
    <2>1. inFlight[cacheKey[c]] \in Calls \cup {NoCall}
      BY <1>1
    <2> QED BY <1>1, <1>4, <2>1 DEF CacheHit, Join, JoinAnswered, Allowance!Stamps
  <1>5. ASSUME NEW c \in Calls, AbortCall(c) PROVE TypeOK'
    BY <1>1, <1>5 DEF AbortCall, Allowance!Stamps
  <1>6. ASSUME NEW c \in Analyses, Finish(c) PROVE TypeOK'
    <2>1. permits' \in [Tenants -> SUBSET Allowance!Stamps]
      BY <1>1, <1>6, AllowanceTypes DEF Finish
    <2> QED BY <1>1, <1>6, <2>1 DEF Finish, Allowance!Stamps
  <1>7. ASSUME NEW c \in Analyses,
               \/ JobStarts(c) \/ PrepareFails(c) \/ Prepared(c) \/ Announced(c)
               \/ UploadRefused(c) \/ UploadLost(c) \/ Uploaded(c) \/ Generated(c)
               \/ GenerateFails(c) \/ Deleted(c)
        PROVE  TypeOK'
    <2>1. /\ UNCHANGED analysisVars /\ billed' \subseteq Calls /\ file' \subseteq Calls
          /\ step' \in [Calls -> {"none", "prepare", "announce", "upload", "generate",
                                  "delete_ok", "delete_error", "publish"}]
      BY <1>1, <1>7 DEF JobStarts, PrepareFails, Prepared, Announced, UploadRefused, UploadLost,
                        Uploaded, Generated, GenerateFails, Deleted, Ends, Goes
    <2> QED BY <1>1, <2>1 DEF analysisVars, Allowance!Stamps
  <1>8. ASSUME NEW c \in Analyses, Publish(c) PROVE TypeOK'
    BY <1>1, <1>8 DEF Publish, Allowance!Stamps
  <1>9. ASSUME NEW k \in CacheKeys, CacheDrops(k) PROVE TypeOK'
    BY <1>1, <1>9 DEF CacheDrops, Allowance!Stamps
  <1>10. ASSUME NEW c \in Calls, Runner(c) PROVE TypeOK'
    BY <1>2, <1>10 DEF Runner, analysisVars
  <1>11. ASSUME NEW c \in Deliveries, Deliver(c) PROVE TypeOK'
    BY <1>2, <1>11 DEF Deliver, analysisVars
  <1>12. CASE (Tick /\ UNCHANGED <<analysisVars, step, billed, file>>) \/ UNCHANGED vars
    BY <1>2, <1>12 DEF analysisVars, vars
  <1> QED BY <1>3, <1>4, <1>5, <1>6, <1>7, <1>8, <1>9, <1>10, <1>11, <1>12 DEF Next
-----------------------------------------------------------------------------
\* The allowance. A permit is kept by work that goes on, or that was billed.
Kept == {c \in Calls : call[c] = "working"} \cup billed

\* Where a call is says where its work may be: it holds nothing of the runner
\* before its work starts and nothing after, and it succeeds only if billed.
WorkOf(c) ==
  /\ call[c] \in {"new", "joined"} => phase[c] = "idle" /\ c \notin billed
  /\ phase[c] \notin {"idle", "settled"} => call[c] = "working"
  /\ phase[c] \in {"cleanup", "settled"} => outcome[c] # "none"
  /\ outcome[c] = "ok" => c \in billed
  /\ step[c] \notin {"none", "prepare", "announce"} => c \in billed
WorkInv == Kept \subseteq Analyses /\ \A c \in Analyses : WorkOf(c)

\* What a step of the runner may do to a call other than by starting its job or
\* by ending it.
Moves(c) ==
  /\ phase'[c] = "idle" <=> phase[c] = "idle"
  /\ phase[c] = "settled" => phase'[c] = "settled"
  /\ phase'[c] \in {"cleanup", "settled"} =>
       phase[c] \in {"cleanup", "settled"} \/ outcome'[c] = "error"
  /\ outcome'[c] \in {outcome[c], "error"}

LEMMA RunnerMoves ==
  ASSUME TypeOK, QueueInv, NEW c \in Calls, NEW d \in Calls,
         \/ Start(c) \/ StartAborted(c) \/ MadeDir(c) \/ NoDir(c) \/ CleanedUp(c)
         \/ QueueTimeout(c) \/ Abort(c) \/ DeadlineFires(c)
         \/ (c # d /\ (run(c) \/ \E result : JobEnds(c, result)))
  PROVE  Moves(d)
  <1>1. phase \in [Calls -> Phases] /\ outcome \in [Calls -> {"none", "ok", "error"}]
    BY DEF TypeOK, RunnerOK
  <1>2. CASE c # d /\ (run(c) \/ \E result : JobEnds(c, result))
    <2>1. phase'[d] = phase[d] /\ outcome'[d] = outcome[d]
      BY <1>1, <1>2 DEF run, acquire, Rejects, JobEnds
    <2> QED BY <1>1, <2>1 DEF Moves
  <1>3. CASE Start(c) \/ MadeDir(c) \/ DeadlineFires(c)
    BY <1>1, <1>3 DEF Start, MadeDir, DeadlineFires, Moves
  <1>4. CASE QueueTimeout(c) \/ Abort(c)
    <2>1. \/ UNCHANGED <<phase, outcome>>
          \/ phase[c] = "queued" /\ Rejects(c)
      BY <1>4 DEF QueueTimeout, Abort, cancel
    <2> QED BY <1>1, <2>1 DEF Rejects, Moves
  <1>5. CASE StartAborted(c) \/ NoDir(c) \/ CleanedUp(c)
    <2>1. /\ release(c) /\ phase[c] \in {"granted", "mkdtemp", "cleanup"}
          /\ \/ outcome' = [outcome EXCEPT ![c] = "error"]
             \/ phase[c] = "cleanup" /\ UNCHANGED outcome
      BY <1>5 DEF StartAborted, NoDir, CleanedUp
    <2>2. CASE phase' = [phase EXCEPT ![c] = "settled"]
      BY <1>1, <2>1, <2>2 DEF Moves
    <2>3. CASE waiters # <<>> /\ phase' = [phase EXCEPT ![c] = "settled", ![Head(waiters)] = "granted"]
      <3>1. Head(waiters) = waiters[1] /\ 1 \in DOMAIN waiters
        BY <2>3, QueueTail, EmptySeq DEF QueueInv, QueueOK
      <3>2. phase[Head(waiters)] = "queued" /\ Head(waiters) \in Calls
        BY <2>3, <3>1, QueueTail DEF QueueInv, QueueOK, NobodyWaitsInVain
      <3>3. \/ d = Head(waiters) /\ phase[d] = "queued" /\ phase'[d] = "granted"
            \/ d = c /\ phase'[d] = "settled"
            \/ d # c /\ phase'[d] = phase[d]
        BY <1>1, <2>1, <2>3, <3>2
      <3> QED BY <1>1, <2>1, <3>3 DEF Moves
    <2> QED BY <2>1, <2>2, <2>3 DEF release
  <1> QED BY <1>2, <1>3, <1>4, <1>5

\* A call stays where it is, or gives up before its work started.
LEMMA WorkStays ==
  ASSUME NEW c \in Analyses, WorkOf(c),
         Moves(c) \/ (phase'[c] = phase[c] /\ outcome'[c] = outcome[c]),
         call'[c] = call[c] \/ (call[c] \in {"new", "joined"} /\ call'[c] # "new"),
         step'[c] = step[c], c \in billed' <=> c \in billed
  PROVE  WorkOf(c)'
  BY DEF WorkOf, Moves

LEMMA NextWork == TypeOK /\ TypeOK' /\ QueueInv /\ WorkInv /\ [Next]_vars => WorkInv'
  <1> SUFFICES ASSUME TypeOK, TypeOK', QueueInv, WorkInv, [Next]_vars PROVE WorkInv'
    OBVIOUS
  <1>1. /\ Analyses \subseteq Calls /\ Deliveries \subseteq Calls /\ Analyses \cap Deliveries = {}
        /\ call \in [Calls -> {"new", "joined", "working", "answered", "failed"}]
        /\ step \in [Calls -> {"none", "prepare", "announce", "upload", "generate",
                               "delete_ok", "delete_error", "publish"}]
        /\ phase \in [Calls -> Phases] /\ outcome \in [Calls -> {"none", "ok", "error"}]
        /\ billed \subseteq Calls
    BY AnalysisAssumption DEF Analyses, TypeOK, RunnerOK
  <1>2. CASE UNCHANGED <<phase, outcome, call, step, billed>>
    BY <1>1, <1>2 DEF WorkInv, WorkOf, Kept
  <1>3. ASSUME NEW c \in Calls, AbortCall(c) \/ Runner(c) PROVE WorkInv'
    <2>1. UNCHANGED <<step, billed>>
      BY <1>3 DEF AbortCall, Runner, analysisVars
    <2>2. UNCHANGED call \/ (call[c] = "joined" /\ call' = [call EXCEPT ![c] = "failed"])
      BY <1>3 DEF AbortCall, Runner, analysisVars
    <2>3. ASSUME NEW d \in Analyses PROVE WorkOf(d)'
      <3>1. Moves(d)
        BY <1>1, <1>3, RunnerMoves DEF AbortCall, Runner
      <3> QED BY <1>1, <2>1, <2>2, <3>1, WorkStays DEF WorkInv
    <2>4. Kept' = Kept
      BY <1>1, <2>1, <2>2 DEF Kept
    <2> QED BY <2>3, <2>4 DEF WorkInv
  <1>4. ASSUME NEW c \in Deliveries, Deliver(c) PROVE WorkInv'
    <2>1. UNCHANGED <<call, step, billed>>
      BY <1>4 DEF Deliver, analysisVars
    <2>2. ASSUME NEW d \in Analyses PROVE WorkOf(d)'
      <3>1. Moves(d)
        BY <1>1, <1>4, RunnerMoves DEF Deliver
      <3> QED BY <1>1, <2>1, <3>1, WorkStays DEF WorkInv
    <2> QED BY <2>1, <2>2 DEF WorkInv, Kept
  <1>5. ASSUME NEW c \in Analyses, StartNew(c) \/ JoinFailed(c) PROVE WorkInv'
    <2>1. /\ UNCHANGED <<step, billed>> /\ call[c] \in {"new", "joined"}
          /\ \/ run(c) /\ call' = [call EXCEPT ![c] = "working"]
             \/ UNCHANGED <<phase, outcome>> /\ call' = [call EXCEPT ![c] = "failed"]
      BY <1>5 DEF StartNew, JoinFailed, startWork, runnerVars
    <2>2. CASE run(c) /\ call' = [call EXCEPT ![c] = "working"]
      <3>1. ASSUME NEW d \in Analyses \ {c} PROVE WorkOf(d)'
        <4>1. Moves(d)
          BY <1>1, <2>2, <3>1, RunnerMoves
        <4> QED BY <1>1, <2>1, <2>2, <4>1, WorkStays DEF WorkInv
      <3>2. \/ phase'[c] \in {"granted", "queued"} /\ outcome'[c] = outcome[c]
            \/ phase'[c] = "settled" /\ outcome'[c] = "error"
        BY <1>1, <2>2 DEF run, acquire, Rejects
      <3>3. WorkOf(c)'
        BY <1>1, <2>1, <2>2, <3>2 DEF WorkInv, WorkOf
      <3>4. Kept' = Kept \cup {c}
        BY <1>1, <2>1, <2>2 DEF Kept
      <3> QED BY <3>1, <3>3, <3>4 DEF WorkInv
    <2>3. CASE UNCHANGED <<phase, outcome>> /\ call' = [call EXCEPT ![c] = "failed"]
      <3>1. ASSUME NEW d \in Analyses PROVE WorkOf(d)'
        BY <1>1, <2>1, <2>3, WorkStays DEF WorkInv
      <3>2. Kept' = Kept
        BY <1>1, <2>1, <2>3 DEF Kept
      <3> QED BY <3>1, <3>2 DEF WorkInv
    <2> QED BY <2>1, <2>2, <2>3
  <1>6. ASSUME NEW c \in Analyses, CacheHit(c) \/ Join(c) \/ JoinAnswered(c) PROVE WorkInv'
    <2>1. /\ UNCHANGED <<phase, outcome, step, billed>> /\ call[c] \in {"new", "joined"}
          /\ \/ call[c] = "new" /\ call' = [call EXCEPT ![c] = "joined"]
             \/ call' = [call EXCEPT ![c] = "answered"] \/ call' = [call EXCEPT ![c] = "failed"]
      BY <1>6 DEF CacheHit, Join, JoinAnswered, runnerVars
    <2>2. ASSUME NEW d \in Analyses PROVE WorkOf(d)'
      BY <1>1, <2>1, WorkStays DEF WorkInv
    <2>3. Kept' = Kept
      BY <1>1, <2>1 DEF Kept
    <2> QED BY <2>2, <2>3 DEF WorkInv
  \* Steps inside the job: it goes on, or ends.
  <1>7. ASSUME NEW c \in Analyses, NEW s, phase[c] = "job", Goes(c, s),
               UNCHANGED call,
               \/ billed' = billed /\ s \in {"none", "prepare", "announce"}
               \/ billed' = billed \cup {c}
        PROVE  WorkInv'
    <2>1. UNCHANGED <<phase, outcome>> /\ step' = [step EXCEPT ![c] = s]
      BY <1>7 DEF Goes, runnerVars
    <2>2. ASSUME NEW d \in Analyses \ {c} PROVE WorkOf(d)'
      BY <1>1, <1>7, <2>1, WorkStays DEF WorkInv
    <2>3. WorkOf(c)'
      BY <1>1, <1>7, <2>1 DEF WorkInv, WorkOf
    <2>4. Kept' = Kept
      BY <1>1, <1>7 DEF Kept, WorkInv, WorkOf
    <2> QED BY <2>2, <2>3, <2>4 DEF WorkInv
  <1>8. ASSUME NEW c \in Analyses, NEW result \in {"ok", "error"}, Ends(c, result), UNCHANGED <<call, billed>>,
               result = "ok" => c \in billed
        PROVE  WorkInv'
    <2>1. /\ phase[c] = "job" /\ phase' = [phase EXCEPT ![c] = "cleanup"]
          /\ outcome' = [outcome EXCEPT ![c] = result] /\ step' = [step EXCEPT ![c] = "none"]
      BY <1>8 DEF Ends, JobEnds
    <2>2. ASSUME NEW d \in Analyses \ {c} PROVE WorkOf(d)'
      BY <1>1, <1>8, <2>1, WorkStays DEF WorkInv
    <2>3. WorkOf(c)'
      BY <1>1, <1>8, <2>1 DEF WorkInv, WorkOf
    <2> QED BY <1>8, <2>2, <2>3 DEF WorkInv, Kept
  <1>9. ASSUME NEW c \in Analyses, JobStarts(c) PROVE WorkInv'
    <2>1. /\ UNCHANGED <<call, billed>> /\ MadeDir(c) /\ step' = [step EXCEPT ![c] = "prepare"]
      BY <1>9 DEF JobStarts, analysisVars
    <2>2. ASSUME NEW d \in Analyses PROVE WorkOf(d)'
      <3>1. Moves(d) /\ WorkOf(d)
        BY <1>1, <2>1, RunnerMoves DEF WorkInv
      <3>2. step'[d] = step[d] \/ step'[d] = "prepare"
        BY <1>1, <2>1
      <3>3. call'[d] = call[d] /\ (d \in billed' <=> d \in billed)
        BY <2>1
      <3> QED BY <3>1, <3>2, <3>3 DEF WorkOf, Moves
    <2> QED BY <2>1, <2>2 DEF WorkInv, Kept
  <1>10. ASSUME NEW c \in Analyses, Prepared(c) \/ Announced(c) \/ UploadLost(c) \/ Uploaded(c)
         PROVE  WorkInv'
    <2>1. UNCHANGED call /\ phase[c] = "job"
      BY <1>10 DEF Prepared, Announced, UploadLost, Uploaded, At, analysisVars
    <2>2. step[c] = "upload" => billed = billed \cup {c}
      BY <1>1 DEF WorkInv, WorkOf
    <2>3. \E s : /\ Goes(c, s)
                 /\ \/ billed' = billed /\ s \in {"none", "prepare", "announce"}
                    \/ billed' = billed \cup {c}
      BY <1>10, <2>2 DEF Prepared, Announced, UploadLost, Uploaded, At
    <2> QED BY <1>7, <2>1, <2>3
  <1>11. ASSUME NEW c \in Analyses,
                \/ PrepareFails(c) \/ UploadRefused(c) \/ Generated(c) \/ GenerateFails(c) \/ Deleted(c)
         PROVE  WorkInv'
    <2>1. /\ UNCHANGED <<call, billed>> /\ phase[c] = "job"
          /\ \/ Ends(c, "error")
             \/ step[c] \in {"generate", "delete_ok"} /\ Ends(c, "ok")
             \/ step[c] = "generate" /\ (Goes(c, "delete_ok") \/ Goes(c, "delete_error"))
      BY <1>11 DEF PrepareFails, UploadRefused, Generated, GenerateFails, Deleted, At, analysisVars
    <2>2. step[c] \in {"generate", "delete_ok"} => c \in billed /\ billed = billed \cup {c}
      BY <1>1 DEF WorkInv, WorkOf
    <2>3. CASE Ends(c, "error")
      BY <1>8, <2>1, <2>3
    <2>4. CASE step[c] \in {"generate", "delete_ok"} /\ Ends(c, "ok")
      BY <1>8, <2>1, <2>2, <2>4
    <2>5. CASE step[c] = "generate" /\ (Goes(c, "delete_ok") \/ Goes(c, "delete_error"))
      BY <1>7, <2>1, <2>2, <2>5
    <2> QED BY <2>1, <2>3, <2>4, <2>5
  <1>12. ASSUME NEW c \in Analyses, Publish(c) PROVE WorkInv'
    <2>1. /\ UNCHANGED <<phase, outcome, call, billed>> /\ outcome[c] = "ok"
          /\ step' = [step EXCEPT ![c] = "publish"]
      BY <1>12 DEF Publish, runnerVars
    <2> QED BY <1>1, <2>1 DEF WorkInv, WorkOf, Kept
  <1>13. ASSUME NEW c \in Analyses, Finish(c) PROVE WorkInv'
    <2>1. /\ UNCHANGED <<phase, outcome, step, billed>> /\ phase[c] = "settled"
          /\ \E p \in {"answered", "failed"} : call' = [call EXCEPT ![c] = p]
      BY <1>13 DEF Finish, runnerVars
    <2> QED BY <1>1, <2>1 DEF WorkInv, WorkOf, Kept
  <1>14. ASSUME NEW k \in CacheKeys, CacheDrops(k) PROVE WorkInv'
    BY <1>2, <1>14 DEF CacheDrops, runnerVars
  <1>15. CASE (Tick /\ UNCHANGED <<analysisVars, step, billed, file>>) \/ UNCHANGED vars
    BY <1>2, <1>15 DEF Tick, analysisVars, vars, runnerVars
  <1> QED BY <1>3, <1>4, <1>5, <1>6, <1>9, <1>10, <1>11, <1>12, <1>13, <1>14, <1>15 DEF Next
-----------------------------------------------------------------------------
\* A permit is the stamp of work that is kept, in its tenant's window at the
\* time the work started; kept work has its permit until the hour is over. So
\* the works kept that started within an hour were all in the window when the
\* last of them got its permit.
Granted(t, from) ==
  {c \in Kept : tenant[c] = t /\ startedAt[c] \in from..(from + Hour - 1)}
GrantInv ==
  /\ \A t \in Tenants : \A s \in permits[t] :
       s.by \in Kept /\ tenant[s.by] = t /\ s.at = startedAt[s.by]
  /\ \A c \in Kept :
       /\ startedAt[c] <= now
       /\ now - startedAt[c] < Hour => [by |-> c, at |-> startedAt[c]] \in permits[tenant[c]]
  /\ \A t \in Tenants : \A from \in Nat : Cardinality(Granted(t, from)) <= AnalysesPerHour

\* The instance counts with the one operator there is.
LEMMA OneCardinality == \A S : Allowance!Cardinality(S) = Cardinality(S)
  BY DEF Allowance!Cardinality, Cardinality

LEMMA GrantTyped ==
  ASSUME TypeOK
  PROVE  /\ IsFiniteSet(Calls) /\ tenant \in [Calls -> Tenants] /\ Kept \subseteq Calls
         /\ permits \in [Tenants -> SUBSET Allowance!Stamps] /\ startedAt \in [Calls -> Nat]
         /\ now \in Nat /\ Hour \in Nat \ {0} /\ AnalysesPerHour \in Nat
         /\ \A t, from : IsFiniteSet(Granted(t, from)) /\ Cardinality(Granted(t, from)) \in Nat
  <1>1. /\ IsFiniteSet(Calls) /\ Kept \subseteq Calls
        /\ \A t, from : Granted(t, from) \in SUBSET Calls
    BY RunnerAssumption DEF TypeOK, Kept, Granted
  <1>2. \A t, from : IsFiniteSet(Granted(t, from)) /\ Cardinality(Granted(t, from)) \in Nat
    BY <1>1, FS_Subset, FS_CardinalityType
  <1> QED BY <1>1, <1>2, RunnerAssumption, AnalysisAssumption DEF TypeOK, RunnerOK

\* Fewer works are counted: fewer are.
LEMMA FewerGranted ==
  ASSUME TypeOK, GrantInv, NEW t \in Tenants, NEW from \in Nat, NEW S \in SUBSET Granted(t, from)
  PROVE  Cardinality(S) <= AnalysesPerHour
  <1>1. IsFiniteSet(Granted(t, from)) /\ Cardinality(Granted(t, from)) \in Nat
    BY GrantTyped
  <1>2. IsFiniteSet(S) /\ Cardinality(S) <= Cardinality(Granted(t, from))
    BY <1>1, FS_Subset
  <1>3. Cardinality(S) \in Nat /\ Cardinality(Granted(t, from)) <= AnalysesPerHour
    BY <1>2, FS_CardinalityType DEF GrantInv
  <1> QED BY <1>1, <1>2, <1>3, AnalysisAssumption

\* The window of a tenant holds one stamp of a call at most.
LEMMA WindowFinite ==
  ASSUME TypeOK, GrantInv, NEW t \in Tenants
  PROVE  IsFiniteSet(permits[t])
  <1> DEFINE who == [s \in permits[t] |-> s.by]
  <1>1. permits[t] \subseteq Allowance!Stamps /\ IsFiniteSet(Calls)
    BY GrantTyped
  <1>2. \A s \in permits[t] : s = [by |-> s.by, at |-> startedAt[s.by]] /\ s.by \in Calls
    BY <1>1 DEF GrantInv, Allowance!Stamps
  <1>3. who \in Injection(permits[t], Calls)
    BY <1>2 DEF Injection, IsInjective
  <1> QED BY <1>1, <1>3, FS_Injection

\* Permits leave only with the hour, and nobody gets one.
LEMMA GrantKeeps ==
  ASSUME TypeOK, TypeOK', GrantInv, Kept' = Kept, UNCHANGED startedAt, now' >= now,
         \A t \in Tenants : permits'[t] \subseteq permits[t],
         \A t \in Tenants : \A s \in permits[t] : now - s.at < Hour => s \in permits'[t]
  PROVE  GrantInv'
  <1>1. \A t \in Tenants : \A s \in permits'[t] :
          s.by \in Kept' /\ tenant[s.by] = t /\ s.at = startedAt'[s.by]
    BY DEF GrantInv
  <1>2. ASSUME NEW c \in Kept'
        PROVE  /\ startedAt'[c] <= now'
               /\ now' - startedAt'[c] < Hour =>
                    [by |-> c, at |-> startedAt'[c]] \in permits'[tenant[c]]
    <2>1. /\ startedAt[c] \in Nat /\ now \in Nat /\ now' \in Nat /\ Hour \in Nat
          /\ tenant[c] \in Tenants
      BY GrantTyped, TypeOK' DEF TypeOK, RunnerOK
    <2>2. startedAt[c] <= now /\ (now - startedAt[c] < Hour =>
                                    [by |-> c, at |-> startedAt[c]] \in permits[tenant[c]])
      BY DEF GrantInv
    <2>3. now - startedAt[c] < Hour => [by |-> c, at |-> startedAt[c]] \in permits'[tenant[c]]
      BY <2>1, <2>2
    <2> QED BY <2>1, <2>2, <2>3
  <1>3. \A t, from : Granted(t, from)' = Granted(t, from)
    BY DEF Granted
  <1> QED BY <1>1, <1>2, <1>3 DEF GrantInv

LEMMA PurgeKeeps ==
  ASSUME TypeOK, GrantInv, NEW t \in Tenants
  PROVE  /\ Allowance!purge[t] \subseteq permits[t]
         /\ \A s \in permits[t] : now - s.at < Hour => s \in Allowance!purge[t]
         /\ IsFiniteSet(Allowance!purge[t])
  <1>1. Allowance!purge[t] = {s \in permits[t] : now - s.at < Hour}
    BY DEF Allowance!purge
  <1> QED BY <1>1, WindowFinite, FS_Subset

\* The works kept that started less than an hour ago have their permits still.
LEMMA GrantedHavePermits ==
  ASSUME TypeOK, GrantInv, NEW t \in Tenants, NEW from \in Nat, now \in from..(from + Hour - 1)
  PROVE  Cardinality(Granted(t, from)) <= Cardinality(Allowance!purge[t])
  <1> DEFINE stamp == [c \in Granted(t, from) |-> [by |-> c, at |-> startedAt[c]]]
  <1>1. ASSUME NEW c \in Granted(t, from) PROVE [by |-> c, at |-> startedAt[c]] \in Allowance!purge[t]
    <2>1. now - startedAt[c] < Hour /\ c \in Kept /\ tenant[c] = t
      BY GrantTyped DEF Granted
    <2>2. [by |-> c, at |-> startedAt[c]] \in permits[t]
      BY <2>1 DEF GrantInv
    <2> QED BY <2>1, <2>2, PurgeKeeps
  <1>2. stamp \in Injection(Granted(t, from), Allowance!purge[t])
    BY <1>1 DEF Injection, IsInjective
  <1> QED BY <1>2, PurgeKeeps, FS_Injection

\* Work gets a permit: what started in the hour before it has one, and they
\* were fewer than the allowance.
LEMMA GrantTaken ==
  ASSUME TypeOK, GrantInv, NEW c \in Calls \ Kept, Kept' = Kept \cup {c}, UNCHANGED now,
         Allowance!MayAcquire(tenant[c]), Allowance!acquire(c, tenant[c]),
         startedAt' = [startedAt EXCEPT ![c] = now]
  PROVE  GrantInv'
  <1> DEFINE new == [by |-> c, at |-> now]
  <1>1. /\ tenant[c] \in Tenants /\ now \in Nat /\ Hour \in Nat \ {0} /\ startedAt'[c] = now
        /\ \A d \in Kept : d # c /\ d \in Calls /\ startedAt'[d] = startedAt[d] /\ startedAt[d] \in Nat
        /\ \A d \in Calls : tenant[d] \in Tenants
    BY GrantTyped
  <1>2. permits' = [Allowance!purge EXCEPT ![tenant[c]] = @ \cup {new}]
    BY DEF Allowance!acquire
  <1>3. /\ \A t \in Tenants : permits'[t] = IF t = tenant[c] THEN Allowance!purge[t] \cup {new}
                                                            ELSE Allowance!purge[t]
    BY <1>1, <1>2 DEF Allowance!purge
  <1>4. ASSUME NEW t \in Tenants, NEW s \in permits'[t]
        PROVE  s.by \in Kept' /\ tenant[s.by] = t /\ s.at = startedAt'[s.by]
    <2>1. CASE s \in Allowance!purge[t]
      <3>1. s \in permits[t]
        BY <2>1, PurgeKeeps
      <3>2. s.by \in Kept /\ tenant[s.by] = t /\ s.at = startedAt[s.by]
        BY <3>1 DEF GrantInv
      <3> QED BY <1>1, <3>2
    <2>2. CASE t = tenant[c] /\ s = new
      <3>1. s.by = c /\ s.at = now
        BY <2>2
      <3> QED BY <1>1, <2>2, <3>1
    <2>3. s \in Allowance!purge[t] \/ (t = tenant[c] /\ s = new)
      BY <1>3, <1>4
    <2> QED BY <2>1, <2>2, <2>3
  <1>5. ASSUME NEW d \in Kept'
        PROVE  /\ startedAt'[d] <= now
               /\ now - startedAt'[d] < Hour =>
                    [by |-> d, at |-> startedAt'[d]] \in permits'[tenant[d]]
    <2>1. CASE d = c
      <3>1. new \in permits'[tenant[c]]
        BY <1>1, <1>3
      <3> QED BY <1>1, <2>1, <3>1
    <2>2. CASE d \in Kept
      <3>1. /\ startedAt[d] <= now
            /\ now - startedAt[d] < Hour => [by |-> d, at |-> startedAt[d]] \in permits[tenant[d]]
        BY <2>2 DEF GrantInv
      <3>2. now - startedAt[d] < Hour => [by |-> d, at |-> startedAt[d]] \in Allowance!purge[tenant[d]]
        BY <1>1, <2>2, <3>1, PurgeKeeps
      <3> QED BY <1>1, <1>3, <2>2, <3>1, <3>2
    <2> QED BY <2>1, <2>2
  <1>6. ASSUME NEW t \in Tenants, NEW from \in Nat
        PROVE  Cardinality(Granted(t, from)') <= AnalysesPerHour
    <2>1. CASE t = tenant[c] /\ now \in from..(from + Hour - 1)
      <3>1. Granted(t, from)' = Granted(t, from) \cup {c}
        BY <1>1, <2>1 DEF Granted
      <3>2. Cardinality(Granted(t, from)) < AnalysesPerHour
        <4>1. /\ Cardinality(Allowance!purge[t]) < AnalysesPerHour
              /\ Cardinality(Allowance!purge[t]) \in Nat
          BY <2>1, OneCardinality, PurgeKeeps, FS_CardinalityType DEF Allowance!MayAcquire
        <4>2. Cardinality(Granted(t, from)) <= Cardinality(Allowance!purge[t])
          BY <2>1, GrantedHavePermits
        <4> QED BY <4>1, <4>2, GrantTyped
      <3>3. /\ IsFiniteSet(Granted(t, from)) /\ Cardinality(Granted(t, from)) \in Nat
            /\ AnalysesPerHour \in Nat /\ c \notin Granted(t, from)
        BY GrantTyped DEF Granted
      <3>4. Cardinality(Granted(t, from) \cup {c}) = Cardinality(Granted(t, from)) + 1
        BY <3>3, FS_AddElement
      <3> QED BY <3>1, <3>2, <3>3, <3>4
    <2>2. CASE ~(t = tenant[c] /\ now \in from..(from + Hour - 1))
      <3>1. Granted(t, from)' = Granted(t, from)
        BY <1>1, <2>2 DEF Granted
      <3> QED BY <3>1 DEF GrantInv
    <2> QED BY <2>1, <2>2
  <1> QED BY <1>4, <1>5, <1>6 DEF GrantInv

\* Work that failed for free gives back its own permit.
LEMMA GrantGivenBack ==
  ASSUME TypeOK, GrantInv, NEW c \in Calls, Kept' = Kept \ {c}, UNCHANGED now,
         Allowance!refund(c, tenant[c]), startedAt' = [startedAt EXCEPT ![c] = 0]
  PROVE  GrantInv'
  <1>1. /\ \A d \in Kept' : d # c /\ d \in Kept /\ tenant[d] \in Tenants /\ startedAt'[d] = startedAt[d]
        /\ tenant[c] \in Tenants
    BY GrantTyped
  <1>2. \A t \in Tenants :
          permits'[t] = IF t = tenant[c] THEN {s \in permits[t] : s.by # c} ELSE permits[t]
    BY GrantTyped DEF Allowance!refund
  <1>3. ASSUME NEW t \in Tenants, NEW s \in permits'[t]
        PROVE  s.by \in Kept' /\ tenant[s.by] = t /\ s.at = startedAt'[s.by]
    <2>1. s \in permits[t] /\ s.by \in Kept /\ tenant[s.by] = t /\ s.at = startedAt[s.by]
      BY <1>2, <1>3 DEF GrantInv
    <2>2. s.by # c
      BY <1>2, <1>3, <2>1
    <2> QED BY <1>1, <2>1, <2>2
  <1>4. \A d \in Kept' :
          /\ startedAt'[d] <= now
          /\ now - startedAt'[d] < Hour => [by |-> d, at |-> startedAt'[d]] \in permits'[tenant[d]]
    BY <1>1, <1>2 DEF GrantInv
  <1>5. ASSUME NEW t \in Tenants, NEW from \in Nat
        PROVE  Cardinality(Granted(t, from)') <= AnalysesPerHour
    <2>1. Granted(t, from)' \in SUBSET Granted(t, from)
      BY <1>1 DEF Granted
    <2> QED BY <2>1, FewerGranted
  <1> QED BY <1>3, <1>4, <1>5 DEF GrantInv

LEMMA NextGrant ==
  TypeOK /\ TypeOK' /\ WorkInv /\ GrantInv /\ [Next]_vars => GrantInv'
  <1> SUFFICES ASSUME TypeOK, TypeOK', WorkInv, GrantInv, [Next]_vars PROVE GrantInv'
    OBVIOUS
  <1>1. /\ Analyses \subseteq Calls /\ Deliveries \subseteq Calls /\ now \in Nat
        /\ call \in [Calls -> {"new", "joined", "working", "answered", "failed"}]
        /\ outcome \in [Calls -> {"none", "ok", "error"}]
    BY AnalysisAssumption DEF Analyses, TypeOK, RunnerOK
  <1>2. CASE Kept' = Kept /\ UNCHANGED <<permits, startedAt>> /\ now' \in {now, now + 1}
    BY <1>1, <1>2, GrantKeeps
  <1>3. ASSUME NEW c \in Analyses, StartNew(c) \/ JoinFailed(c) PROVE GrantInv'
    <2>1. startWork(c) /\ c \notin Kept /\ UNCHANGED billed
      BY <1>1, <1>3 DEF StartNew, JoinFailed, startWork, WorkInv, WorkOf, Kept
    <2>2. CASE /\ Allowance!MayAcquire(tenant[c]) /\ run(c)
               /\ call' = [call EXCEPT ![c] = "working"]
               /\ startedAt' = [startedAt EXCEPT ![c] = now]
      <3>1. Kept' = Kept \cup {c} /\ UNCHANGED now
        BY <1>1, <2>1, <2>2 DEF Kept, run
      <3> QED BY <1>1, <2>1, <2>2, <3>1, GrantTaken DEF startWork
    <2>3. CASE /\ ~Allowance!MayAcquire(tenant[c])
               /\ call' = [call EXCEPT ![c] = "failed"] /\ UNCHANGED <<now, startedAt>>
      <3>1. Kept' = Kept
        BY <1>1, <2>1, <2>3 DEF Kept
      <3>2. permits' = Allowance!purge
        BY <2>1, <2>3 DEF startWork, Allowance!acquire
      <3> QED BY <1>1, <2>3, <3>1, <3>2, PurgeKeeps, GrantKeeps
    <2> QED BY <2>1, <2>2, <2>3 DEF startWork
  <1>4. ASSUME NEW c \in Analyses, Finish(c) PROVE GrantInv'
    <2>1. /\ phase[c] = "settled" /\ UNCHANGED <<now, billed>>
          /\ \E p \in {"answered", "failed"} : call' = [call EXCEPT ![c] = p]
      BY <1>4 DEF Finish
    <2>2. CASE GivesBack(c)
      <3>1. Kept' = Kept \ {c}
        BY <1>1, <2>1, <2>2 DEF Kept, GivesBack
      <3> QED BY <1>1, <1>4, <2>1, <2>2, <3>1, GrantGivenBack DEF Finish
    <2>3. CASE ~GivesBack(c)
      <3>1. c \in billed
        BY <1>1, <2>1, <2>3 DEF GivesBack, WorkInv, WorkOf
      <3>2. Kept' = Kept
        BY <1>1, <2>1, <3>1 DEF Kept
      <3> QED BY <1>2, <1>4, <2>1, <2>3, <3>2 DEF Finish
    <2> QED BY <2>2, <2>3
  <1>5. ASSUME NEW c \in Analyses, Announced(c) PROVE GrantInv'
    <2>1. /\ UNCHANGED <<now, call, permits, startedAt>> /\ billed' = billed \cup {c} /\ call[c] = "working"
      BY <1>5 DEF Announced, At, Goes, analysisVars, WorkInv, WorkOf
    <2>2. Kept' = Kept
      BY <1>1, <2>1 DEF Kept
    <2> QED BY <1>2, <2>1, <2>2
  <1>6. ASSUME NEW c \in Analyses,
               \/ JobStarts(c) \/ PrepareFails(c) \/ Prepared(c) \/ UploadRefused(c)
               \/ UploadLost(c) \/ Uploaded(c) \/ Generated(c) \/ GenerateFails(c) \/ Deleted(c)
        PROVE  GrantInv'
    <2>1. UNCHANGED <<now, call, billed, permits, startedAt>>
      BY <1>6 DEF JobStarts, MadeDir, PrepareFails, Prepared, UploadRefused, UploadLost,
                  Uploaded, Generated, GenerateFails, Deleted, Ends, JobEnds, Goes, analysisVars
    <2> QED BY <1>2, <2>1 DEF Kept
  <1>7. ASSUME NEW c \in Analyses, CacheHit(c) \/ Join(c) \/ JoinAnswered(c) PROVE GrantInv'
    <2>1. /\ UNCHANGED <<now, billed, permits, startedAt>> /\ call[c] # "working"
          /\ \E p \in {"joined", "answered", "failed"} : call' = [call EXCEPT ![c] = p]
      BY <1>7 DEF CacheHit, Join, JoinAnswered
    <2>2. Kept' = Kept
      BY <1>1, <2>1 DEF Kept
    <2> QED BY <1>2, <2>1, <2>2
  <1>8. ASSUME NEW c \in Calls, AbortCall(c) PROVE GrantInv'
    <2>1. /\ UNCHANGED <<now, billed, permits, startedAt>>
          /\ UNCHANGED call \/ (call[c] = "joined" /\ call' = [call EXCEPT ![c] = "failed"])
      BY <1>8 DEF AbortCall, Abort
    <2>2. Kept' = Kept
      BY <1>1, <2>1 DEF Kept
    <2> QED BY <1>2, <2>1, <2>2
  <1>9. ASSUME NEW c \in Calls, Runner(c) \/ Deliver(c) \/ Publish(c) PROVE GrantInv'
    <2>1. UNCHANGED <<now, call, billed, permits, startedAt>>
      BY <1>9 DEF Runner, Deliver, Publish, Start, StartAborted, NoDir, CleanedUp, QueueTimeout,
                  DeadlineFires, run, MadeDir, JobEnds, analysisVars
    <2> QED BY <1>2, <2>1 DEF Kept
  <1>10. ASSUME NEW k \in CacheKeys, CacheDrops(k) PROVE GrantInv'
    BY <1>2, <1>10 DEF CacheDrops, Kept
  <1>11. CASE Tick /\ UNCHANGED <<analysisVars, step, billed, file>>
    BY <1>2, <1>11 DEF Tick, analysisVars, Kept
  <1>12. CASE UNCHANGED vars
    BY <1>2, <1>12 DEF vars, Kept
  <1> QED BY <1>1, <1>3, <1>4, <1>5, <1>6, <1>7, <1>8, <1>9, <1>10, <1>11, <1>12 DEF Next

AnalysisInv == TypeOK /\ QueueInv /\ FlightInv /\ WorkInv /\ GrantInv

LEMMA AnalysisInvariance == Spec => []AnalysisInv
  <1>1. Init => AnalysisInv
    <2> SUFFICES ASSUME Init PROVE AnalysisInv
      OBVIOUS
    <2>1. Kept = {}
      BY DEF Init, Kept
    <2>2. TypeOK
      BY RunnerAssumption, EmptySeq DEF Init, InitRunner, TypeOK, RunnerOK, Phases
    <2>3. QueueInv /\ FlightInv
      BY InitQueue, InitFlight DEF Init
    <2>4. WorkInv
      BY <2>1, AnalysisAssumption DEF Init, InitRunner, WorkInv, WorkOf, Analyses
    <2>5. \A t, from : Granted(t, from) = {}
      BY <2>1 DEF Granted
    <2>6. GrantInv
      <3>1. \A t \in Tenants : permits[t] = {}
        BY DEF Init
      <3>2. \A t, from : Cardinality(Granted(t, from)) <= AnalysesPerHour
        BY <2>5, FS_EmptySet, AnalysisAssumption
      <3> QED BY <2>1, <3>1, <3>2 DEF GrantInv
    <2> QED BY <2>2, <2>3, <2>4, <2>6 DEF AnalysisInv
  <1>2. AnalysisInv /\ [Next]_vars => AnalysisInv'
    BY NextAnalysisTypes, StepOfRunner, NextQueue, NextFlight, NextWork, NextGrant DEF AnalysisInv
  <1> QED BY <1>1, <1>2, PTL DEF Spec

\* Every variable of the analyses and of the runner keeps its type.
THEOREM AnalysisTypes == Spec => []TypeOK
  <1>1. AnalysisInv => TypeOK
    BY DEF AnalysisInv
  <1> QED BY AnalysisInvariance, <1>1, PTL

\* In any hour a tenant's billed works are within its allowance: no refund
\* gives back the permit of another work, or one that may have cost something
\* (limiter, billed and permit.refund in gemini/video-analysis.ts).
THEOREM BillsStayWithinAllowance == Spec => []BilledWithinAllowance
  <1>1. AnalysisInv => BilledWithinAllowance
    <2> SUFFICES ASSUME AnalysisInv, NEW t \in Tenants, NEW from \in 0..now
                 PROVE  Cardinality({c \in billed : tenant[c] = t /\ startedAt[c] \in from..(from + Hour - 1)})
                          <= AnalysesPerHour
      BY DEF BilledWithinAllowance
    <2>1. TypeOK /\ GrantInv /\ from \in Nat
      BY GrantTyped DEF AnalysisInv
    <2>2. {c \in billed : tenant[c] = t /\ startedAt[c] \in from..(from + Hour - 1)}
            \in SUBSET Granted(t, from)
      BY DEF Granted, Kept
    <2> QED BY <2>1, <2>2, FewerGranted
  <1> QED BY AnalysisInvariance, <1>1, PTL

\* A permit in the window is that of work that was billed or goes on: work that
\* fails for free, at whatever point, has given its own back.
THEOREM NoPermitIsLost == Spec => []AllowanceNotLost
  <1>1. AnalysisInv => AllowanceNotLost
    BY DEF AnalysisInv, GrantInv, Kept, AllowanceNotLost
  <1> QED BY AnalysisInvariance, <1>1, PTL
=============================================================================
