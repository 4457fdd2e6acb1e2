----------------------- MODULE CompletionQueue_proofs -----------------------
(***************************************************************************)
(* What the completion queue promises, proved for any number of sessions,  *)
(* processes, delegations and terminal events.                             *)
(*                                                                         *)
(* An item is before a thread in one of four kinds of places: the queue,   *)
(* the hand of a poller, what a stopping poller keeps for others, and what *)
(* is left of the drain of a turn.  A flow lemma says of each operation    *)
(* which items leave these places, a place lemma that none comes to be in  *)
(* two of them, or in one of them twice.  From these follow that what is   *)
(* told was before exactly one thread and is before none afterwards (so it *)
(* is told once), and that what leaves is told, read or drained.  The book *)
(* of the batches ties a batch to the durable cursor: it starts at or      *)
(* below the cursor, and what a poller will acknowledge was told.  The     *)
(* book of the retired delegations says that each is on the list of        *)
(* tombstones for as long as it can come to a poller.                      *)
(***************************************************************************)
EXTENDS CompletionQueue, FiniteSetTheorems, TLAPS

-----------------------------------------------------------------------------
(* Sequences.                                                              *)

\* The sequence s holds e once, or not at all.
Single(s, e) == \A i, j \in DOMAIN s : s[i] = e /\ s[j] = e => i = j

LEMMA NothingHeld ==
  /\ \A T : <<>> \in Seq(T)
  /\ ToSet(<<>>) = {} /\ \A e : Single(<<>>, e)
BY DEF ToSet, Single

LEMMA HeldIsTyped ==
  ASSUME NEW T, NEW s \in Seq(T)
  PROVE  ToSet(s) \subseteq T /\ (s = <<>> <=> ToSet(s) = {})
<1>1. ToSet(s) \subseteq T BY DEF ToSet
<1>2. s = <<>> => ToSet(s) = {} BY NothingHeld
<1>3. ASSUME s # <<>> PROVE ToSet(s) # {}
  <2>1. 1 \in DOMAIN s BY <1>3
  <2> QED BY <2>1 DEF ToSet
<1> QED BY <1>1, <1>2, <1>3

LEMMA AppendHolds ==
  ASSUME NEW T, NEW s \in Seq(T), NEW x \in T
  PROVE  /\ Append(s, x) \in Seq(T)
         /\ ToSet(Append(s, x)) = ToSet(s) \cup {x}
         /\ \A e : Single(s, e) /\ (x = e => e \notin ToSet(s)) => Single(Append(s, x), e)
<1> DEFINE a == Append(s, x)
           n == Len(s) + 1
<1>1. /\ a \in Seq(T) /\ DOMAIN a = 1..n /\ a[n] = x /\ Len(s) \in Nat
      /\ DOMAIN s = 1 .. Len(s) /\ \A i \in DOMAIN s : a[i] = s[i]
  OBVIOUS
<1> HIDE DEF a
<1>2. DOMAIN a = DOMAIN s \cup {n} /\ n \notin DOMAIN s BY <1>1
<1> HIDE DEF n
<1>3. ToSet(a) = ToSet(s) \cup {x}
  <2>1. ToSet(a) \subseteq ToSet(s) \cup {x} BY <1>1, <1>2 DEF ToSet
  <2>2. ToSet(s) \subseteq ToSet(a) BY <1>1, <1>2 DEF ToSet
  <2>3. x \in ToSet(a) BY <1>1, <1>2 DEF ToSet
  <2> QED BY <2>1, <2>2, <2>3
<1>4. ASSUME NEW e, Single(s, e), x = e => e \notin ToSet(s) PROVE Single(a, e)
  BY <1>1, <1>2, <1>4 DEF Single, ToSet
<1> QED BY <1>1, <1>3, <1>4 DEF a

LEMMA TailHolds ==
  ASSUME NEW T, NEW s \in Seq(T), s # <<>>
  PROVE  /\ Head(s) \in T /\ Tail(s) \in Seq(T)
         /\ ToSet(s) = {Head(s)} \cup ToSet(Tail(s))
         /\ \A e : Single(s, e) => Single(Tail(s), e) /\ (Head(s) = e => e \notin ToSet(Tail(s)))
<1> DEFINE r == Tail(s)
<1>1. /\ r \in Seq(T) /\ Len(s) \in Nat /\ DOMAIN s = 1 .. Len(s) /\ Len(s) >= 1
      /\ DOMAIN r = 1 .. (Len(s) - 1) /\ Head(s) = s[1] /\ Head(s) \in T
      /\ \A i \in DOMAIN r : r[i] = s[i + 1]
  OBVIOUS
<1> HIDE DEF r
<1>2. /\ \A i \in DOMAIN r : i + 1 \in DOMAIN s /\ i + 1 # 1
      /\ \A i \in DOMAIN s : i = 1 \/ \E j \in DOMAIN r : j + 1 = i
      /\ \A i, j \in DOMAIN r : i + 1 = j + 1 => i = j
      /\ 1 \in DOMAIN s
  <2>1. \A i \in DOMAIN s : i # 1 => i - 1 \in DOMAIN r /\ (i - 1) + 1 = i BY <1>1
  <2> QED BY <1>1, <2>1
<1>3. ToSet(s) = {Head(s)} \cup ToSet(r)
  <2>1. ToSet(s) \subseteq {Head(s)} \cup ToSet(r) BY <1>1, <1>2 DEF ToSet
  <2>2. {Head(s)} \cup ToSet(r) \subseteq ToSet(s) BY <1>1, <1>2 DEF ToSet
  <2> QED BY <2>1, <2>2
<1>4. ASSUME NEW e, Single(s, e) PROVE Single(r, e) /\ (Head(s) = e => e \notin ToSet(r))
  <2>1. ASSUME NEW i \in DOMAIN r, NEW j \in DOMAIN r, r[i] = e, r[j] = e PROVE i = j
    <3>1. i + 1 \in DOMAIN s /\ j + 1 \in DOMAIN s /\ s[i + 1] = e /\ s[j + 1] = e
      BY <1>1, <1>2, <2>1
    <3>2. i + 1 = j + 1 BY <3>1, <1>4 DEF Single
    <3> QED BY <3>2, <1>2
  <2>2. ASSUME Head(s) = e, NEW i \in DOMAIN r, r[i] = e PROVE FALSE
    <3>1. i + 1 \in DOMAIN s /\ i + 1 # 1 /\ s[i + 1] = e /\ s[1] = e /\ 1 \in DOMAIN s
      BY <1>1, <1>2, <2>2
    <3> QED BY <3>1, <1>4 DEF Single
  <2> QED BY <2>1, <2>2 DEF Single, ToSet
<1> QED BY <1>1, <1>3, <1>4 DEF r

LEMMA ConcatHolds ==
  ASSUME NEW T, NEW s \in Seq(T), NEW r \in Seq(T)
  PROVE  /\ s \o r \in Seq(T)
         /\ ToSet(s \o r) = ToSet(s) \cup ToSet(r)
         /\ \A e : Single(s, e) /\ Single(r, e) /\ (e \in ToSet(s) => e \notin ToSet(r))
                     => Single(s \o r, e)
<1> DEFINE c == s \o r
<1>1. /\ c \in Seq(T) /\ Len(s) \in Nat /\ Len(r) \in Nat
      /\ DOMAIN s = 1 .. Len(s) /\ DOMAIN r = 1 .. Len(r) /\ DOMAIN c = 1 .. (Len(s) + Len(r))
      /\ \A i \in DOMAIN s : c[i] = s[i]
      /\ \A i \in DOMAIN c : i > Len(s) => c[i] = r[i - Len(s)]
  OBVIOUS
<1> HIDE DEF c
<1>2. /\ \A i \in DOMAIN s : i \in DOMAIN c /\ ~(i > Len(s))
      /\ \A i \in DOMAIN c : i > Len(s) => i - Len(s) \in DOMAIN r
      /\ \A i \in DOMAIN c : ~(i > Len(s)) => i \in DOMAIN s
      /\ \A i, j \in DOMAIN c : i - Len(s) = j - Len(s) => i = j
  BY <1>1
<1>3. \A j \in DOMAIN r : j + Len(s) \in DOMAIN c /\ j + Len(s) > Len(s) /\ (j + Len(s)) - Len(s) = j
  BY <1>1
<1>4. ToSet(c) = ToSet(s) \cup ToSet(r)
  <2>1. ToSet(c) \subseteq ToSet(s) \cup ToSet(r) BY <1>1, <1>2 DEF ToSet
  <2>2. ToSet(s) \subseteq ToSet(c) BY <1>1, <1>2 DEF ToSet
  <2>3. ASSUME NEW j \in DOMAIN r PROVE r[j] \in ToSet(c)
    <3>1. c[j + Len(s)] = r[(j + Len(s)) - Len(s)] BY <1>1, <1>3
    <3>2. c[j + Len(s)] = r[j] BY <3>1, <1>3
    <3> QED BY <3>2, <1>3 DEF ToSet
  <2>4. ToSet(r) \subseteq ToSet(c) BY <2>3 DEF ToSet
  <2> QED BY <2>1, <2>2, <2>4
<1>5. ASSUME NEW e, Single(s, e), Single(r, e), e \in ToSet(s) => e \notin ToSet(r),
             NEW i \in DOMAIN c, NEW j \in DOMAIN c, c[i] = e, c[j] = e
      PROVE  i = j
  <2>1. CASE i > Len(s) /\ j > Len(s)
    BY <1>1, <1>2, <1>5, <2>1 DEF Single
  <2>2. CASE ~(i > Len(s)) /\ ~(j > Len(s))
    BY <1>1, <1>2, <1>5, <2>2 DEF Single
  <2>3. CASE i > Len(s) /\ ~(j > Len(s))
    BY <1>1, <1>2, <1>5, <2>3 DEF ToSet
  <2>4. CASE ~(i > Len(s)) /\ j > Len(s)
    BY <1>1, <1>2, <1>5, <2>4 DEF ToSet
  <2> QED BY <2>1, <2>2, <2>3, <2>4
<1>6. \A e : Single(s, e) /\ Single(r, e) /\ (e \in ToSet(s) => e \notin ToSet(r)) => Single(c, e)
  BY <1>5 DEF Single
<1> QED BY <1>1, <1>4, <1>6 DEF c

\* A finite set of n numbers has an n-th smallest element for each place, and each
\* of its elements has a place.
LEMMA PlacesInOrder ==
  ASSUME NEW b \in Nat, NEW kept \in SUBSET (1..b)
  PROVE  /\ Cardinality(kept) \in Nat
         /\ \A n \in 1..Cardinality(kept) : Nth(kept, n) \in kept
         /\ \A i \in kept : \E n \in 1..Cardinality(kept) : Nth(kept, n) = i
         /\ \A n, m \in 1..Cardinality(kept) : Nth(kept, n) = Nth(kept, m) => n = m
<1> DEFINE Upto(i) == {j \in kept : j <= i}
           N == Cardinality(kept)
           rank == [i \in kept |-> Cardinality(Upto(i))]
<1>1. IsFiniteSet(kept) /\ N \in Nat
  <2>1. IsFiniteSet(1..b) BY FS_Interval
  <2>2. IsFiniteSet(kept) BY <2>1, FS_Subset
  <2> QED BY <2>2, FS_CardinalityType
<1>2. ASSUME NEW i \in kept PROVE IsFiniteSet(Upto(i)) /\ Cardinality(Upto(i)) \in 1..N
  <2>1. Upto(i) \in SUBSET kept /\ i \in Upto(i) OBVIOUS
  <2> HIDE DEF Upto
  <2>2. /\ IsFiniteSet(Upto(i)) /\ Cardinality(Upto(i)) \in Nat /\ Cardinality(Upto(i)) <= N
    BY <1>1, <2>1, FS_Subset, FS_CardinalityType
  <2>3. Cardinality(Upto(i)) # 0 BY <2>1, <2>2, FS_EmptySet
  <2> QED BY <1>1, <2>2, <2>3
<1>3. ASSUME NEW i \in kept, NEW k \in kept, i <= k, Cardinality(Upto(i)) = Cardinality(Upto(k))
      PROVE  i = k
  <2>1. i \in Nat /\ k \in Nat /\ k <= k /\ \A j \in kept : j <= i => j <= k
    BY <1>3
  <2>2. k \in Upto(k) BY <2>1
  <2>3. Upto(i) \in SUBSET Upto(k) BY <2>1
  <2>4. Upto(i) = Upto(k)
    <3> HIDE DEF Upto
    <3> QED BY <1>2, <1>3, <2>3, FS_Subset
  <2>5. k \in Upto(i) BY <2>2, <2>4
  <2> QED BY <1>3, <2>1, <2>5
<1>4. rank \in Surjection(kept, 1..N)
  <2>1. rank \in Injection(kept, 1..N)
    <3>1. \A i, k \in kept : i <= k \/ k <= i OBVIOUS
    <3> HIDE DEF Upto, N
    <3> QED BY <1>2, <1>3, <3>1 DEF Injection, IsInjective
  <2>2. IsFiniteSet(1..N) /\ Cardinality(1..N) = N
    <3> HIDE DEF N
    <3> QED BY <1>1, FS_Interval
  <2> HIDE DEF rank
  <2> QED BY <1>1, <2>1, <2>2, FS_Injection
<1>5. ASSUME NEW n \in 1..N PROVE Nth(kept, n) \in kept /\ Cardinality(Upto(Nth(kept, n))) = n
  <2>1. \E i \in kept : Cardinality(Upto(i)) = n
    <3> HIDE DEF Upto, N
    <3> QED BY <1>4 DEF Surjection
  <2> QED BY <2>1 DEF Nth
<1>6. ASSUME NEW i \in kept PROVE \E n \in 1..N : Nth(kept, n) = i
  <2>1. PICK n \in 1..N : n = Cardinality(Upto(i)) BY <1>2
  <2>2. \A k \in kept : i <= k \/ k <= i OBVIOUS
  <2> HIDE DEF Upto, N
  <2> QED BY <1>3, <1>5, <2>1, <2>2
<1> QED BY <1>1, <1>5, <1>6

\* What remains of a sequence is made of those of its elements that were to remain.
LEMMA AmongHolds ==
  ASSUME NEW T, NEW s \in Seq(T), NEW S
  PROVE  /\ Among(s, S) \in Seq(T)
         /\ ToSet(Among(s, S)) = ToSet(s) \cap S
         /\ \A e : Single(s, e) => Single(Among(s, S), e)
<1> DEFINE kept == {i \in DOMAIN s : s[i] \in S}
           N == Cardinality(kept)
           left == [n \in 1..N |-> s[Nth(kept, n)]]
<1>1. Len(s) \in Nat /\ DOMAIN s = 1..Len(s) /\ kept \in SUBSET (1..Len(s))
  OBVIOUS
<1>2. CASE kept = DOMAIN s
  <2>1. Among(s, S) = s BY <1>2 DEF Among
  <2>2. \A i \in DOMAIN s : s[i] \in S BY <1>2
  <2> HIDE DEF kept
  <2> QED BY <2>1, <2>2 DEF ToSet
<1>3. CASE kept # DOMAIN s
  <2>1. Among(s, S) = <<>> \o left BY <1>3 DEF Among
  <2>2. /\ N \in Nat
        /\ \A n \in 1..N : Nth(kept, n) \in kept
        /\ \A i \in kept : \E n \in 1..N : Nth(kept, n) = i
        /\ \A n, m \in 1..N : Nth(kept, n) = Nth(kept, m) => n = m
    <3> HIDE DEF kept
    <3> QED BY <1>1, PlacesInOrder
  <2>3. \A n \in 1..N : s[Nth(kept, n)] \in T /\ s[Nth(kept, n)] \in S /\ Nth(kept, n) \in DOMAIN s
    <3>1. \A i \in kept : s[i] \in T /\ s[i] \in S /\ i \in DOMAIN s OBVIOUS
    <3> HIDE DEF kept
    <3> QED BY <2>2, <3>1
  <2>4. left \in Seq(T)
    <3> HIDE DEF N, kept
    <3> QED BY <2>2, <2>3
  <2>5. Among(s, S) = left
    <3> HIDE DEF left
    <3> QED BY <2>1, <2>4
  <2>6. DOMAIN left = 1..N /\ \A n \in 1..N : left[n] = s[Nth(kept, n)]
    OBVIOUS
  <2>7. \A x \in ToSet(left) : x \in ToSet(s) \cap S
    <3> HIDE DEF left, N, kept
    <3> QED BY <2>3, <2>6 DEF ToSet
  <2>8. ASSUME NEW x \in ToSet(s) \cap S PROVE x \in ToSet(left)
    <3>1. PICK i \in DOMAIN s : s[i] = x BY DEF ToSet
    <3>2. i \in kept BY <3>1
    <3> HIDE DEF left, N, kept
    <3>3. PICK n \in 1..N : Nth(kept, n) = i BY <2>2, <3>2
    <3> QED BY <2>6, <3>1, <3>3 DEF ToSet
  <2>9. ASSUME NEW e, Single(s, e), NEW n \in 1..N, NEW m \in 1..N, left[n] = e, left[m] = e
        PROVE  n = m
    <3> HIDE DEF left, N, kept
    <3> QED BY <2>2, <2>3, <2>6, <2>9 DEF Single
  <2>10. \A e : Single(s, e) => Single(left, e)
    <3> HIDE DEF left, N, kept
    <3> QED BY <2>6, <2>9 DEF Single
  <2> HIDE DEF left
  <2> QED BY <2>4, <2>5, <2>7, <2>8, <2>10
<1> QED BY <1>2, <1>3

-----------------------------------------------------------------------------
(* Types.                                                                  *)

PlacesTyped ==
  /\ queue \in Seq(Items) /\ hand \in [Sessions -> Items \cup {NoItem}]
  /\ acking \in [Sessions -> Batches \cup {NoItem}]
  /\ deferred \in [Sessions -> Seq(Items)] /\ rest \in [Sessions -> Seq(Items)]

SessionsTyped ==
  /\ life \in [Sessions -> {"absent", "open", "removed", "finalized", "stopping",
                           "draining", "gone"}]
  /\ busy \in [Sessions -> BOOLEAN] /\ drains \in [Sessions -> BOOLEAN]

ProcessesTyped == exited \subseteq Procs /\ consumed \subseteq exited

DelegationsTyped ==
  /\ record \in [Delegs -> {"none", "inserted", "running", "done", "popped"}]
  /\ cancelled \subseteq Delegs /\ unpushed \subseteq Delegs
  /\ \A d \in cancelled : record[d] \in {"inserted", "running", "done"}
  /\ retired \subseteq Delegs /\ parent \in [Delegs -> Sessions \cup {NoItem}]

TombstonesTyped == tombstones \in Seq(Delegs) /\ Len(tombstones) <= MaxTombstones

PostsTyped == posted \in 0 .. MaxPosts /\ cursor \in 0 .. posted /\ pending \subseteq Batches

TellingTyped ==
  /\ told \subseteq [item : Items, to : Sessions, by : {"poller", "turn"}, closing : BOOLEAN]
  /\ again \subseteq Items /\ drained \subseteq Items /\ failed \subseteq Items

BoundsTyped ==
  /\ plan \in Scenarios /\ turns \in 0 .. plan.turns /\ crashes \in 0 .. plan.crashes
  /\ faults \in 0 .. plan.faults

Typed ==
  /\ PlacesTyped /\ SessionsTyped /\ ProcessesTyped /\ DelegationsTyped /\ TombstonesTyped
  /\ PostsTyped /\ TellingTyped /\ BoundsTyped

LEMMA TypedIsTypeOK == Typed => QueueTypeOK
BY DEF Typed, PlacesTyped, SessionsTyped, ProcessesTyped, DelegationsTyped, TombstonesTyped,
       PostsTyped, TellingTyped, BoundsTyped, QueueTypeOK

LEMMA NamesDiffer ==
  /\ NoItem \notin Items /\ Procs \cap Delegs = {} /\ Batches \cap (Procs \cup Delegs) = {}
  /\ Procs \subseteq Items /\ Delegs \subseteq Items /\ Batches \subseteq Items
  /\ Items = Procs \cup Delegs \cup Batches
  /\ MaxPosts \in Nat /\ MaxTombstones \in Nat
BY QueueAssumption DEF Items

\* A scenario stays within its bounds.
LEMMA ScenarioTyped ==
  ASSUME BoundsTyped
  PROVE  /\ plan.posts \in 0 .. MaxPosts /\ plan.turns \in Nat /\ plan.crashes \in Nat
         /\ plan.faults \in Nat /\ plan.first \subseteq Sessions /\ plan.work \subseteq Procs \cup Delegs
         /\ turns \in Nat /\ crashes \in Nat /\ faults \in Nat
<1>1. plan \in Scenario BY QueueAssumption DEF BoundsTyped
<1>2. /\ plan.posts \in 0 .. MaxPosts /\ plan.turns \in Nat /\ plan.crashes \in Nat
      /\ plan.faults \in Nat /\ plan.first \subseteq Sessions /\ plan.work \subseteq Procs \cup Delegs
  BY <1>1 DEF Scenario
<1> QED BY <1>2 DEF BoundsTyped

-----------------------------------------------------------------------------
(* The places.                                                             *)

\* Whatever enters the queue is its last item.
LEMMA Enters ==
  ASSUME PlacesTyped, NEW x \in Items, queue' = Append(queue, x)
  PROVE  /\ queue' \in Seq(Items) /\ ToSet(queue') = ToSet(queue) \cup {x}
         /\ \A e : Single(queue, e) /\ (x = e => e \notin ToSet(queue)) => Single(queue', e)
BY AppendHolds DEF PlacesTyped

\* A poller takes the head of the queue, and appends it again or does not.
LEMMA LeavesTheHead ==
  ASSUME PlacesTyped, queue # <<>>,
         queue' = Tail(queue) \/ queue' = Append(Tail(queue), Head(queue))
  PROVE  /\ Head(queue) \in Items /\ Head(queue) \in ToSet(queue)
         /\ queue' \in Seq(Items)
         /\ ToSet(queue') \subseteq ToSet(queue)
         /\ ToSet(queue) \subseteq ToSet(queue') \cup {Head(queue)}
         /\ queue' = Append(Tail(queue), Head(queue)) => ToSet(queue') = ToSet(queue)
         /\ \A e : Single(queue, e) => Single(queue', e)
         /\ queue' = Tail(queue) /\ Single(queue, Head(queue)) => Head(queue) \notin ToSet(queue')
<1> DEFINE h == Head(queue)
           r == Tail(queue)
<1>1. /\ h \in Items /\ r \in Seq(Items) /\ ToSet(queue) = {h} \cup ToSet(r)
      /\ \A e : Single(queue, e) => Single(r, e) /\ (h = e => e \notin ToSet(r))
  BY TailHolds DEF PlacesTyped
<1> HIDE DEF h, r
<1>2. CASE queue' = r BY <1>1, <1>2 DEF h, r
<1>3. CASE queue' = Append(r, h)
  <2>1. /\ queue' \in Seq(Items) /\ ToSet(queue') = ToSet(r) \cup {h}
        /\ \A e : Single(r, e) /\ (h = e => e \notin ToSet(r)) => Single(queue', e)
    BY <1>1, <1>3, AppendHolds
  <2>2. h \in ToSet(queue') BY <2>1
  <2>3. queue' # r \/ ~Single(queue, h) BY <1>1, <2>2
  <2> QED BY <1>1, <2>1, <2>3 DEF h, r
<1> QED BY <1>2, <1>3 DEF h, r

-----------------------------------------------------------------------------
(* The invariants.                                                         *)

\* A poller has one thing at a time before it, and nobody works for a session that does
\* not exist yet.
Handling ==
  \A s \in Sessions : /\ hand[s] = NoItem \/ acking[s] = NoItem
                      /\ life[s] = "absent" => hand[s] = NoItem

\* A batch starts behind no event that is acknowledged, and ends with one that happened;
\* what a poller will acknowledge has been told.
BatchBook ==
  /\ \A b \in Batches : Present(b) \/ (\E s \in Sessions : acking[s] = b)
                          => b.first <= cursor /\ b.last <= posted
  /\ \A b \in Batches : (\E s \in Sessions : acking[s] = b) => IsTold(b)
  /\ NothingAckedUntold

\* The completions of processes are in the memory of the gateway: where some are
\* expected, it has not died.
MemoryLives == crashes = 0 \/ plan.work \cap Procs = {}

DropBook ==
  /\ exited \subseteq plan.work
  /\ MemoryLives =>
       \A p \in exited :
         Present(p) \/ IsTold(p) \/ p \in consumed \cup drained \cup failed
  /\ \A b \in pending : Present(b) \/ b \in drained \/ \E s \in Sessions : acking[s] = b

\* The end of e was not put into the queue yet.
Unborn(e) ==
  \/ e \in Procs \ exited
  \/ e \in Delegs /\ (record[e] \in {"none", "inserted", "running"} \/ e \in unpushed)

\* Item e is in one place, and there once.
InOnePlace(e) ==
  /\ e \in ToSet(queue) =>
       \A s \in Sessions : hand[s] # e /\ e \notin ToSet(deferred[s]) /\ e \notin ToSet(rest[s])
  /\ \A s, t \in Sessions :
       /\ hand[s] = e => e \notin ToSet(deferred[t]) /\ e \notin ToSet(rest[t])
       /\ e \in ToSet(deferred[s]) => e \notin ToSet(rest[t])
       /\ s # t => /\ ~(hand[s] = e /\ hand[t] = e)
                   /\ ~(e \in ToSet(deferred[s]) /\ e \in ToSet(deferred[t]))
                   /\ ~(e \in ToSet(rest[s]) /\ e \in ToSet(rest[t]))
  /\ Single(queue, e)
  /\ \A s \in Sessions : Single(deferred[s], e) /\ Single(rest[s], e)

\* The end of work is told when it is not before anybody any more, and not before it came.
Once(e) ==
  /\ InOnePlace(e)
  /\ Unborn(e) \/ IsTold(e) => ~Present(e)
  /\ Unborn(e) => ~IsTold(e)
  /\ e \notin again

\* An event that is on its way is of a delegation that is over.
Decided == \A d \in unpushed : record[d] \in {"done", "popped"}

OnceBook ==
  /\ \A e \in Procs \cup Delegs : Once(e)
  /\ Decided

\* Delegations that were cancelled with their session and can still come to a poller are
\* on the list of tombstones.
RetireBook ==
  /\ \A s \in Sessions : hand[s] \in Delegs => Key[s] = OwnerKey[hand[s]]
  /\ \A s \in Sessions : hand[s] \in retired => life[s] \notin {"open", "removed"}
  /\ \A d \in retired : /\ record[d] # "none"
                        /\ \/ d \in ToSet(tombstones)
                           \/ record[d] = "popped" /\ ~Present(d) /\ d \notin unpushed
  /\ \A d \in Delegs : Single(tombstones, d)

\* A conversation has at most one session in _sessions.
OneSessionEach ==
  \A s, t \in Sessions :
    Key[s] = Key[t] /\ life[s] \in {"open", "removed"} /\ life[t] \in {"open", "removed"} => s = t

IndInv == Typed /\ Handling /\ BatchBook /\ DropBook /\ OnceBook /\ OneSessionEach

LEMMA HeadIsTyped ==
  ASSUME PlacesTyped, queue # <<>>
  PROVE  /\ Head(queue) \in Items /\ Tail(queue) \in Seq(Items)
         /\ ToSet(queue) = {Head(queue)} \cup ToSet(Tail(queue))
         /\ \A e : Single(queue, e) =>
              Single(Tail(queue), e) /\ (Head(queue) = e => e \notin ToSet(Tail(queue)))
BY TailHolds DEF PlacesTyped

\* What a step of the drain does to the queue and to the list.
LEMMA DrainMoves ==
  ASSUME PlacesTyped, NEW s \in Sessions, Drain(s), queue # <<>>
  PROVE  /\ ToSet(queue) = {Head(queue)} \cup ToSet(queue')
         /\ ToSet(rest'[s]) = ToSet(rest[s]) \cup ({Head(queue)} \cap (Items \ consumed))
         /\ \A t \in Sessions : t # s => rest'[t] = rest[t]
         /\ UNCHANGED <<hand, deferred>> /\ queue' \in Seq(Items)
         /\ rest' \in [Sessions -> Seq(Items)]
         /\ \A e : Single(queue, e) =>
              Single(queue', e) /\ (Head(queue) = e => e \notin ToSet(queue'))
         /\ \A e : Single(rest[s], e) /\ (Head(queue) = e => e \notin ToSet(rest[s]))
              => Single(rest'[s], e)
<1> DEFINE h == Head(queue)
           a == Among(<<h>>, Items \ consumed)
<1>1. /\ queue' = Tail(queue) /\ rest'[s] = rest[s] \o a /\ rest[s] \in Seq(Items)
      /\ rest' = [rest EXCEPT ![s] = rest'[s]] /\ rest \in [Sessions -> Seq(Items)]
      /\ \A t \in Sessions : t # s => rest'[t] = rest[t]
      /\ UNCHANGED <<hand, deferred>>
  BY DEF Drain, PlacesTyped, places
<1>2. /\ h \in Items /\ Tail(queue) \in Seq(Items) /\ ToSet(queue) = {h} \cup ToSet(Tail(queue))
      /\ \A e : Single(queue, e) => Single(Tail(queue), e) /\ (h = e => e \notin ToSet(Tail(queue)))
  BY HeadIsTyped
<1> HIDE DEF h
<1>3. <<h>> \in Seq(Items) /\ ToSet(<<h>>) = {h} /\ \A e : Single(<<h>>, e)
  <2>1. <<h>> \in Seq(Items) /\ DOMAIN <<h>> = {1} /\ <<h>>[1] = h BY <1>2
  <2> QED BY <2>1 DEF ToSet, Single
<1>4. /\ a \in Seq(Items) /\ ToSet(a) = {h} \cap (Items \ consumed)
      /\ \A e : Single(a, e)
  <2> DEFINE o == <<h>>
             T == Items \ consumed
  <2>1. o \in Seq(Items) /\ ToSet(o) = {h} /\ \A e : Single(o, e) BY <1>3
  <2> HIDE DEF o, T
  <2>2. /\ Among(o, T) \in Seq(Items) /\ ToSet(Among(o, T)) = ToSet(o) \cap T
        /\ \A e : Single(o, e) => Single(Among(o, T), e)
    BY <2>1, AmongHolds
  <2> QED BY <2>1, <2>2 DEF o, T
<1> HIDE DEF a
<1>5. /\ ToSet(rest'[s]) = ToSet(rest[s]) \cup ToSet(a)
      /\ \A e : Single(rest[s], e) /\ Single(a, e) /\ (e \in ToSet(rest[s]) => e \notin ToSet(a))
                  => Single(rest'[s], e)
  BY <1>1, <1>4, ConcatHolds
<1>6. \A e : Single(rest[s], e) /\ (h = e => e \notin ToSet(rest[s])) => Single(rest'[s], e)
  BY <1>4, <1>5
<1>7. ToSet(rest'[s]) = ToSet(rest[s]) \cup ({h} \cap (Items \ consumed)) BY <1>4, <1>5
<1>8. rest'[s] \in Seq(Items) BY <1>1, <1>4, ConcatHolds
<1>9. rest' \in [Sessions -> Seq(Items)] BY <1>1, <1>8
<1> QED BY <1>1, <1>2, <1>6, <1>7, <1>9 DEF h

LEMMA TellTyped ==
  ASSUME TellingTyped, NEW e \in Items, NEW s \in Sessions, NEW who \in {"poller", "turn"}, Tell(e, s, who)
  PROVE  /\ told' \subseteq [item : Items, to : Sessions, by : {"poller", "turn"}, closing : BOOLEAN]
         /\ again' \subseteq Items
<1> DEFINE r == [item |-> e, to |-> s, by |-> who, closing |-> life[s] \notin {"open", "removed"}]
<1>1. r \in [item : Items, to : Sessions, by : {"poller", "turn"}, closing : BOOLEAN] OBVIOUS
<1>2. told' = told \cup {r} BY DEF Tell
<1>3. again' = again \/ again' = again \cup {e} BY DEF Tell
<1> QED BY <1>1, <1>2, <1>3 DEF TellingTyped

-----------------------------------------------------------------------------
(* The tombstones.                                                         *)

LEMMA SetToSeqHolds ==
  ASSUME NEW S, IsFiniteSet(S)
  PROVE  /\ SetToSeq(S) \in Seq(S) /\ ToSet(SetToSeq(S)) = S
         /\ Len(SetToSeq(S)) = Cardinality(S)
         /\ \A e : Single(SetToSeq(S), e)
<1> DEFINE n == Cardinality(S)
           f == SetToSeq(S)
<1>1. n \in Nat /\ ExistsBijection(1..n, S) BY FS_CardinalityType
<1>2. \E g \in [1..n -> S] : IsInjective(g)
  BY <1>1 DEF ExistsBijection, Bijection, Injection
<1>3. f \in [1..n -> S] /\ IsInjective(f)
  BY <1>2 DEF SetToSeq
<1> HIDE DEF f
<1>4. f \in Surjection(1..n, S)
  <2>1. IsFiniteSet(1..n) /\ Cardinality(1..n) = n BY <1>1, FS_Interval
  <2>2. f \in Injection(1..n, S) BY <1>3 DEF Injection
  <2> HIDE DEF n
  <2>3. Cardinality(1..n) = Cardinality(S) BY <2>1 DEF n
  <2> QED BY <2>2, <2>3, FS_Injection
<1> HIDE DEF n
<1>5. f \in Seq(S) /\ Len(f) = n /\ DOMAIN f = 1..n BY <1>1, <1>3
<1>6. ToSet(f) = S
  <2>1. ToSet(f) \subseteq S BY <1>3, <1>5 DEF ToSet
  <2>2. S \subseteq ToSet(f) BY <1>4, <1>5 DEF ToSet, Surjection
  <2> QED BY <2>1, <2>2
<1>7. \A e : Single(f, e) BY <1>3, <1>5 DEF Single, IsInjective
<1> QED BY <1>5, <1>6, <1>7 DEF f, n

\* A sequence without repetitions is no longer than the set it is made of.
LEMMA SinglesAreFew ==
  ASSUME NEW T, IsFiniteSet(T), NEW s \in Seq(T), \A e \in T : Single(s, e)
  PROVE  Len(s) <= Cardinality(T)
<1>1. Len(s) \in Nat /\ DOMAIN s = 1 .. Len(s) /\ s \in [1 .. Len(s) -> T] OBVIOUS
<1>2. s \in Injection(1 .. Len(s), T)
  BY <1>1 DEF Injection, IsInjective, Single
<1>3. Cardinality(1 .. Len(s)) <= Cardinality(T) BY <1>2, FS_Injection
<1>4. Cardinality(1 .. Len(s)) = Len(s) BY <1>1, FS_Interval
<1> QED BY <1>3, <1>4

\* The list of tombstones grows by the delegations that are not on it, and forgets only
\* what is beyond its limit.
LEMMA BuriedHolds ==
  ASSUME TombstonesTyped, NEW ds \in SUBSET Delegs
  PROVE  /\ Buried(ds) \in Seq(Delegs) /\ Len(Buried(ds)) <= MaxTombstones
         /\ /\ Cardinality(Delegs) <= MaxTombstones
            /\ \A d \in Delegs : Single(tombstones, d)
            => /\ ToSet(Buried(ds)) = ToSet(tombstones) \cup ds
               /\ \A d \in Delegs : Single(Buried(ds), d)
<1> DEFINE new == ds \ ToSet(tombstones)
           all == tombstones \o SetToSeq(new)
<1>1. IsFiniteSet(Delegs) /\ MaxTombstones \in Nat BY QueueAssumption
<1>2. /\ SetToSeq(new) \in Seq(new) /\ ToSet(SetToSeq(new)) = new
      /\ \A e : Single(SetToSeq(new), e)
  <2>1. new \in SUBSET Delegs OBVIOUS
  <2> HIDE DEF new
  <2>2. IsFiniteSet(new) BY <1>1, <2>1, FS_Subset
  <2> QED BY <2>2, SetToSeqHolds
<1>3. SetToSeq(new) \in Seq(Delegs)
  <2>1. new \subseteq Delegs OBVIOUS
  <2> HIDE DEF new
  <2> QED BY <1>2, <2>1
<1>4. /\ all \in Seq(Delegs) /\ ToSet(all) = ToSet(tombstones) \cup new
      /\ \A e : Single(tombstones, e) => Single(all, e)
  <2>1. tombstones \in Seq(Delegs) BY DEF TombstonesTyped
  <2>2. \A e : e \in ToSet(tombstones) => e \notin new OBVIOUS
  <2> HIDE DEF new
  <2> QED BY <1>2, <1>3, <2>1, <2>2, ConcatHolds
<1>5. Buried(ds) = IF Len(all) <= MaxTombstones THEN all
                   ELSE SubSeq(all, Len(all) - MaxTombstones + 1, Len(all))
  BY DEF Buried
<1>6. ToSet(tombstones) \cup new = ToSet(tombstones) \cup ds OBVIOUS
<1> HIDE DEF new, all
<1>7. Buried(ds) \in Seq(Delegs) /\ Len(Buried(ds)) <= MaxTombstones
  <2>1. CASE Len(all) <= MaxTombstones BY <1>4, <1>5, <2>1
  <2>2. CASE ~(Len(all) <= MaxTombstones)
    <3>1. Len(all) \in Nat /\ Len(all) - MaxTombstones + 1 \in 1 .. (Len(all) + 1)
      BY <1>1, <1>4, <2>2
    <3> DEFINE from == Len(all) - MaxTombstones + 1
    <3>2. from \in 1 .. (Len(all) + 1) /\ Len(all) - from + 1 = MaxTombstones /\ Len(all) \in Nat
      BY <1>1, <3>1
    <3>3. SubSeq(all, from, Len(all)) \in Seq(Delegs) /\ Len(SubSeq(all, from, Len(all))) = Len(all) - from + 1
      <4> HIDE DEF from
      <4> QED BY <1>4, <3>2
    <3> QED BY <1>5, <2>2, <3>2, <3>3, <1>1
  <2> QED BY <2>1, <2>2
<1>8. ASSUME Cardinality(Delegs) <= MaxTombstones, \A d \in Delegs : Single(tombstones, d)
      PROVE  ToSet(Buried(ds)) = ToSet(tombstones) \cup ds /\ \A d \in Delegs : Single(Buried(ds), d)
  <2>1. \A d \in Delegs : Single(all, d) BY <1>4, <1>8
  <2>2. Len(all) <= Cardinality(Delegs) BY <1>1, <1>4, <2>1, SinglesAreFew
  <2>3. Cardinality(Delegs) \in Nat /\ Len(all) \in Nat BY <1>1, <1>4, FS_CardinalityType
  <2>4. Buried(ds) = all BY <1>1, <1>5, <1>8, <2>2, <2>3
  <2> QED BY <1>4, <1>6, <2>1, <2>4
<1> QED BY <1>7, <1>8

-----------------------------------------------------------------------------
(* Every step keeps the types.                                             *)

LEMMA StepTyped ==
  ASSUME Typed, Handling, BatchBook, Next
  PROVE  Typed'
<1> USE DEF kanban, delegations, processes, places, sessions, telling, bounds
<1>0. /\ PlacesTyped /\ SessionsTyped /\ ProcessesTyped /\ DelegationsTyped /\ TombstonesTyped
      /\ PostsTyped /\ TellingTyped /\ BoundsTyped
  BY DEF Typed
<1>1. ASSUME NEW p \in Procs, Exit(p) PROVE Typed'
  <2>a. SessionsTyped' /\ DelegationsTyped' /\ TombstonesTyped' /\ PostsTyped' /\ TellingTyped'
        /\ BoundsTyped'
    BY <1>0, <1>1 DEF Exit, SessionsTyped, DelegationsTyped, TombstonesTyped, PostsTyped,
       TellingTyped, BoundsTyped
  <2>1. ProcessesTyped' BY <1>0, <1>1, ScenarioTyped DEF Exit, ProcessesTyped
  <2>2. PlacesTyped' BY <1>0, <1>1, ScenarioTyped, NamesDiffer, Enters DEF Exit, PlacesTyped
  <2> QED BY <2>a, <2>1, <2>2 DEF Typed
<1>2. ASSUME NEW p \in Procs, Consume(p) PROVE Typed'
  <2>a. PlacesTyped' /\ SessionsTyped' /\ DelegationsTyped' /\ TombstonesTyped' /\ PostsTyped'
        /\ TellingTyped' /\ BoundsTyped'
    BY <1>0, <1>2 DEF Consume, PlacesTyped, SessionsTyped, DelegationsTyped, TombstonesTyped,
       PostsTyped, TellingTyped, BoundsTyped
  <2>1. ProcessesTyped' BY <1>0, <1>2, ScenarioTyped DEF Consume, ProcessesTyped
  <2> QED BY <2>a, <2>1 DEF Typed
<1>3. ASSUME NEW d \in Delegs, NEW s \in Sessions, Dispatch(d, s) PROVE Typed'
  <2>a. PlacesTyped' /\ SessionsTyped' /\ ProcessesTyped' /\ TombstonesTyped' /\ PostsTyped'
        /\ TellingTyped' /\ BoundsTyped'
    BY <1>0, <1>3 DEF Dispatch, PlacesTyped, SessionsTyped, ProcessesTyped, TombstonesTyped,
       PostsTyped, TellingTyped, BoundsTyped
  <2>1. DelegationsTyped' BY <1>0, <1>3, ScenarioTyped DEF Dispatch, DelegationsTyped
  <2> QED BY <2>a, <2>1 DEF Typed
<1>4. ASSUME NEW d \in Delegs, Submit(d) PROVE Typed'
  <2>a. PlacesTyped' /\ SessionsTyped' /\ ProcessesTyped' /\ TombstonesTyped' /\ PostsTyped'
        /\ TellingTyped' /\ BoundsTyped'
    BY <1>0, <1>4 DEF Submit, PlacesTyped, SessionsTyped, ProcessesTyped, TombstonesTyped,
       PostsTyped, TellingTyped, BoundsTyped
  <2>1. DelegationsTyped' BY <1>0, <1>4, ScenarioTyped DEF Submit, DelegationsTyped
  <2> QED BY <2>a, <2>1 DEF Typed
<1>5. ASSUME NEW d \in Delegs, Finalize(d) PROVE Typed'
  <2>a. PlacesTyped' /\ SessionsTyped' /\ ProcessesTyped' /\ TombstonesTyped' /\ PostsTyped'
        /\ TellingTyped' /\ BoundsTyped'
    BY <1>0, <1>5 DEF Finalize, PlacesTyped, SessionsTyped, ProcessesTyped, TombstonesTyped,
       PostsTyped, TellingTyped, BoundsTyped
  <2>1. DelegationsTyped' BY <1>0, <1>5, ScenarioTyped DEF Finalize, DelegationsTyped
  <2> QED BY <2>a, <2>1 DEF Typed
<1>6. ASSUME NEW d \in Delegs, Push(d) PROVE Typed'
  <2>a. SessionsTyped' /\ ProcessesTyped' /\ TombstonesTyped' /\ PostsTyped' /\ TellingTyped'
        /\ BoundsTyped'
    BY <1>0, <1>6 DEF Push, SessionsTyped, ProcessesTyped, TombstonesTyped, PostsTyped,
       TellingTyped, BoundsTyped
  <2>1. DelegationsTyped' BY <1>0, <1>6, ScenarioTyped DEF Push, DelegationsTyped
  <2>2. PlacesTyped' BY <1>0, <1>6, ScenarioTyped, NamesDiffer, Enters DEF Push, PlacesTyped
  <2> QED BY <2>a, <2>1, <2>2 DEF Typed
<1>7. CASE Post
  <2>a. PlacesTyped' /\ SessionsTyped' /\ ProcessesTyped' /\ DelegationsTyped'
        /\ TombstonesTyped' /\ TellingTyped' /\ BoundsTyped'
    BY <1>0, <1>7 DEF Post, PlacesTyped, SessionsTyped, ProcessesTyped, DelegationsTyped,
       TombstonesTyped, TellingTyped, BoundsTyped
  <2>1. PostsTyped' BY <1>0, <1>7, ScenarioTyped, NamesDiffer DEF Post, PostsTyped
  <2> QED BY <2>a, <2>1 DEF Typed
<1>8. CASE Crash
  <2>a. ProcessesTyped' /\ TellingTyped'
    BY <1>0, <1>8 DEF Crash, ProcessesTyped, TellingTyped
  <2>1. PlacesTyped' BY <1>0, <1>8, ScenarioTyped, NothingHeld DEF Crash, PlacesTyped
  <2>2. SessionsTyped' BY <1>0, <1>8, ScenarioTyped DEF Crash, SessionsTyped
  <2>3. DelegationsTyped' BY <1>0, <1>8, ScenarioTyped DEF Crash, DelegationsTyped
  <2>4. TombstonesTyped'
    BY <1>0, <1>8, ScenarioTyped, NothingHeld, NamesDiffer DEF Crash, TombstonesTyped
  <2>5. PostsTyped' BY <1>0, <1>8, ScenarioTyped DEF Crash, PostsTyped
  <2>6. BoundsTyped' BY <1>0, <1>8, ScenarioTyped DEF Crash, BoundsTyped
  <2> QED BY <2>a, <2>1, <2>2, <2>3, <2>4, <2>5, <2>6 DEF Typed
<1>9. ASSUME NEW s \in Sessions, UserTurn(s) PROVE Typed'
  <2>a. PlacesTyped' /\ ProcessesTyped' /\ DelegationsTyped' /\ TombstonesTyped' /\ PostsTyped'
        /\ TellingTyped'
    BY <1>0, <1>9 DEF UserTurn, PlacesTyped, ProcessesTyped, DelegationsTyped, TombstonesTyped,
       PostsTyped, TellingTyped
  <2>1. SessionsTyped' BY <1>0, <1>9, ScenarioTyped DEF UserTurn, SessionsTyped
  <2>2. BoundsTyped' BY <1>0, <1>9, ScenarioTyped DEF UserTurn, BoundsTyped
  <2> QED BY <2>a, <2>1, <2>2 DEF Typed
<1>10. ASSUME NEW s \in Sessions, TurnEnds(s) PROVE Typed'
  <2>a. PlacesTyped' /\ ProcessesTyped' /\ DelegationsTyped' /\ TombstonesTyped' /\ PostsTyped'
        /\ TellingTyped' /\ BoundsTyped'
    BY <1>0, <1>10 DEF TurnEnds, PlacesTyped, ProcessesTyped, DelegationsTyped, TombstonesTyped,
       PostsTyped, TellingTyped, BoundsTyped
  <2>1. SessionsTyped' BY <1>0, <1>10, ScenarioTyped DEF TurnEnds, SessionsTyped
  <2> QED BY <2>a, <2>1 DEF Typed
<1>11. ASSUME NEW s \in Sessions, Close(s) PROVE Typed'
  <2>a. PlacesTyped' /\ ProcessesTyped' /\ DelegationsTyped' /\ TombstonesTyped' /\ PostsTyped'
        /\ TellingTyped' /\ BoundsTyped'
    BY <1>0, <1>11 DEF Close, PlacesTyped, ProcessesTyped, DelegationsTyped, TombstonesTyped,
       PostsTyped, TellingTyped, BoundsTyped
  <2>1. SessionsTyped' BY <1>0, <1>11, ScenarioTyped DEF Close, SessionsTyped
  <2> QED BY <2>a, <2>1 DEF Typed
<1>12. ASSUME NEW s \in Sessions, FinalizeSession(s) PROVE Typed'
  <2>a. PlacesTyped' /\ ProcessesTyped' /\ PostsTyped' /\ TellingTyped' /\ BoundsTyped'
    BY <1>0, <1>12 DEF FinalizeSession, PlacesTyped, ProcessesTyped, PostsTyped, TellingTyped,
       BoundsTyped
  <2>b. /\ Recorded(Key[s]) \subseteq Delegs
        /\ \A d \in Recorded(Key[s]) : record[d] \in {"inserted", "running", "done"}
    BY DEF Recorded
  <2>1. SessionsTyped' BY <1>0, <1>12, ScenarioTyped DEF FinalizeSession, SessionsTyped
  <2>2. DelegationsTyped' BY <1>0, <1>12, <2>b DEF FinalizeSession, DelegationsTyped
  <2>3. TombstonesTyped' BY <1>0, <1>12, <2>b, BuriedHolds DEF FinalizeSession, TombstonesTyped
  <2> QED BY <2>a, <2>1, <2>2, <2>3 DEF Typed
<1>13. ASSUME NEW s \in Sessions, Open(s) PROVE Typed'
  <2>a. PlacesTyped' /\ ProcessesTyped' /\ DelegationsTyped' /\ TombstonesTyped' /\ PostsTyped'
        /\ TellingTyped' /\ BoundsTyped'
    BY <1>0, <1>13 DEF Open, PlacesTyped, ProcessesTyped, DelegationsTyped, TombstonesTyped,
       PostsTyped, TellingTyped, BoundsTyped
  <2>1. SessionsTyped' BY <1>0, <1>13, ScenarioTyped DEF Open, SessionsTyped
  <2> QED BY <2>a, <2>1 DEF Typed
<1>14. ASSUME NEW s \in Sessions, Discover(s) PROVE Typed'
  <2>a. SessionsTyped' /\ ProcessesTyped' /\ DelegationsTyped' /\ TombstonesTyped'
        /\ TellingTyped' /\ BoundsTyped'
    BY <1>0, <1>14 DEF Discover, SessionsTyped, ProcessesTyped, DelegationsTyped, TombstonesTyped,
       TellingTyped, BoundsTyped
  <2>b. [first |-> cursor, last |-> posted] \in Batches
    BY <1>0, <1>14, NamesDiffer DEF Discover, PostsTyped, Batches
  <2>1. PlacesTyped'
    BY <1>0, <1>14, ScenarioTyped, <2>b, NamesDiffer, Enters DEF Discover, PlacesTyped
  <2>2. PostsTyped' BY <1>0, <1>14, ScenarioTyped, <2>b DEF Discover, PostsTyped
  <2> QED BY <2>a, <2>1, <2>2 DEF Typed
<1>15. ASSUME NEW s \in Sessions, Take(s) PROVE Typed'
  <2>a. ProcessesTyped' /\ DelegationsTyped' /\ TombstonesTyped' /\ PostsTyped' /\ TellingTyped'
        /\ BoundsTyped'
    BY <1>0, <1>15 DEF Take, ProcessesTyped, DelegationsTyped, TombstonesTyped, PostsTyped,
       TellingTyped, BoundsTyped
  <2>1. PlacesTyped' BY <1>0, <1>15, ScenarioTyped, LeavesTheHead DEF Take, PlacesTyped, Idle
  <2>2. SessionsTyped' BY <1>0, <1>15, ScenarioTyped DEF Take, SessionsTyped
  <2> QED BY <2>a, <2>1, <2>2 DEF Typed
<1>16. ASSUME NEW s \in Sessions, TakeLast(s) PROVE Typed'
  <2>a. ProcessesTyped' /\ DelegationsTyped' /\ TombstonesTyped' /\ TellingTyped' /\ BoundsTyped'
    BY <1>0, <1>16 DEF TakeLast, ProcessesTyped, DelegationsTyped, TombstonesTyped, TellingTyped,
       BoundsTyped
  <2>b. Head(queue) \in Items /\ queue' = Tail(queue) /\ Tail(queue) \in Seq(Items)
    BY <1>0, <1>16, HeadIsTyped DEF TakeLast
  <2>c. deferred' \in [Sessions -> Seq(Items)]
    <3>1. deferred[s] \in Seq(Items) BY <1>0 DEF PlacesTyped
    <3>2. Append(deferred[s], Head(queue)) \in Seq(Items) BY <2>b, <3>1, AppendHolds
    <3> QED BY <1>0, <1>16, <3>2 DEF TakeLast, PlacesTyped
  <2>d. hand' \in [Sessions -> Items \cup {NoItem}] /\ UNCHANGED <<acking, rest>>
    BY <1>0, <1>16, <2>b DEF TakeLast, PlacesTyped
  <2>1. PlacesTyped' BY <1>0, <2>b, <2>c, <2>d DEF PlacesTyped
  <2>2. SessionsTyped' BY <1>0, <1>16, ScenarioTyped DEF TakeLast, SessionsTyped
  <2>3. PostsTyped' BY <1>0, <1>16, ScenarioTyped DEF TakeLast, PostsTyped
  <2> QED BY <2>a, <2>1, <2>2, <2>3 DEF Typed
<1>17. ASSUME NEW s \in Sessions, Quit(s) PROVE Typed'
  <2>a. ProcessesTyped' /\ DelegationsTyped' /\ TombstonesTyped' /\ PostsTyped' /\ TellingTyped'
        /\ BoundsTyped'
    BY <1>0, <1>17 DEF Quit, ProcessesTyped, DelegationsTyped, TombstonesTyped, PostsTyped,
       TellingTyped, BoundsTyped
  <2>1. PlacesTyped' BY <1>0, <1>17, ScenarioTyped, NothingHeld DEF Quit, PlacesTyped
  <2>2. SessionsTyped' BY <1>0, <1>17, ScenarioTyped DEF Quit, SessionsTyped
  <2> QED BY <2>a, <2>1, <2>2 DEF Typed
<1>18. ASSUME NEW s \in Sessions, PlaceTurn(s) PROVE Typed'
  <2>a. ProcessesTyped' /\ DelegationsTyped' /\ TombstonesTyped' /\ PostsTyped' /\ BoundsTyped'
    BY <1>0, <1>18 DEF PlaceTurn, Tell, ProcessesTyped, DelegationsTyped, TombstonesTyped,
       PostsTyped, BoundsTyped
  <2>b. hand[s] \in Items /\ Tell(hand[s], s, "poller") BY <1>0, <1>18 DEF PlaceTurn, PlacesTyped
  <2>1. PlacesTyped' BY <1>0, <1>18, ScenarioTyped, NamesDiffer DEF PlaceTurn, PlacesTyped
  <2>2. SessionsTyped' BY <1>0, <1>18, ScenarioTyped DEF PlaceTurn, SessionsTyped
  <2>3. TellingTyped' BY <1>0, <1>18, <2>b, TellTyped DEF PlaceTurn, TellingTyped
  <2> QED BY <2>a, <2>1, <2>2, <2>3 DEF Typed
<1>19. ASSUME NEW s \in Sessions, PutBack(s) PROVE Typed'
  <2>a. ProcessesTyped' /\ DelegationsTyped' /\ TombstonesTyped' /\ PostsTyped' /\ TellingTyped'
        /\ BoundsTyped'
    BY <1>0, <1>19 DEF PutBack, ProcessesTyped, DelegationsTyped, TombstonesTyped, PostsTyped,
       TellingTyped, BoundsTyped
  <2>1. PlacesTyped'
    BY <1>0, <1>19, ScenarioTyped, AppendHolds, ConcatHolds, NothingHeld DEF PutBack, PlacesTyped
  <2>2. SessionsTyped' BY <1>0, <1>19, ScenarioTyped DEF PutBack, SessionsTyped
  <2> QED BY <2>a, <2>1, <2>2 DEF Typed
<1>20. ASSUME NEW s \in Sessions, Ack(s) PROVE Typed'
  <2>a. SessionsTyped' /\ ProcessesTyped' /\ DelegationsTyped' /\ TombstonesTyped'
        /\ TellingTyped' /\ BoundsTyped'
    BY <1>0, <1>20 DEF Ack, SessionsTyped, ProcessesTyped, DelegationsTyped, TombstonesTyped,
       TellingTyped, BoundsTyped
  <2>b. PICK b : b = acking[s] OBVIOUS
  <2>c. b \in Batches /\ b.last \in Nat /\ b.last <= posted
    <3>1. b \in Batches BY <1>0, <1>20, <2>b DEF Ack, PlacesTyped
    <3> QED BY <2>b, <3>1, NamesDiffer DEF BatchBook, Batches
  <2>1. PlacesTyped' BY <1>0, <1>20, ScenarioTyped DEF Ack, PlacesTyped
  <2>2. PostsTyped' BY <1>0, <1>20, <2>b, <2>c, NamesDiffer DEF Ack, PostsTyped
  <2> QED BY <2>a, <2>1, <2>2 DEF Typed
<1>21. ASSUME NEW s \in Sessions, Drain(s) PROVE Typed'
  <2>a. ProcessesTyped' /\ DelegationsTyped' /\ TombstonesTyped' /\ PostsTyped' /\ TellingTyped'
        /\ BoundsTyped'
    BY <1>0, <1>21 DEF Drain, ProcessesTyped, DelegationsTyped, TombstonesTyped, PostsTyped,
       TellingTyped, BoundsTyped
  <2>1. PlacesTyped'
    <3>1. CASE queue = <<>> BY <1>0, <1>21, <3>1 DEF Drain, PlacesTyped
    <3>2. CASE queue # <<>>
      <4>1. /\ queue' \in Seq(Items) /\ rest' \in [Sessions -> Seq(Items)]
            /\ UNCHANGED <<hand, deferred, acking>>
        BY <1>0, <1>21, <3>2, DrainMoves DEF Drain
      <4> QED BY <1>0, <4>1 DEF PlacesTyped
    <3> QED BY <3>1, <3>2
  <2>2. SessionsTyped' BY <1>0, <1>21, ScenarioTyped DEF Drain, SessionsTyped
  <2> QED BY <2>a, <2>1, <2>2 DEF Typed
<1>22. ASSUME NEW s \in Sessions, DrainTurn(s) PROVE Typed'
  <2>a. ProcessesTyped' /\ DelegationsTyped' /\ TombstonesTyped' /\ PostsTyped' /\ BoundsTyped'
    BY <1>0, <1>22 DEF DrainTurn, Tell, ProcessesTyped, DelegationsTyped, TombstonesTyped,
       PostsTyped, BoundsTyped
  <2>b. Head(rest[s]) \in Items /\ Tell(Head(rest[s]), s, "turn")
    BY <1>0, <1>22, TailHolds DEF DrainTurn, PlacesTyped
  <2>1. PlacesTyped' BY <1>0, <1>22, ScenarioTyped, TailHolds DEF DrainTurn, PlacesTyped
  <2>2. SessionsTyped' BY <1>0, <1>22, ScenarioTyped DEF DrainTurn, SessionsTyped
  <2>3. TellingTyped' BY <1>0, <1>22, <2>b, TellTyped DEF DrainTurn, TellingTyped
  <2> QED BY <2>a, <2>1, <2>2, <2>3 DEF Typed
<1>23. ASSUME NEW s \in Sessions, DrainBreak(s) PROVE Typed'
  <2>a. SessionsTyped' /\ ProcessesTyped' /\ DelegationsTyped' /\ TombstonesTyped'
        /\ PostsTyped' /\ BoundsTyped'
    BY <1>0, <1>23 DEF DrainBreak, SessionsTyped, ProcessesTyped, DelegationsTyped,
       TombstonesTyped, PostsTyped, BoundsTyped
  <2>1. PlacesTyped'
    BY <1>0, <1>23, ScenarioTyped, TailHolds, AppendHolds, NothingHeld DEF DrainBreak, PlacesTyped
  <2>2. TellingTyped'
    BY <1>0, <1>23, ScenarioTyped, TailHolds, HeldIsTyped DEF DrainBreak, TellingTyped, PlacesTyped
  <2> QED BY <2>a, <2>1, <2>2 DEF Typed
<1>24. ASSUME NEW s \in Sessions, PlaceFails(s) PROVE Typed'
  <2>a. SessionsTyped' /\ ProcessesTyped' /\ DelegationsTyped' /\ TombstonesTyped' /\ PostsTyped'
    BY <1>0, <1>24 DEF PlaceFails, SessionsTyped, ProcessesTyped, DelegationsTyped,
       TombstonesTyped, PostsTyped
  <2>b. hand[s] \in Items BY <1>0, <1>24 DEF PlaceFails, PlacesTyped
  <2>1. PlacesTyped' BY <1>0, <1>24 DEF PlaceFails, PlacesTyped
  <2>2. TellingTyped' BY <1>0, <1>24, <2>b DEF PlaceFails, TellingTyped
  <2>3. BoundsTyped' BY <1>0, <1>24, ScenarioTyped DEF PlaceFails, BoundsTyped
  <2> QED BY <2>a, <2>1, <2>2, <2>3 DEF Typed
<1>25. ASSUME NEW s \in Sessions, DrainFails(s) PROVE Typed'
  <2>a. SessionsTyped' /\ ProcessesTyped' /\ DelegationsTyped' /\ TombstonesTyped' /\ PostsTyped'
    BY <1>0, <1>25 DEF DrainFails, SessionsTyped, ProcessesTyped, DelegationsTyped,
       TombstonesTyped, PostsTyped
  <2>b. Head(rest[s]) \in Items BY <1>0, <1>25, TailHolds DEF DrainFails, PlacesTyped
  <2>1. PlacesTyped' BY <1>0, <1>25, TailHolds DEF DrainFails, PlacesTyped
  <2>2. TellingTyped' BY <1>0, <1>25, <2>b DEF DrainFails, TellingTyped
  <2>3. BoundsTyped' BY <1>0, <1>25, ScenarioTyped DEF DrainFails, BoundsTyped
  <2> QED BY <2>a, <2>1, <2>2, <2>3 DEF Typed
<1> QED BY <1>1, <1>2, <1>3, <1>4, <1>5, <1>6, <1>7, <1>8, <1>9, <1>10, <1>11, <1>12, <1>13,
       <1>14, <1>15, <1>16, <1>17, <1>18, <1>19, <1>20, <1>21, <1>22, <1>23, <1>24,
       <1>25 DEF Next, PollerStep, TurnStep

-----------------------------------------------------------------------------
(* Handling, and the sessions.                                             *)

LEMMA StepHandles ==
  ASSUME Typed, Handling, Next
  PROVE  Handling'
<1> USE DEF kanban, delegations, processes, places, sessions, telling, bounds, Handling
<1>0. PlacesTyped /\ SessionsTyped BY DEF Typed
<1>1. ASSUME NEW p \in Procs, Exit(p) PROVE Handling'
  BY <1>0, <1>1 DEF Exit, PlacesTyped, SessionsTyped, Idle
<1>2. ASSUME NEW p \in Procs, Consume(p) PROVE Handling'
  BY <1>0, <1>2 DEF Consume, PlacesTyped, SessionsTyped, Idle
<1>3. ASSUME NEW d \in Delegs, NEW s \in Sessions, Dispatch(d, s) PROVE Handling'
  BY <1>0, <1>3 DEF Dispatch, PlacesTyped, SessionsTyped, Idle
<1>4. ASSUME NEW d \in Delegs, Submit(d) PROVE Handling'
  BY <1>0, <1>4 DEF Submit, PlacesTyped, SessionsTyped, Idle
<1>5. ASSUME NEW d \in Delegs, Finalize(d) PROVE Handling'
  BY <1>0, <1>5 DEF Finalize, PlacesTyped, SessionsTyped, Idle
<1>6. ASSUME NEW d \in Delegs, Push(d) PROVE Handling'
  BY <1>0, <1>6 DEF Push, PlacesTyped, SessionsTyped, Idle
<1>7. CASE Post BY <1>0, <1>7 DEF Post, PlacesTyped, SessionsTyped, Idle
<1>8. CASE Crash BY <1>0, <1>8 DEF Crash, PlacesTyped, SessionsTyped, Idle
<1>9. ASSUME NEW s \in Sessions, UserTurn(s) PROVE Handling'
  BY <1>0, <1>9 DEF UserTurn, PlacesTyped, SessionsTyped, Idle
<1>10. ASSUME NEW s \in Sessions, TurnEnds(s) PROVE Handling'
  BY <1>0, <1>10 DEF TurnEnds, PlacesTyped, SessionsTyped, Idle
<1>11. ASSUME NEW s \in Sessions, Close(s) PROVE Handling'
  BY <1>0, <1>11 DEF Close, PlacesTyped, SessionsTyped, Idle
<1>12. ASSUME NEW s \in Sessions, FinalizeSession(s) PROVE Handling'
  BY <1>0, <1>12 DEF FinalizeSession, PlacesTyped, SessionsTyped, Idle
<1>13. ASSUME NEW s \in Sessions, Open(s) PROVE Handling'
  BY <1>0, <1>13 DEF Open, PlacesTyped, SessionsTyped, Idle
<1>14. ASSUME NEW s \in Sessions, Discover(s) PROVE Handling'
  BY <1>0, <1>14 DEF Discover, PlacesTyped, SessionsTyped, Idle
<1>15. ASSUME NEW s \in Sessions, Take(s) PROVE Handling'
  BY <1>0, <1>15 DEF Take, PlacesTyped, SessionsTyped, Idle
<1>16. ASSUME NEW s \in Sessions, TakeLast(s) PROVE Handling'
  BY <1>0, <1>16 DEF TakeLast, PlacesTyped, SessionsTyped, Idle
<1>17. ASSUME NEW s \in Sessions, Quit(s) PROVE Handling'
  BY <1>0, <1>17 DEF Quit, PlacesTyped, SessionsTyped, Idle
<1>18. ASSUME NEW s \in Sessions, PlaceTurn(s) PROVE Handling'
  BY <1>0, <1>18 DEF PlaceTurn, PlacesTyped, SessionsTyped, Idle
<1>19. ASSUME NEW s \in Sessions, PutBack(s) PROVE Handling'
  BY <1>0, <1>19 DEF PutBack, PlacesTyped, SessionsTyped, Idle
<1>20. ASSUME NEW s \in Sessions, Ack(s) PROVE Handling'
  BY <1>0, <1>20 DEF Ack, PlacesTyped, SessionsTyped, Idle
<1>21. ASSUME NEW s \in Sessions, Drain(s) PROVE Handling'
  BY <1>0, <1>21 DEF Drain, PlacesTyped, SessionsTyped, Idle
<1>22. ASSUME NEW s \in Sessions, DrainTurn(s) PROVE Handling'
  BY <1>0, <1>22 DEF DrainTurn, PlacesTyped, SessionsTyped, Idle
<1>23. ASSUME NEW s \in Sessions, DrainBreak(s) PROVE Handling'
  BY <1>0, <1>23 DEF DrainBreak, PlacesTyped, SessionsTyped, Idle
<1>24. ASSUME NEW s \in Sessions, PlaceFails(s) PROVE Handling'
  BY <1>0, <1>24 DEF PlaceFails, PlacesTyped, SessionsTyped, Idle
<1>25. ASSUME NEW s \in Sessions, DrainFails(s) PROVE Handling'
  BY <1>0, <1>25 DEF DrainFails, PlacesTyped, SessionsTyped, Idle
<1> QED BY <1>1, <1>2, <1>3, <1>4, <1>5, <1>6, <1>7, <1>8, <1>9, <1>10, <1>11, <1>12, <1>13,
       <1>14, <1>15, <1>16, <1>17, <1>18, <1>19, <1>20, <1>21, <1>22, <1>23, <1>24,
       <1>25 DEF Next, PollerStep, TurnStep

LEMMA StepOneSession ==
  ASSUME Typed, OneSessionEach, Next
  PROVE  OneSessionEach'
<1> USE DEF kanban, delegations, processes, places, sessions, telling, bounds, OneSessionEach
<1>0. SessionsTyped BY DEF Typed
<1>1. ASSUME NEW p \in Procs, Exit(p) PROVE OneSessionEach' BY <1>0, <1>1 DEF Exit, SessionsTyped
<1>2. ASSUME NEW p \in Procs, Consume(p) PROVE OneSessionEach'
  BY <1>0, <1>2 DEF Consume, SessionsTyped
<1>3. ASSUME NEW d \in Delegs, NEW s \in Sessions, Dispatch(d, s) PROVE OneSessionEach'
  BY <1>0, <1>3 DEF Dispatch, SessionsTyped
<1>4. ASSUME NEW d \in Delegs, Submit(d) PROVE OneSessionEach'
  BY <1>0, <1>4 DEF Submit, SessionsTyped
<1>5. ASSUME NEW d \in Delegs, Finalize(d) PROVE OneSessionEach'
  BY <1>0, <1>5 DEF Finalize, SessionsTyped
<1>6. ASSUME NEW d \in Delegs, Push(d) PROVE OneSessionEach' BY <1>0, <1>6 DEF Push, SessionsTyped
<1>7. CASE Post BY <1>0, <1>7 DEF Post, SessionsTyped
<1>8. CASE Crash BY <1>0, <1>8 DEF Crash, SessionsTyped
<1>9. ASSUME NEW s \in Sessions, UserTurn(s) PROVE OneSessionEach'
  BY <1>0, <1>9 DEF UserTurn, SessionsTyped
<1>10. ASSUME NEW s \in Sessions, TurnEnds(s) PROVE OneSessionEach'
  BY <1>0, <1>10 DEF TurnEnds, SessionsTyped
<1>11. ASSUME NEW s \in Sessions, Close(s) PROVE OneSessionEach'
  BY <1>0, <1>11 DEF Close, SessionsTyped
<1>12. ASSUME NEW s \in Sessions, FinalizeSession(s) PROVE OneSessionEach'
  BY <1>0, <1>12 DEF FinalizeSession, SessionsTyped
<1>13. ASSUME NEW s \in Sessions, Open(s) PROVE OneSessionEach'
  BY <1>0, <1>13 DEF Open, SessionsTyped
<1>14. ASSUME NEW s \in Sessions, Discover(s) PROVE OneSessionEach'
  BY <1>0, <1>14 DEF Discover, SessionsTyped
<1>15. ASSUME NEW s \in Sessions, Take(s) PROVE OneSessionEach'
  BY <1>0, <1>15 DEF Take, SessionsTyped
<1>16. ASSUME NEW s \in Sessions, TakeLast(s) PROVE OneSessionEach'
  BY <1>0, <1>16 DEF TakeLast, SessionsTyped
<1>17. ASSUME NEW s \in Sessions, Quit(s) PROVE OneSessionEach'
  BY <1>0, <1>17 DEF Quit, SessionsTyped
<1>18. ASSUME NEW s \in Sessions, PlaceTurn(s) PROVE OneSessionEach'
  BY <1>0, <1>18 DEF PlaceTurn, SessionsTyped
<1>19. ASSUME NEW s \in Sessions, PutBack(s) PROVE OneSessionEach'
  BY <1>0, <1>19 DEF PutBack, SessionsTyped
<1>20. ASSUME NEW s \in Sessions, Ack(s) PROVE OneSessionEach' BY <1>0, <1>20 DEF Ack, SessionsTyped
<1>21. ASSUME NEW s \in Sessions, Drain(s) PROVE OneSessionEach'
  BY <1>0, <1>21 DEF Drain, SessionsTyped
<1>22. ASSUME NEW s \in Sessions, DrainTurn(s) PROVE OneSessionEach'
  BY <1>0, <1>22 DEF DrainTurn, SessionsTyped
<1>23. ASSUME NEW s \in Sessions, DrainBreak(s) PROVE OneSessionEach'
  BY <1>0, <1>23 DEF DrainBreak, SessionsTyped
<1>24. ASSUME NEW s \in Sessions, PlaceFails(s) PROVE OneSessionEach'
  BY <1>0, <1>24 DEF PlaceFails, SessionsTyped
<1>25. ASSUME NEW s \in Sessions, DrainFails(s) PROVE OneSessionEach'
  BY <1>0, <1>25 DEF DrainFails, SessionsTyped
<1> QED BY <1>1, <1>2, <1>3, <1>4, <1>5, <1>6, <1>7, <1>8, <1>9, <1>10, <1>11, <1>12, <1>13,
       <1>14, <1>15, <1>16, <1>17, <1>18, <1>19, <1>20, <1>21, <1>22, <1>23, <1>24,
       <1>25 DEF Next, PollerStep, TurnStep

-----------------------------------------------------------------------------
(* Where the items go.                                                     *)

LEMMA TakeFlow ==
  ASSUME Typed, NEW s \in Sessions, Take(s), NEW e \in Items
  PROVE  /\ Present(e)' => Present(e)
         /\ Present(e) => Present(e)' \/ (e = Head(queue) /\ (Dropped(e) \/ e \in consumed))
<1> DEFINE h == Head(queue)
<1>1. PlacesTyped BY DEF Typed
<1>2. /\ ToSet(queue') \subseteq ToSet(queue) /\ ToSet(queue) \subseteq ToSet(queue') \cup {h}
      /\ queue' = Append(Tail(queue), h) => ToSet(queue') = ToSet(queue)
      /\ h \in ToSet(queue)
  BY <1>1, LeavesTheHead DEF Take
<1>3. ~Dropped(h) /\ Elsewhere(s, h) => queue' = Append(Tail(queue), h) BY DEF Take
<1>4. /\ hand[s] = NoItem /\ \A t \in Sessions : t # s => hand'[t] = hand[t]
      /\ hand'[s] = IF Dropped(h) \/ Elsewhere(s, h) \/ h \in consumed THEN NoItem ELSE h
      /\ UNCHANGED <<deferred, rest>>
  BY <1>1 DEF Take, Idle, PlacesTyped
<1>5. e # NoItem BY NamesDiffer
<1> HIDE DEF h
<1> QED BY <1>2, <1>3, <1>4, <1>5 DEF Present, h

LEMMA TakeLastFlow ==
  ASSUME Typed, NEW s \in Sessions, TakeLast(s), NEW e \in Items
  PROVE  /\ Present(e)' => Present(e)
         /\ Present(e) => Present(e)' \/ (e = Head(queue) /\ (Dropped(e) \/ e \in Batches \cup consumed))
<1> DEFINE h == Head(queue)
<1>1. PlacesTyped BY DEF Typed
<1>2. /\ ToSet(queue') \subseteq ToSet(queue) /\ ToSet(queue) \subseteq ToSet(queue') \cup {h}
      /\ h \in ToSet(queue) /\ h \in Items
  BY <1>1, LeavesTheHead DEF TakeLast
<1>3. /\ hand[s] = NoItem
      /\ \A t \in Sessions : t # s => hand'[t] = hand[t] /\ deferred'[t] = deferred[t]
      /\ UNCHANGED rest /\ deferred[s] \in Seq(Items)
  BY <1>1 DEF TakeLast, Idle, PlacesTyped
<1>4. CASE Dropped(h) \/ h \in Batches
  <2>1. UNCHANGED <<hand, deferred>> BY <1>4 DEF TakeLast
  <2>2. e = h => Dropped(e) \/ e \in Batches BY <1>4
  <2> HIDE DEF h
  <2>3. Present(e)' => Present(e) BY <1>2, <1>3, <2>1 DEF Present
  <2>4. Present(e) => Present(e)' \/ e = h BY <1>2, <1>3, <2>1 DEF Present
  <2> QED BY <2>2, <2>3, <2>4 DEF h
<1>5. CASE ~(Dropped(h) \/ h \in Batches) /\ Elsewhere(s, h)
  <2>1. UNCHANGED hand /\ deferred'[s] = Append(deferred[s], h)
    BY <1>1, <1>5 DEF TakeLast, PlacesTyped
  <2>2. ToSet(deferred'[s]) = ToSet(deferred[s]) \cup {h} BY <1>2, <1>3, <2>1, AppendHolds
  <2> HIDE DEF h
  <2> QED BY <1>2, <1>3, <2>1, <2>2 DEF Present
<1>6. CASE ~(Dropped(h) \/ h \in Batches) /\ ~Elsewhere(s, h)
  <2>1. UNCHANGED deferred /\ hand'[s] = IF h \in consumed THEN NoItem ELSE h
    BY <1>1, <1>3, <1>6 DEF TakeLast, PlacesTyped
  <2>2. e # NoItem BY NamesDiffer
  <2> HIDE DEF h
  <2> QED BY <1>2, <1>3, <2>1, <2>2 DEF Present, h
<1> QED BY <1>4, <1>5, <1>6

LEMMA QuitFlow ==
  ASSUME Typed, NEW s \in Sessions, Quit(s), NEW e \in Items
  PROVE  Present(e)' <=> Present(e)
<1>1. PlacesTyped BY DEF Typed
<1>2. /\ queue = <<>> /\ queue' = deferred[s] /\ deferred'[s] = <<>>
      /\ \A t \in Sessions : t # s => deferred'[t] = deferred[t]
      /\ UNCHANGED <<hand, rest>>
  BY <1>1 DEF Quit, PlacesTyped
<1>3. ToSet(queue) = {} /\ ToSet(deferred'[s]) = {} BY <1>2, NothingHeld
<1> QED BY <1>2, <1>3 DEF Present

LEMMA PlaceTurnFlow ==
  ASSUME Typed, NEW s \in Sessions, PlaceTurn(s) \/ PlaceFails(s), NEW e \in Items
  PROVE  /\ Present(e)' => Present(e)
         /\ Present(e) => Present(e)' \/ e = hand[s]
<1>1. PlacesTyped BY DEF Typed
<1>2. /\ hand'[s] = NoItem /\ \A t \in Sessions : t # s => hand'[t] = hand[t]
      /\ UNCHANGED <<queue, deferred, rest>>
  BY <1>1 DEF PlaceTurn, PlaceFails, PlacesTyped
<1>3. e # NoItem BY NamesDiffer
<1> QED BY <1>2, <1>3 DEF Present

LEMMA PutBackFlow ==
  ASSUME Typed, NEW s \in Sessions, PutBack(s), NEW e \in Items
  PROVE  Present(e)' <=> Present(e)
<1>1. PlacesTyped BY DEF Typed
<1>2. /\ hand'[s] = NoItem /\ deferred'[s] = <<>>
      /\ \A t \in Sessions : t # s => hand'[t] = hand[t] /\ deferred'[t] = deferred[t]
      /\ UNCHANGED rest
  BY <1>1 DEF PutBack, PlacesTyped
<1>3. ToSet(queue') = ToSet(queue) \cup {hand[s]} \cup ToSet(deferred[s])
  <2>1. hand[s] \in Items /\ queue \in Seq(Items) /\ deferred[s] \in Seq(Items)
    BY <1>1 DEF PutBack, PlacesTyped
  <2>2. /\ Append(queue, hand[s]) \in Seq(Items)
        /\ ToSet(Append(queue, hand[s])) = ToSet(queue) \cup {hand[s]}
    BY <2>1, AppendHolds
  <2>3. ToSet(Append(queue, hand[s]) \o deferred[s]) = ToSet(Append(queue, hand[s])) \cup ToSet(deferred[s])
    BY <2>1, <2>2, ConcatHolds, ZenonT(60)
  <2> QED BY <2>2, <2>3 DEF PutBack
<1>4. e # NoItem /\ ToSet(deferred'[s]) = {} BY <1>2, NamesDiffer, NothingHeld
<1> QED BY <1>2, <1>3, <1>4 DEF Present

LEMMA DrainFlow ==
  ASSUME Typed, NEW s \in Sessions, Drain(s), NEW e \in Items
  PROVE  /\ Present(e)' => Present(e)
         /\ Present(e) => Present(e)' \/ e \in consumed
<1>1. PlacesTyped BY DEF Typed
<1>2. CASE queue = <<>>
  <2>1. UNCHANGED <<queue, hand, deferred, rest>> BY <1>2 DEF Drain
  <2> QED BY <2>1 DEF Present
<1>3. CASE queue # <<>>
  BY <1>1, <1>3, DrainMoves DEF Present
<1> QED BY <1>2, <1>3

LEMMA DrainTurnFlow ==
  ASSUME Typed, NEW s \in Sessions, DrainTurn(s) \/ DrainFails(s), NEW e \in Items
  PROVE  /\ Present(e)' => Present(e)
         /\ Present(e) => Present(e)' \/ e = Head(rest[s])
         /\ Head(rest[s]) \in Items /\ Present(Head(rest[s]))
<1>1. PlacesTyped BY DEF Typed
<1>2. /\ rest'[s] = Tail(rest[s]) /\ \A t \in Sessions : t # s => rest'[t] = rest[t]
      /\ UNCHANGED <<queue, hand, deferred>> /\ rest[s] \in Seq(Items) /\ rest[s] # <<>>
  BY <1>1 DEF DrainTurn, DrainFails, PlacesTyped
<1>3. Head(rest[s]) \in Items /\ ToSet(rest[s]) = {Head(rest[s])} \cup ToSet(Tail(rest[s]))
  BY <1>2, TailHolds
<1> QED BY <1>2, <1>3 DEF Present

LEMMA DrainBreakFlow ==
  ASSUME Typed, NEW s \in Sessions, DrainBreak(s), NEW e \in Items
  PROVE  /\ Present(e)' => Present(e)
         /\ Present(e) => Present(e)' \/ e \in ToSet(Tail(rest[s]))
<1>1. PlacesTyped BY DEF Typed
<1>2. /\ queue' = Append(queue, Head(rest[s])) /\ rest'[s] = <<>>
      /\ \A t \in Sessions : t # s => rest'[t] = rest[t]
      /\ UNCHANGED <<hand, deferred>> /\ rest[s] \in Seq(Items) /\ rest[s] # <<>>
  BY <1>1 DEF DrainBreak, PlacesTyped
<1>3. Head(rest[s]) \in Items /\ ToSet(rest[s]) = {Head(rest[s])} \cup ToSet(Tail(rest[s]))
  BY <1>2, TailHolds
<1>4. ToSet(queue') = ToSet(queue) \cup {Head(rest[s])} BY <1>1, <1>2, <1>3, Enters
<1>5. ToSet(rest'[s]) = {} BY <1>2, NothingHeld
<1> QED BY <1>2, <1>3, <1>4, <1>5 DEF Present

LEMMA CrashFlow ==
  ASSUME Crash, NEW e \in Items
  PROVE  ~Present(e)'
<1>1. /\ queue' = <<>> /\ \A t \in Sessions : hand'[t] = NoItem /\ deferred'[t] = <<>> /\ rest'[t] = <<>>
  BY DEF Crash
<1>2. ToSet(queue') = {} /\ \A t \in Sessions : ToSet(deferred'[t]) = {} /\ ToSet(rest'[t]) = {}
  BY <1>1, NothingHeld
<1> QED BY <1>1, <1>2, NamesDiffer DEF Present

LEMMA EntersFlow ==
  ASSUME Typed, NEW x \in Items, queue' = Append(queue, x), UNCHANGED <<hand, deferred, rest>>, NEW e
  PROVE  Present(e)' <=> Present(e) \/ e = x
<1>1. ToSet(queue') = ToSet(queue) \cup {x} BY Enters DEF Typed
<1> QED BY <1>1 DEF Present

LEMMA NoFlow ==
  ASSUME UNCHANGED <<queue, hand, deferred, rest>>, NEW e
  PROVE  Present(e)' <=> Present(e)
BY DEF Present

-----------------------------------------------------------------------------
(* The batches and the cursor.                                             *)

LEMMA TellsIt ==
  ASSUME NEW e, NEW s \in Sessions, NEW who, Tell(e, s, who)
  PROVE  /\ told \subseteq told'
         /\ \A x : IsTold(x)' <=> IsTold(x) \/ x = e
         /\ \A x : x \in again' => x \in again \/ (x = e /\ IsTold(e))
<1> DEFINE r == [item |-> e, to |-> s, by |-> who, closing |-> life[s] \notin {"open", "removed"}]
<1>1. told' = told \cup {r} BY DEF Tell
<1>2. r.item = e OBVIOUS
<1>3. again' = IF \E q \in told : q.item = e THEN again \cup {e} ELSE again BY DEF Tell
<1> HIDE DEF r
<1> QED BY <1>1, <1>2, <1>3 DEF IsTold

\* A step that moves neither the cursor nor a batch from nowhere keeps the book of the
\* batches: a poller comes to acknowledge only what it just told.
LEMMA BatchesKept ==
  ASSUME Typed, BatchBook, cursor' = cursor, told \subseteq told',
         posted' \in Nat, posted <= posted',
         \A b \in Batches : Present(b)' => Present(b),
         \A b \in Batches : (\E s \in Sessions : acking'[s] = b)
              => (\E s \in Sessions : acking[s] = b) \/ (Present(b) /\ IsTold(b)')
  PROVE  BatchBook'
<1>1. PlacesTyped /\ posted \in Nat /\ cursor \in Nat BY NamesDiffer DEF Typed, PostsTyped
<1>2. NoItem \notin Batches BY NamesDiffer
<1>3. \A b : IsTold(b) => IsTold(b)' BY DEF IsTold
<1>4. ASSUME NEW b \in Batches, Present(b)' \/ (\E s \in Sessions : acking'[s] = b)
      PROVE  b.first <= cursor' /\ b.last <= posted'
  <2>1. Present(b) \/ (\E s \in Sessions : acking[s] = b) BY <1>2, <1>4
  <2>2. b.first <= cursor /\ b.last <= posted BY <2>1 DEF BatchBook
  <2>3. b.last \in Int BY NamesDiffer DEF Batches
  <2> QED BY <1>1, <2>2, <2>3
<1>5. ASSUME NEW b \in Batches, \E s \in Sessions : acking'[s] = b PROVE IsTold(b)'
  BY <1>3, <1>5 DEF BatchBook
<1>6. NothingAckedUntold'
  <2>1. NothingAckedUntold BY DEF BatchBook
  <2> QED BY <2>1 DEF NothingAckedUntold
<1> QED BY <1>4, <1>5, <1>6 DEF BatchBook

LEMMA StepBatches ==
  ASSUME Typed, Typed', Handling, BatchBook, Next
  PROVE  BatchBook'
<1> USE DEF kanban, delegations, processes, places, sessions, telling, bounds
<1>0. PlacesTyped /\ posted \in Nat /\ posted <= posted /\ cursor \in Nat /\ Batches \subseteq Items
  BY NamesDiffer DEF Typed, PostsTyped
<1>1. ASSUME NEW p \in Procs, Exit(p) PROVE BatchBook'
  <2>1. \A b \in Batches : Present(b)' => Present(b)
    <3>1. p \in Items /\ p \notin Batches BY NamesDiffer
    <3> QED BY <1>1, <3>1, EntersFlow DEF Exit
  <2>2. UNCHANGED <<posted, cursor, acking, told>> BY <1>1 DEF Exit
  <2> QED BY <1>0, <2>1, <2>2, BatchesKept
<1>2. ASSUME NEW p \in Procs, Consume(p) PROVE BatchBook'
  <2>1. UNCHANGED <<posted, cursor, acking, told, queue, hand, deferred, rest>> BY <1>2 DEF Consume
  <2>2. \A b \in Batches : Present(b)' => Present(b) BY <2>1, NoFlow
  <2> QED BY <1>0, <2>1, <2>2, BatchesKept
<1>3. ASSUME NEW d \in Delegs, NEW s \in Sessions, Dispatch(d, s) PROVE BatchBook'
  <2>1. UNCHANGED <<posted, cursor, acking, told, queue, hand, deferred, rest>> BY <1>3 DEF Dispatch
  <2>2. \A b \in Batches : Present(b)' => Present(b) BY <2>1, NoFlow
  <2> QED BY <1>0, <2>1, <2>2, BatchesKept
<1>4. ASSUME NEW d \in Delegs, Submit(d) PROVE BatchBook'
  <2>1. UNCHANGED <<posted, cursor, acking, told, queue, hand, deferred, rest>> BY <1>4 DEF Submit
  <2>2. \A b \in Batches : Present(b)' => Present(b) BY <2>1, NoFlow
  <2> QED BY <1>0, <2>1, <2>2, BatchesKept
<1>5. ASSUME NEW d \in Delegs, Finalize(d) PROVE BatchBook'
  <2>1. UNCHANGED <<posted, cursor, acking, told, queue, hand, deferred, rest>> BY <1>5 DEF Finalize
  <2>2. \A b \in Batches : Present(b)' => Present(b) BY <2>1, NoFlow
  <2> QED BY <1>0, <2>1, <2>2, BatchesKept
<1>6. ASSUME NEW d \in Delegs, Push(d) PROVE BatchBook'
  <2>1. \A b \in Batches : Present(b)' => Present(b)
    <3>1. d \in Items /\ d \notin Batches BY NamesDiffer
    <3> QED BY <1>6, <3>1, EntersFlow DEF Push
  <2>2. UNCHANGED <<posted, cursor, acking, told>> BY <1>6 DEF Push
  <2> QED BY <1>0, <2>1, <2>2, BatchesKept
<1>7. CASE Post
  <2>1. posted' \in Nat /\ posted <= posted' BY <1>0, <1>7 DEF Post
  <2>2. UNCHANGED <<cursor, acking, told, queue, hand, deferred, rest>> BY <1>7 DEF Post
  <2>3. \A b \in Batches : Present(b)' => Present(b) BY <2>2, NoFlow
  <2> QED BY <2>1, <2>2, <2>3, BatchesKept
<1>8. CASE Crash
  <2>1. \A b \in Batches : Present(b)' => Present(b) BY <1>0, <1>8, CrashFlow
  <2>2. UNCHANGED <<posted, cursor, told>> /\ \A s \in Sessions : acking'[s] = NoItem
    BY <1>8 DEF Crash
  <2> QED BY <1>0, <2>1, <2>2, NamesDiffer, BatchesKept
<1>9. ASSUME NEW s \in Sessions, UserTurn(s) PROVE BatchBook'
  <2>1. UNCHANGED <<posted, cursor, acking, told, queue, hand, deferred, rest>> BY <1>9 DEF UserTurn
  <2>2. \A b \in Batches : Present(b)' => Present(b) BY <2>1, NoFlow
  <2> QED BY <1>0, <2>1, <2>2, BatchesKept
<1>10. ASSUME NEW s \in Sessions, TurnEnds(s) PROVE BatchBook'
  <2>1. UNCHANGED <<posted, cursor, acking, told, queue, hand, deferred, rest>>
    BY <1>10 DEF TurnEnds
  <2>2. \A b \in Batches : Present(b)' => Present(b) BY <2>1, NoFlow
  <2> QED BY <1>0, <2>1, <2>2, BatchesKept
<1>11. ASSUME NEW s \in Sessions, Close(s) PROVE BatchBook'
  <2>1. UNCHANGED <<posted, cursor, acking, told, queue, hand, deferred, rest>> BY <1>11 DEF Close
  <2>2. \A b \in Batches : Present(b)' => Present(b) BY <2>1, NoFlow
  <2> QED BY <1>0, <2>1, <2>2, BatchesKept
<1>12. ASSUME NEW s \in Sessions, FinalizeSession(s) PROVE BatchBook'
  <2>1. UNCHANGED <<posted, cursor, acking, told, queue, hand, deferred, rest>>
    BY <1>12 DEF FinalizeSession
  <2>2. \A b \in Batches : Present(b)' => Present(b) BY <2>1, NoFlow
  <2> QED BY <1>0, <2>1, <2>2, BatchesKept
<1>13. ASSUME NEW s \in Sessions, Open(s) PROVE BatchBook'
  <2>1. UNCHANGED <<posted, cursor, acking, told, queue, hand, deferred, rest>> BY <1>13 DEF Open
  <2>2. \A b \in Batches : Present(b)' => Present(b) BY <2>1, NoFlow
  <2> QED BY <1>0, <2>1, <2>2, BatchesKept
<1>14. ASSUME NEW s \in Sessions, Discover(s) PROVE BatchBook'
  <2> DEFINE batch == [first |-> cursor, last |-> posted]
  <2>1. batch \in Batches
    <3>1. cursor \in 0 .. MaxPosts /\ posted \in 1 .. MaxPosts
      BY <1>14, NamesDiffer DEF Discover, Typed, PostsTyped
    <3> QED BY <3>1 DEF Batches
  <2>2. queue' = Append(queue, batch) /\ UNCHANGED <<posted, cursor, acking, told, hand, deferred, rest>>
    BY <1>14 DEF Discover
  <2>3. batch.first = cursor /\ batch.last = posted OBVIOUS
  <2> HIDE DEF batch
  <2>4. \A b \in Batches : Present(b)' => Present(b) \/ b = batch BY <1>0, <2>1, <2>2, EntersFlow
  <2>5. ASSUME NEW b \in Batches, Present(b)' \/ (\E t \in Sessions : acking'[t] = b)
        PROVE  b.first <= cursor' /\ b.last <= posted'
    BY <1>0, <2>2, <2>3, <2>4, <2>5 DEF BatchBook
  <2>6. \A b \in Batches : (\E t \in Sessions : acking'[t] = b) => IsTold(b)'
    BY <2>2 DEF BatchBook, IsTold
  <2>7. NothingAckedUntold' BY <2>2 DEF BatchBook, NothingAckedUntold
  <2> QED BY <2>5, <2>6, <2>7 DEF BatchBook
<1>15. ASSUME NEW s \in Sessions, Take(s) PROVE BatchBook'
  <2>1. \A b \in Batches : Present(b)' => Present(b) BY <1>0, <1>15, TakeFlow
  <2>2. UNCHANGED <<posted, cursor, acking, told>> BY <1>15 DEF Take
  <2> QED BY <1>0, <2>1, <2>2, BatchesKept
<1>16. ASSUME NEW s \in Sessions, TakeLast(s) PROVE BatchBook'
  <2>1. \A b \in Batches : Present(b)' => Present(b) BY <1>0, <1>16, TakeLastFlow
  <2>2. UNCHANGED <<posted, cursor, acking, told>> BY <1>16 DEF TakeLast
  <2> QED BY <1>0, <2>1, <2>2, BatchesKept
<1>17. ASSUME NEW s \in Sessions, Quit(s) PROVE BatchBook'
  <2>1. \A b \in Batches : Present(b)' => Present(b) BY <1>0, <1>17, QuitFlow
  <2>2. UNCHANGED <<posted, cursor, acking, told>> BY <1>17 DEF Quit
  <2> QED BY <1>0, <2>1, <2>2, BatchesKept
<1>18. ASSUME NEW s \in Sessions, PlaceTurn(s) PROVE BatchBook'
  <2>1. \A b \in Batches : Present(b)' => Present(b) BY <1>0, <1>18, PlaceTurnFlow
  <2>2. UNCHANGED <<posted, cursor>> BY <1>18 DEF PlaceTurn
  <2>3. told \subseteq told' /\ \A e : e = hand[s] => IsTold(e)' BY <1>18, TellsIt DEF PlaceTurn
  <2>4. Present(hand[s]) BY DEF Present
  <2>5. \A t \in Sessions : acking'[t] = acking[t] \/ (acking'[t] = hand[s] /\ hand[s] \in Batches)
    BY <1>0, <1>18 DEF PlaceTurn, PlacesTyped
  <2> QED BY <1>0, <2>1, <2>2, <2>3, <2>4, <2>5, BatchesKept
<1>19. ASSUME NEW s \in Sessions, PutBack(s) PROVE BatchBook'
  <2>1. \A b \in Batches : Present(b)' => Present(b) BY <1>0, <1>19, PutBackFlow
  <2>2. UNCHANGED <<posted, cursor, acking, told>> BY <1>19 DEF PutBack
  <2> QED BY <1>0, <2>1, <2>2, BatchesKept
<1>20. ASSUME NEW s \in Sessions, Ack(s) PROVE BatchBook'
  <2>1. acking[s] \in Batches /\ acking[s].first \in Nat /\ acking[s].last \in Nat
    <3>1. acking[s] \in Batches BY <1>0, <1>20 DEF Ack, PlacesTyped
    <3> QED BY <3>1, NamesDiffer DEF Batches
  <2>2. acking[s].first <= cursor /\ IsTold(acking[s]) BY <1>20, <2>1 DEF Ack, BatchBook
  <2>3. UNCHANGED <<posted, told, queue, hand, deferred, rest>> BY <1>20 DEF Ack
  <2>4. /\ cursor' = cursor \/ cursor' = acking[s].last
        /\ cursor <= cursor'
    BY <1>0, <1>20, <2>1 DEF Ack
  <2>5. \A t \in Sessions : acking'[t] = NoItem \/ acking'[t] = acking[t]
    BY <1>0, <1>20 DEF Ack, PlacesTyped
  <2>6. ASSUME NEW b \in Batches, Present(b)' \/ (\E t \in Sessions : acking'[t] = b)
        PROVE  b.first <= cursor' /\ b.last <= posted'
    <3>1. NoItem \notin Batches BY NamesDiffer
    <3>2. Present(b) \/ (\E t \in Sessions : acking[t] = b) BY <2>3, <2>5, <2>6, <3>1, NoFlow
    <3>3. b.first <= cursor /\ b.last <= posted /\ b.first \in Nat
      BY <3>2, NamesDiffer DEF BatchBook, Batches
    <3> QED BY <1>0, <2>1, <2>3, <2>4, <3>3
  <2>7. \A b \in Batches : (\E t \in Sessions : acking'[t] = b) => IsTold(b)'
    BY <2>3, <2>5, NamesDiffer DEF BatchBook, IsTold
  <2>8. NothingAckedUntold'
    <3>1. ASSUME NEW e \in 1 .. cursor'
          PROVE  \E r \in told' : r.item \in Batches /\ r.item.first < e /\ e <= r.item.last
      <4>1. CASE e \in 1 .. cursor BY <2>3, <4>1 DEF BatchBook, NothingAckedUntold
      <4>2. CASE e \notin 1 .. cursor
        <5>1. acking[s].first < e /\ e <= acking[s].last BY <1>0, <2>1, <2>2, <2>4, <3>1, <4>2
        <5> QED BY <2>1, <2>2, <2>3, <5>1 DEF IsTold
      <4> QED BY <4>1, <4>2
    <3> QED BY <3>1 DEF NothingAckedUntold
  <2> QED BY <2>6, <2>7, <2>8 DEF BatchBook
<1>21. ASSUME NEW s \in Sessions, Drain(s) PROVE BatchBook'
  <2>1. \A b \in Batches : Present(b)' => Present(b) BY <1>0, <1>21, DrainFlow
  <2>2. UNCHANGED <<posted, cursor, acking, told>> BY <1>21 DEF Drain
  <2> QED BY <1>0, <2>1, <2>2, BatchesKept
<1>22. ASSUME NEW s \in Sessions, DrainTurn(s) PROVE BatchBook'
  <2>1. \A b \in Batches : Present(b)' => Present(b) BY <1>0, <1>22, DrainTurnFlow
  <2>2. UNCHANGED <<posted, cursor, acking>> /\ told \subseteq told' BY <1>22 DEF DrainTurn, Tell
  <2> QED BY <1>0, <2>1, <2>2, BatchesKept
<1>23. ASSUME NEW s \in Sessions, DrainBreak(s) PROVE BatchBook'
  <2>1. \A b \in Batches : Present(b)' => Present(b) BY <1>0, <1>23, DrainBreakFlow
  <2>2. UNCHANGED <<posted, cursor, acking, told>> BY <1>23 DEF DrainBreak
  <2> QED BY <1>0, <2>1, <2>2, BatchesKept
<1>24. ASSUME NEW s \in Sessions, PlaceFails(s) PROVE BatchBook'
  <2>1. \A b \in Batches : Present(b)' => Present(b) BY <1>0, <1>24, PlaceTurnFlow
  <2>2. UNCHANGED <<posted, cursor, acking, told>> BY <1>24 DEF PlaceFails
  <2> QED BY <1>0, <2>1, <2>2, BatchesKept
<1>25. ASSUME NEW s \in Sessions, DrainFails(s) PROVE BatchBook'
  <2>1. \A b \in Batches : Present(b)' => Present(b) BY <1>0, <1>25, DrainTurnFlow
  <2>2. UNCHANGED <<posted, cursor, acking, told>> BY <1>25 DEF DrainFails
  <2> QED BY <1>0, <2>1, <2>2, BatchesKept
<1> QED BY <1>1, <1>2, <1>3, <1>4, <1>5, <1>6, <1>7, <1>8, <1>9, <1>10, <1>11, <1>12, <1>13,
       <1>14, <1>15, <1>16, <1>17, <1>18, <1>19, <1>20, <1>21, <1>22, <1>23, <1>24,
       <1>25 DEF Next, PollerStep, TurnStep

-----------------------------------------------------------------------------
(* Nothing is dropped.                                                     *)

\* Every item that leaves the places of a step is told, read, or noted as drained, and
\* no batch is marked that is in no place.
LEMMA DropsExplained ==
  ASSUME Typed, DropBook, UNCHANGED plan, exited \subseteq exited', exited' \subseteq plan.work,
         consumed \subseteq consumed', drained \subseteq drained', failed \subseteq failed',
         told \subseteq told',
         MemoryLives' => MemoryLives,
         \A p \in exited' \ exited : Present(p)',
         MemoryLives' => \A p \in exited : Present(p) =>
                     Present(p)' \/ IsTold(p)' \/ p \in consumed' \cup drained' \cup failed',
         \A b \in pending' : b \in pending \/ Present(b)',
         \A b \in pending' : Present(b) =>
            Present(b)' \/ b \in drained' \/ \E s \in Sessions : acking'[s] = b,
         \A b \in pending' : \A s \in Sessions : acking[s] = b => acking'[s] = b
  PROVE  DropBook'
<1>1. \A e : IsTold(e) => IsTold(e)' BY DEF IsTold
<1>2. ASSUME MemoryLives', NEW p \in exited'
      PROVE  Present(p)' \/ IsTold(p)' \/ p \in consumed' \cup drained' \cup failed'
  BY <1>1, <1>2 DEF DropBook
<1>3. ASSUME NEW b \in pending'
      PROVE  Present(b)' \/ b \in drained' \/ \E s \in Sessions : acking'[s] = b
  BY <1>3 DEF DropBook
<1> QED BY <1>2, <1>3 DEF DropBook

LEMMA StepDrops ==
  ASSUME Typed, Handling, DropBook, Next
  PROVE  DropBook'
<1> USE DEF kanban, delegations, processes, places, sessions, telling, bounds
<1>0. /\ PlacesTyped /\ exited \subseteq Procs /\ exited \subseteq Items /\ pending \subseteq Items
      /\ pending \subseteq Batches
      /\ exited \subseteq plan.work
      /\ NoItem \notin Items /\ Procs \cap Delegs = {} /\ Batches \cap (Procs \cup Delegs) = {}
  BY NamesDiffer DEF Typed, ProcessesTyped, PostsTyped, DropBook
<1>1. ASSUME NEW p \in Procs, Exit(p) PROVE DropBook'
  <2>1. UNCHANGED <<plan, consumed, drained, told, pending, acking, crashes, failed>> /\ exited' = exited \cup {p} /\ p \in plan.work
    BY <1>1 DEF Exit
  <2>2. p \in Items /\ queue' = Append(queue, p) /\ UNCHANGED <<hand, deferred, rest>>
    BY <1>1, NamesDiffer DEF Exit
  <2>3. \A e : Present(e)' <=> Present(e) \/ e = p BY <2>2, EntersFlow
  <2>4. MemoryLives' => MemoryLives BY <2>1 DEF MemoryLives
  <2> QED BY <1>0, <2>1, <2>3, <2>4, DropsExplained
<1>2. ASSUME NEW p \in Procs, Consume(p) PROVE DropBook'
  <2>1. UNCHANGED <<plan, exited, drained, told, pending, acking, crashes, failed>> /\ consumed \subseteq consumed'
    BY <1>2 DEF Consume
  <2>2. \A e : Present(e)' <=> Present(e) BY <1>2, NoFlow DEF Consume
  <2>3. MemoryLives' => MemoryLives BY <2>1 DEF MemoryLives
  <2> QED BY <1>0, <2>1, <2>2, <2>3, DropsExplained
<1>3. ASSUME NEW d \in Delegs, NEW s \in Sessions, Dispatch(d, s) PROVE DropBook'
  <2>1. UNCHANGED <<plan, exited, consumed, drained, told, pending, acking, crashes, failed>>
    BY <1>3 DEF Dispatch
  <2>2. \A e : Present(e)' <=> Present(e) BY <1>3, NoFlow DEF Dispatch
  <2>3. MemoryLives' => MemoryLives BY <2>1 DEF MemoryLives
  <2> QED BY <1>0, <2>1, <2>2, <2>3, DropsExplained
<1>4. ASSUME NEW d \in Delegs, Submit(d) PROVE DropBook'
  <2>1. UNCHANGED <<plan, exited, consumed, drained, told, pending, acking, crashes, failed>>
    BY <1>4 DEF Submit
  <2>2. \A e : Present(e)' <=> Present(e) BY <1>4, NoFlow DEF Submit
  <2>3. MemoryLives' => MemoryLives BY <2>1 DEF MemoryLives
  <2> QED BY <1>0, <2>1, <2>2, <2>3, DropsExplained
<1>5. ASSUME NEW d \in Delegs, Finalize(d) PROVE DropBook'
  <2>1. UNCHANGED <<plan, exited, consumed, drained, told, pending, acking, crashes, failed>>
    BY <1>5 DEF Finalize
  <2>2. \A e : Present(e)' <=> Present(e) BY <1>5, NoFlow DEF Finalize
  <2>3. MemoryLives' => MemoryLives BY <2>1 DEF MemoryLives
  <2> QED BY <1>0, <2>1, <2>2, <2>3, DropsExplained
<1>6. ASSUME NEW d \in Delegs, Push(d) PROVE DropBook'
  <2>1. UNCHANGED <<plan, exited, consumed, drained, told, pending, acking, crashes, failed>>
    BY <1>6 DEF Push
  <2>2. d \in Items /\ queue' = Append(queue, d) /\ UNCHANGED <<hand, deferred, rest>>
    BY <1>6, NamesDiffer DEF Push
  <2>3. \A e : Present(e)' <=> Present(e) \/ e = d BY <2>2, EntersFlow
  <2>4. MemoryLives' => MemoryLives BY <2>1 DEF MemoryLives
  <2> QED BY <1>0, <2>1, <2>3, <2>4, DropsExplained
<1>7. CASE Post
  <2>1. UNCHANGED <<plan, exited, consumed, drained, told, pending, acking, crashes, failed>>
    BY <1>7 DEF Post
  <2>2. \A e : Present(e)' <=> Present(e) BY <1>7, NoFlow DEF Post
  <2>3. MemoryLives' => MemoryLives BY <2>1 DEF MemoryLives
  <2> QED BY <1>0, <2>1, <2>2, <2>3, DropsExplained
<1>8. CASE Crash
  <2>1. /\ UNCHANGED <<plan, exited, consumed, drained, failed, told>> /\ pending' = {}
        /\ crashes' = crashes + 1
    BY <1>8 DEF Crash
  <2>2. crashes \in Nat BY ScenarioTyped DEF Typed
  <2>3. MemoryLives' => plan.work \cap Procs = {} BY <2>1, <2>2 DEF MemoryLives
  <2>4. MemoryLives' => MemoryLives BY <2>3 DEF MemoryLives
  <2>5. MemoryLives' => exited = {} BY <1>0, <2>3
  <2> QED BY <1>0, <2>1, <2>4, <2>5, DropsExplained
<1>9. ASSUME NEW s \in Sessions, UserTurn(s) PROVE DropBook'
  <2>1. UNCHANGED <<plan, exited, consumed, drained, told, pending, acking, crashes, failed>>
    BY <1>9 DEF UserTurn
  <2>2. \A e : Present(e)' <=> Present(e) BY <1>9, NoFlow DEF UserTurn
  <2>3. MemoryLives' => MemoryLives BY <2>1 DEF MemoryLives
  <2> QED BY <1>0, <2>1, <2>2, <2>3, DropsExplained
<1>10. ASSUME NEW s \in Sessions, TurnEnds(s) PROVE DropBook'
  <2>1. UNCHANGED <<plan, exited, consumed, drained, told, pending, acking, crashes, failed>>
    BY <1>10 DEF TurnEnds
  <2>2. \A e : Present(e)' <=> Present(e) BY <1>10, NoFlow DEF TurnEnds
  <2>3. MemoryLives' => MemoryLives BY <2>1 DEF MemoryLives
  <2> QED BY <1>0, <2>1, <2>2, <2>3, DropsExplained
<1>11. ASSUME NEW s \in Sessions, Close(s) PROVE DropBook'
  <2>1. UNCHANGED <<plan, exited, consumed, drained, told, pending, acking, crashes, failed>>
    BY <1>11 DEF Close
  <2>2. \A e : Present(e)' <=> Present(e) BY <1>11, NoFlow DEF Close
  <2>3. MemoryLives' => MemoryLives BY <2>1 DEF MemoryLives
  <2> QED BY <1>0, <2>1, <2>2, <2>3, DropsExplained
<1>12. ASSUME NEW s \in Sessions, FinalizeSession(s) PROVE DropBook'
  <2>1. UNCHANGED <<plan, exited, consumed, drained, told, pending, acking, crashes, failed>>
    BY <1>12 DEF FinalizeSession
  <2>2. \A e : Present(e)' <=> Present(e) BY <1>12, NoFlow DEF FinalizeSession
  <2>3. MemoryLives' => MemoryLives BY <2>1 DEF MemoryLives
  <2> QED BY <1>0, <2>1, <2>2, <2>3, DropsExplained
<1>13. ASSUME NEW s \in Sessions, Open(s) PROVE DropBook'
  <2>1. UNCHANGED <<plan, exited, consumed, drained, told, pending, acking, crashes, failed>>
    BY <1>13 DEF Open
  <2>2. \A e : Present(e)' <=> Present(e) BY <1>13, NoFlow DEF Open
  <2>3. MemoryLives' => MemoryLives BY <2>1 DEF MemoryLives
  <2> QED BY <1>0, <2>1, <2>2, <2>3, DropsExplained
<1>14. ASSUME NEW s \in Sessions, Discover(s) PROVE DropBook'
  <2> DEFINE x == [first |-> cursor, last |-> posted]
  <2>0. x \in Items
    <3>1. cursor \in 0 .. MaxPosts /\ posted \in 1 .. MaxPosts
      BY <1>14, NamesDiffer DEF Discover, Typed, PostsTyped
    <3> QED BY <3>1, NamesDiffer DEF Batches
  <2>1. UNCHANGED <<plan, exited, consumed, drained, told, acking, crashes, failed>> /\ pending' = pending \cup {x}
    BY <1>14 DEF Discover
  <2>2. queue' = Append(queue, x) /\ UNCHANGED <<hand, deferred, rest>> BY <1>14 DEF Discover
  <2> HIDE DEF x
  <2>3. \A e : Present(e)' <=> Present(e) \/ e = x BY <2>0, <2>2, EntersFlow
  <2>4. MemoryLives' => MemoryLives BY <2>1 DEF MemoryLives
  <2> QED BY <1>0, <2>1, <2>3, <2>4, DropsExplained
<1>15. ASSUME NEW s \in Sessions, Take(s) PROVE DropBook'
  <2>1. UNCHANGED <<plan, exited, consumed, drained, told, pending, acking, crashes, failed>>
    BY <1>15 DEF Take
  <2>2. \A e \in Items : Present(e) => Present(e)' \/ Dropped(e) \/ e \in consumed
    BY <1>15, TakeFlow
  <2>3. \A e \in Procs \cup Batches : ~Dropped(e) BY <1>0 DEF Dropped
  <2>4. \A b \in Batches : b \notin consumed BY <1>0 DEF Typed, ProcessesTyped
  <2>5. MemoryLives' => MemoryLives BY <2>1 DEF MemoryLives
  <2> QED BY <1>0, <2>1, <2>2, <2>3, <2>4, <2>5, DropsExplained
<1>16. ASSUME NEW s \in Sessions, TakeLast(s) PROVE DropBook'
  <2> DEFINE h == Head(queue)
  <2>1. /\ UNCHANGED <<plan, exited, consumed, drained, told, acking, crashes, failed>> /\ pending' \subseteq pending
        /\ h \in Batches => h \notin pending'
    BY <1>16 DEF TakeLast
  <2>2. \A e \in Items : Present(e) => Present(e)' \/ (e = h /\ (Dropped(e) \/ e \in Batches \cup consumed))
    BY <1>16, TakeLastFlow
  <2>3. \A e \in Procs \cup Batches : ~Dropped(e) BY <1>0 DEF Dropped
  <2>4. \A b \in Batches : b \notin consumed BY <1>0 DEF Typed, ProcessesTyped
  <2>5. MemoryLives' => MemoryLives BY <2>1 DEF MemoryLives
  <2> HIDE DEF h
  <2>6. \A p \in exited : Present(p) => Present(p)' \/ p \in consumed'
    BY <1>0, <2>1, <2>2, <2>3
  <2>7. \A b \in pending' : Present(b) => Present(b)'
    BY <1>0, <2>1, <2>2, <2>3, <2>4
  <2> QED BY <1>0, <2>1, <2>5, <2>6, <2>7, DropsExplained
<1>17. ASSUME NEW s \in Sessions, Quit(s) PROVE DropBook'
  <2>1. UNCHANGED <<plan, exited, consumed, drained, told, pending, acking, crashes, failed>>
    BY <1>17 DEF Quit
  <2>2. \A e \in Items : Present(e)' <=> Present(e) BY <1>17, QuitFlow
  <2>3. MemoryLives' => MemoryLives BY <2>1 DEF MemoryLives
  <2> QED BY <1>0, <2>1, <2>2, <2>3, DropsExplained
<1>18. ASSUME NEW s \in Sessions, PlaceTurn(s) PROVE DropBook'
  <2>1. UNCHANGED <<plan, exited, consumed, drained, pending, crashes, failed>> BY <1>18 DEF PlaceTurn
  <2>2. told \subseteq told' /\ \A e : e = hand[s] => IsTold(e)' BY <1>18, TellsIt DEF PlaceTurn
  <2>3. \A e \in Items : Present(e) => Present(e)' \/ e = hand[s] BY <1>18, PlaceTurnFlow
  <2>4. acking[s] = NoItem BY <1>18 DEF PlaceTurn, Handling
  <2>5. /\ \A t \in Sessions : t # s => acking'[t] = acking[t]
        /\ hand[s] \in Batches => acking'[s] = hand[s]
    BY <1>0, <1>18 DEF PlaceTurn, PlacesTyped
  <2>6. MemoryLives' => MemoryLives BY <2>1 DEF MemoryLives
  <2>7. \A b \in Batches : \A t \in Sessions : acking[t] = b => acking'[t] = b
    BY <1>0, <2>4, <2>5, NamesDiffer
  <2>8. \A b \in Batches : Present(b) => Present(b)' \/ \E t \in Sessions : acking'[t] = b
    BY <1>0, <2>3, <2>5, NamesDiffer
  <2>9. \A p \in exited : Present(p) => Present(p)' \/ IsTold(p)' BY <1>0, <2>2, <2>3
  <2> QED BY <1>0, <2>1, <2>2, <2>6, <2>7, <2>8, <2>9, DropsExplained
<1>19. ASSUME NEW s \in Sessions, PutBack(s) PROVE DropBook'
  <2>1. UNCHANGED <<plan, exited, consumed, drained, told, pending, acking, crashes, failed>>
    BY <1>19 DEF PutBack
  <2>2. \A e \in Items : Present(e)' <=> Present(e) BY <1>19, PutBackFlow
  <2>3. MemoryLives' => MemoryLives BY <2>1 DEF MemoryLives
  <2> QED BY <1>0, <2>1, <2>2, <2>3, DropsExplained
<1>20. ASSUME NEW s \in Sessions, Ack(s) PROVE DropBook'
  <2>1. UNCHANGED <<plan, exited, consumed, drained, told, crashes, failed>> /\ pending' = pending \ {acking[s]}
    BY <1>20 DEF Ack
  <2>2. \A e : Present(e)' <=> Present(e) BY <1>20, NoFlow DEF Ack
  <2>3. \A t \in Sessions : t # s => acking'[t] = acking[t] BY <1>0, <1>20 DEF Ack, PlacesTyped
  <2>4. \A b \in pending' : \A t \in Sessions : acking[t] = b => acking'[t] = b BY <2>1, <2>3
  <2>5. MemoryLives' => MemoryLives BY <2>1 DEF MemoryLives
  <2> QED BY <1>0, <2>1, <2>2, <2>4, <2>5, DropsExplained
<1>21. ASSUME NEW s \in Sessions, Drain(s) PROVE DropBook'
  <2>1. UNCHANGED <<plan, exited, consumed, drained, told, pending, acking, crashes, failed>>
    BY <1>21 DEF Drain
  <2>2. \A e \in Items : Present(e) => Present(e)' \/ e \in consumed
    BY <1>21, DrainFlow
  <2>4. \A b \in Batches : b \notin consumed BY <1>0 DEF Typed, ProcessesTyped
  <2>5. MemoryLives' => MemoryLives BY <2>1 DEF MemoryLives
  <2> QED BY <1>0, <2>1, <2>2, <2>4, <2>5, DropsExplained
<1>22. ASSUME NEW s \in Sessions, DrainTurn(s) PROVE DropBook'
  <2> DEFINE h == Head(rest[s])
  <2>1. UNCHANGED <<plan, exited, consumed, pending, acking, crashes, failed>> /\ drained \subseteq drained'
    BY <1>22 DEF DrainTurn
  <2>2. told \subseteq told' /\ \A e : e = h => IsTold(e)' BY <1>22, TellsIt DEF DrainTurn
  <2>3. \A e \in Items : Present(e) => Present(e)' \/ e = h BY <1>22, DrainTurnFlow
  <2>4. h \in Batches => h \in drained' BY <1>22 DEF DrainTurn
  <2>5. MemoryLives' => MemoryLives BY <2>1 DEF MemoryLives
  <2> HIDE DEF h
  <2>6. \A p \in exited : Present(p) => Present(p)' \/ IsTold(p)' BY <1>0, <2>2, <2>3
  <2>7. \A b \in pending : Present(b) => Present(b)' \/ b \in drained' BY <1>0, <2>3, <2>4
  <2> QED BY <1>0, <2>1, <2>2, <2>5, <2>6, <2>7, DropsExplained
<1>23. ASSUME NEW s \in Sessions, DrainBreak(s) PROVE DropBook'
  <2>1. /\ UNCHANGED <<plan, exited, consumed, told, pending, acking, crashes, failed>>
        /\ drained' = drained \cup ToSet(Tail(rest[s]))
    BY <1>23 DEF DrainBreak
  <2>2. \A e \in Items : Present(e) => Present(e)' \/ e \in drained' BY <1>23, <2>1, DrainBreakFlow
  <2>3. MemoryLives' => MemoryLives BY <2>1 DEF MemoryLives
  <2> QED BY <1>0, <2>1, <2>2, <2>3, DropsExplained
<1>24. ASSUME NEW s \in Sessions, PlaceFails(s) PROVE DropBook'
  <2> DEFINE h == hand[s]
  <2>1. /\ UNCHANGED <<plan, exited, consumed, drained, told, acking, crashes>>
        /\ failed \subseteq failed' /\ pending' \subseteq pending
    BY <1>24 DEF PlaceFails
  <2>2. \A e \in Items : Present(e) => Present(e)' \/ e = h BY <1>24, PlaceTurnFlow
  <2>3. (h \in Batches => h \notin pending') /\ (h \notin Batches => h \in failed')
    BY <1>24 DEF PlaceFails
  <2>4. MemoryLives' => MemoryLives BY <2>1 DEF MemoryLives
  <2> HIDE DEF h
  <2>5. \A p \in exited : Present(p) => Present(p)' \/ p \in failed' BY <1>0, <2>2, <2>3
  <2>6. \A b \in pending' : Present(b) => Present(b)' BY <1>0, <2>1, <2>2, <2>3
  <2> QED BY <1>0, <2>1, <2>4, <2>5, <2>6, DropsExplained
<1>25. ASSUME NEW s \in Sessions, DrainFails(s) PROVE DropBook'
  <2> DEFINE h == Head(rest[s])
  <2>1. /\ UNCHANGED <<plan, exited, consumed, told, pending, acking, crashes>>
        /\ failed \subseteq failed' /\ drained \subseteq drained'
    BY <1>25 DEF DrainFails
  <2>2. \A e \in Items : Present(e) => Present(e)' \/ e = h BY <1>25, DrainTurnFlow
  <2>3. (h \in Batches => h \in drained') /\ (h \notin Batches => h \in failed')
    BY <1>25 DEF DrainFails
  <2>4. MemoryLives' => MemoryLives BY <2>1 DEF MemoryLives
  <2> HIDE DEF h
  <2>5. \A p \in exited : Present(p) => Present(p)' \/ p \in failed' BY <1>0, <2>2, <2>3
  <2>6. \A b \in pending : Present(b) => Present(b)' \/ b \in drained' BY <1>0, <2>2, <2>3
  <2> QED BY <1>0, <2>1, <2>4, <2>5, <2>6, DropsExplained
<1> QED BY <1>1, <1>2, <1>3, <1>4, <1>5, <1>6, <1>7, <1>8, <1>9, <1>10, <1>11, <1>12, <1>13,
       <1>14, <1>15, <1>16, <1>17, <1>18, <1>19, <1>20, <1>21, <1>22, <1>23, <1>24,
       <1>25 DEF Next, PollerStep, TurnStep

-----------------------------------------------------------------------------
(* One place at a time.                                                    *)

LEMMA EntersPlace ==
  ASSUME Typed, NEW x \in Items, queue' = Append(queue, x), UNCHANGED <<hand, deferred, rest>>,
         NEW e \in Items, InOnePlace(e), x = e => ~Present(e)
  PROVE  InOnePlace(e)'
<1>1. PlacesTyped BY DEF Typed
<1>2. ToSet(queue') = ToSet(queue) \cup {x} BY <1>1, Enters
<1>3. Single(queue, e) /\ (x = e => e \notin ToSet(queue)) BY DEF InOnePlace, Present
<1>4. Single(queue', e) BY <1>1, <1>3, Enters
<1> QED BY <1>2, <1>4 DEF InOnePlace, Present

LEMMA TakePlace ==
  ASSUME Typed, NEW s \in Sessions, Take(s), NEW e \in Items, InOnePlace(e)
  PROVE  InOnePlace(e)'
<1> DEFINE h == Head(queue)
<1>1. PlacesTyped BY DEF Typed
<1>2. /\ ToSet(queue') \subseteq ToSet(queue) /\ h \in ToSet(queue)
      /\ \A x : Single(queue, x) => Single(queue', x)
      /\ queue' = Tail(queue) /\ Single(queue, h) => h \notin ToSet(queue')
  BY <1>1, LeavesTheHead DEF Take
<1>3. Single(queue, e) /\ Single(queue', e) BY <1>2 DEF InOnePlace
<1>4. /\ hand[s] = NoItem /\ \A t \in Sessions : t # s => hand'[t] = hand[t]
      /\ hand'[s] = NoItem \/ (hand'[s] = h /\ queue' = Tail(queue))
      /\ UNCHANGED <<deferred, rest>>
  BY <1>1 DEF Take, Idle, PlacesTyped
<1>5. e # NoItem BY NamesDiffer
<1> HIDE DEF h
<1>6. hand'[s] = e => e \in ToSet(queue) /\ e \notin ToSet(queue') BY <1>2, <1>3, <1>4, <1>5
<1> QED BY <1>2, <1>3, <1>4, <1>6 DEF InOnePlace

LEMMA TakeLastPlace ==
  ASSUME Typed, NEW s \in Sessions, TakeLast(s), NEW e \in Items, InOnePlace(e)
  PROVE  InOnePlace(e)'
<1> DEFINE h == Head(queue)
<1>1. PlacesTyped BY DEF Typed
<1>2. /\ ToSet(queue') \subseteq ToSet(queue) /\ h \in ToSet(queue) /\ h \in Items
      /\ \A x : Single(queue, x) => Single(queue', x)
      /\ Single(queue, h) => h \notin ToSet(queue')
  BY <1>1, LeavesTheHead DEF TakeLast
<1>3. Single(queue, e) /\ Single(queue', e) BY <1>2 DEF InOnePlace
<1>4. /\ hand[s] = NoItem
      /\ \A t \in Sessions : t # s => hand'[t] = hand[t] /\ deferred'[t] = deferred[t]
      /\ UNCHANGED rest /\ deferred[s] \in Seq(Items)
  BY <1>1 DEF TakeLast, Idle, PlacesTyped
<1>5. e # NoItem BY NamesDiffer
<1>6. \/ hand'[s] = NoItem /\ deferred'[s] = deferred[s]
      \/ hand'[s] = h /\ deferred'[s] = deferred[s]
      \/ hand'[s] = NoItem /\ deferred'[s] = Append(deferred[s], h)
  BY <1>1, <1>4 DEF TakeLast, PlacesTyped
<1> HIDE DEF h
<1>7. CASE hand'[s] = NoItem /\ deferred'[s] = deferred[s]
  BY <1>2, <1>3, <1>4, <1>5, <1>7 DEF InOnePlace
<1>8. CASE hand'[s] = h /\ deferred'[s] = deferred[s]
  <2>1. hand'[s] = e => e \in ToSet(queue) /\ e \notin ToSet(queue') BY <1>2, <1>3, <1>8
  <2> QED BY <1>2, <1>3, <1>4, <1>8, <2>1 DEF InOnePlace
<1>9. CASE hand'[s] = NoItem /\ deferred'[s] = Append(deferred[s], h)
  <2>1. ToSet(deferred'[s]) = ToSet(deferred[s]) \cup {h} BY <1>2, <1>4, <1>9, AppendHolds
  <2>2. h = e => e \in ToSet(queue) /\ e \notin ToSet(queue') BY <1>2, <1>3
  <2>3. Single(deferred[s], e) /\ (h = e => e \notin ToSet(deferred[s])) BY <2>2 DEF InOnePlace
  <2>4. Single(deferred'[s], e) BY <1>2, <1>4, <1>9, <2>3, AppendHolds
  <2>5. \A t \in Sessions : Single(deferred'[t], e) /\ Single(rest'[t], e)
    BY <1>4, <2>4 DEF InOnePlace
  <2> QED BY <1>2, <1>3, <1>4, <1>5, <1>9, <2>1, <2>2, <2>5 DEF InOnePlace
<1> QED BY <1>6, <1>7, <1>8, <1>9

LEMMA QuitPlace ==
  ASSUME Typed, NEW s \in Sessions, Quit(s), NEW e \in Items, InOnePlace(e)
  PROVE  InOnePlace(e)'
<1>1. PlacesTyped BY DEF Typed
<1>2. /\ queue' = deferred[s] /\ deferred'[s] = <<>>
      /\ \A t \in Sessions : t # s => deferred'[t] = deferred[t]
      /\ UNCHANGED <<hand, rest>>
  BY <1>1 DEF Quit, PlacesTyped
<1>3. ToSet(deferred'[s]) = {} /\ Single(deferred'[s], e) BY <1>2, NothingHeld
<1> QED BY <1>2, <1>3 DEF InOnePlace

LEMMA PlaceTurnPlace ==
  ASSUME Typed, NEW s \in Sessions, PlaceTurn(s) \/ PlaceFails(s), NEW e \in Items, InOnePlace(e)
  PROVE  InOnePlace(e)' /\ (hand[s] = e => ~Present(e)')
<1>1. PlacesTyped BY DEF Typed
<1>2. /\ hand'[s] = NoItem /\ \A t \in Sessions : t # s => hand'[t] = hand[t]
      /\ UNCHANGED <<queue, deferred, rest>>
  BY <1>1 DEF PlaceTurn, PlaceFails, PlacesTyped
<1>3. e # NoItem BY NamesDiffer
<1> QED BY <1>2, <1>3 DEF InOnePlace, Present

LEMMA PutBackPlace ==
  ASSUME Typed, NEW s \in Sessions, PutBack(s), NEW e \in Items, InOnePlace(e)
  PROVE  InOnePlace(e)'
<1>1. PlacesTyped BY DEF Typed
<1>2. /\ hand'[s] = NoItem /\ deferred'[s] = <<>>
      /\ \A t \in Sessions : t # s => hand'[t] = hand[t] /\ deferred'[t] = deferred[t]
      /\ UNCHANGED rest
  BY <1>1 DEF PutBack, PlacesTyped
<1> DEFINE h == hand[s]
           d == deferred[s]
           a == Append(queue, h)
<1>3. h \in Items /\ queue \in Seq(Items) /\ d \in Seq(Items) /\ queue' = a \o d
  BY <1>1 DEF PutBack, PlacesTyped
<1>4. /\ Single(queue, e) /\ Single(d, e) /\ (h = e => e \notin ToSet(queue))
      /\ (e \in ToSet(queue) \/ h = e => e \notin ToSet(d))
  BY DEF InOnePlace
<1>5. a \in Seq(Items) /\ ToSet(a) = ToSet(queue) \cup {h} /\ Single(a, e)
  BY <1>3, <1>4, AppendHolds
<1> HIDE DEF a, d, h
<1>6. e \in ToSet(a) => e \notin ToSet(d) BY <1>4, <1>5
<1>7. ToSet(queue') = ToSet(queue) \cup {h} \cup ToSet(d) /\ Single(queue', e)
  BY <1>3, <1>4, <1>5, <1>6, ConcatHolds
<1>8. ToSet(deferred'[s]) = {} /\ Single(deferred'[s], e) /\ e # NoItem
  BY <1>2, NothingHeld, NamesDiffer
<1> QED BY <1>2, <1>7, <1>8 DEF InOnePlace, d, h

LEMMA DrainPlace ==
  ASSUME Typed, NEW s \in Sessions, Drain(s), NEW e \in Items, InOnePlace(e)
  PROVE  InOnePlace(e)'
<1>1. PlacesTyped BY DEF Typed
<1>2. CASE queue = <<>>
  <2>1. UNCHANGED <<queue, hand, deferred, rest>> BY <1>2 DEF Drain
  <2> QED BY <2>1 DEF InOnePlace
<1>3. CASE queue # <<>>
  <2> DEFINE h == Head(queue)
  <2>1. /\ ToSet(queue) = {h} \cup ToSet(queue')
        /\ ToSet(rest'[s]) \subseteq ToSet(rest[s]) \cup {h}
        /\ \A t \in Sessions : t # s => rest'[t] = rest[t]
        /\ UNCHANGED <<hand, deferred>>
        /\ Single(queue, e) => Single(queue', e) /\ (h = e => e \notin ToSet(queue'))
        /\ Single(rest[s], e) /\ (h = e => e \notin ToSet(rest[s])) => Single(rest'[s], e)
    BY <1>1, <1>3, DrainMoves
  <2> HIDE DEF h
  <2>2. Single(queue', e) /\ (h = e => e \notin ToSet(queue')) BY <2>1 DEF InOnePlace
  <2>3. \A t \in Sessions : Single(deferred'[t], e) /\ Single(rest'[t], e)
    BY <2>1 DEF InOnePlace
  <2>4. CASE h = e
    <3>1. \A t \in Sessions : hand[t] # e /\ e \notin ToSet(deferred[t]) /\ e \notin ToSet(rest[t])
      BY <2>1, <2>4 DEF InOnePlace
    <3>2. e \notin ToSet(queue') BY <2>2, <2>4
    <3> QED BY <2>1, <2>2, <2>3, <3>1, <3>2 DEF InOnePlace
  <2>5. CASE h # e
    <3>1. e \in ToSet(queue') <=> e \in ToSet(queue) BY <2>1, <2>5
    <3>2. \A t \in Sessions : e \in ToSet(rest'[t]) => e \in ToSet(rest[t]) BY <2>1, <2>5
    <3> QED BY <2>1, <2>2, <2>3, <3>1, <3>2 DEF InOnePlace
  <2> QED BY <2>4, <2>5
<1> QED BY <1>2, <1>3

LEMMA DrainTurnPlace ==
  ASSUME Typed, NEW s \in Sessions, DrainTurn(s) \/ DrainFails(s), NEW e \in Items, InOnePlace(e)
  PROVE  InOnePlace(e)' /\ (Head(rest[s]) = e => ~Present(e)')
<1>1. PlacesTyped BY DEF Typed
<1> DEFINE h == Head(rest[s])
           r == Tail(rest[s])
<1>2. /\ rest'[s] = r /\ \A t \in Sessions : t # s => rest'[t] = rest[t]
      /\ UNCHANGED <<queue, hand, deferred>> /\ rest[s] \in Seq(Items) /\ rest[s] # <<>>
  BY <1>1 DEF DrainTurn, DrainFails, PlacesTyped
<1>3. Single(rest[s], e) BY DEF InOnePlace
<1>4. ToSet(rest[s]) = {h} \cup ToSet(r) /\ Single(r, e) /\ (h = e => e \notin ToSet(r))
  BY <1>2, <1>3, TailHolds
<1> HIDE DEF h, r
<1>5. \A t \in Sessions : Single(rest'[t], e) BY <1>2, <1>4 DEF InOnePlace
<1>6. InOnePlace(e)' BY <1>2, <1>4, <1>5 DEF InOnePlace
<1>7. h = e => ~Present(e)' BY <1>2, <1>4 DEF InOnePlace, Present
<1> QED BY <1>6, <1>7 DEF h

LEMMA DrainBreakPlace ==
  ASSUME Typed, NEW s \in Sessions, DrainBreak(s), NEW e \in Items, InOnePlace(e)
  PROVE  InOnePlace(e)'
<1>1. PlacesTyped BY DEF Typed
<1> DEFINE h == Head(rest[s])
<1>2. /\ queue' = Append(queue, h) /\ rest'[s] = <<>>
      /\ \A t \in Sessions : t # s => rest'[t] = rest[t]
      /\ UNCHANGED <<hand, deferred>> /\ rest[s] \in Seq(Items) /\ rest[s] # <<>>
  BY <1>1 DEF DrainBreak, PlacesTyped
<1>3. h \in Items /\ h \in ToSet(rest[s]) BY <1>2, TailHolds
<1> HIDE DEF h
<1>4. ToSet(queue') = ToSet(queue) \cup {h} BY <1>1, <1>2, <1>3, Enters
<1>5. Single(queue, e) /\ (h = e => e \notin ToSet(queue)) BY <1>3 DEF InOnePlace
<1>6. Single(queue', e) BY <1>1, <1>2, <1>3, <1>5, Enters
<1>7. ToSet(rest'[s]) = {} /\ Single(rest'[s], e) BY <1>2, NothingHeld
<1>8. \A t \in Sessions : Single(rest'[t], e) BY <1>2, <1>7 DEF InOnePlace
<1> QED BY <1>2, <1>3, <1>4, <1>6, <1>7, <1>8 DEF InOnePlace

LEMMA CrashPlace ==
  ASSUME Crash, NEW e \in Items
  PROVE  InOnePlace(e)'
<1>1. /\ queue' = <<>> /\ \A t \in Sessions : hand'[t] = NoItem /\ deferred'[t] = <<>> /\ rest'[t] = <<>>
  BY DEF Crash
<1>2. /\ ToSet(queue') = {} /\ \A t \in Sessions : ToSet(deferred'[t]) = {} /\ ToSet(rest'[t]) = {}
      /\ Single(queue', e) /\ \A t \in Sessions : Single(deferred'[t], e) /\ Single(rest'[t], e)
  BY <1>1, NothingHeld
<1> QED BY <1>1, <1>2, NamesDiffer DEF InOnePlace

LEMMA NoPlace ==
  ASSUME UNCHANGED <<queue, hand, deferred, rest>>, NEW e, InOnePlace(e)
  PROVE  InOnePlace(e)'
BY DEF InOnePlace

-----------------------------------------------------------------------------
(* Told once.                                                              *)

\* A step that puts nothing before anybody and tells nothing keeps the book of an item.
LEMMA OnceKept ==
  ASSUME NEW e, Once(e), InOnePlace(e)', Present(e)' => Present(e), Unborn(e)' => Unborn(e),
         UNCHANGED <<told, again>>
  PROVE  Once(e)'
<1>1. IsTold(e)' <=> IsTold(e) BY DEF IsTold
<1> QED BY <1>1 DEF Once

\* What a step tells was before somebody, and is not any more.
LEMMA OnceTold ==
  ASSUME NEW e, Once(e), InOnePlace(e)', Present(e)' => Present(e), Unborn(e)' => Unborn(e),
         NEW x, NEW s \in Sessions, NEW who, Tell(x, s, who),
         x = e => Present(e) /\ ~Present(e)'
  PROVE  Once(e)'
<1>0. /\ \A y : IsTold(y)' <=> IsTold(y) \/ y = x
      /\ \A y : y \in again' => y \in again \/ (y = x /\ IsTold(x))
  BY TellsIt
<1>1. (IsTold(e)' <=> IsTold(e) \/ e = x) /\ (e \in again' => e \in again \/ (e = x /\ IsTold(e)))
  BY <1>0
<1>2. CASE e = x BY <1>1, <1>2 DEF Once
<1>3. CASE e # x BY <1>1, <1>3 DEF Once
<1> QED BY <1>2, <1>3

StillUnborn == \A e \in Procs \cup Delegs : Unborn(e)' => Unborn(e)

LEMMA StepUnborn ==
  ASSUME Typed, OnceBook, Next
  PROVE  StillUnborn /\ Decided'
<1> USE DEF kanban, delegations, processes, places, sessions, telling, bounds, StillUnborn, Unborn, Decided
<1>0. /\ exited \subseteq Procs /\ DelegationsTyped /\ Procs \cap Delegs = {}
      /\ Decided
  BY NamesDiffer DEF Typed, ProcessesTyped, OnceBook
<1>1. ASSUME NEW p \in Procs, Exit(p) PROVE StillUnborn /\ Decided'
  BY <1>0, <1>1 DEF Exit
<1>2. ASSUME NEW p \in Procs, Consume(p) PROVE StillUnborn /\ Decided'
  BY <1>0, <1>2 DEF Consume
<1>3. ASSUME NEW d \in Delegs, NEW s \in Sessions, Dispatch(d, s) PROVE StillUnborn /\ Decided'
  BY <1>0, <1>3 DEF Dispatch, DelegationsTyped
<1>4. ASSUME NEW d \in Delegs, Submit(d) PROVE StillUnborn /\ Decided'
  BY <1>0, <1>4 DEF Submit, DelegationsTyped
<1>5. ASSUME NEW d \in Delegs, Finalize(d) PROVE StillUnborn /\ Decided'
  BY <1>0, <1>5 DEF Finalize, DelegationsTyped
<1>6. ASSUME NEW d \in Delegs, Push(d) PROVE StillUnborn /\ Decided'
  BY <1>0, <1>6 DEF Push, DelegationsTyped
<1>7. CASE Post BY <1>0, <1>7 DEF Post
<1>8. CASE Crash BY <1>0, <1>8 DEF Crash, DelegationsTyped
<1>9. ASSUME NEW s \in Sessions, UserTurn(s) PROVE StillUnborn /\ Decided'
  BY <1>0, <1>9 DEF UserTurn
<1>10. ASSUME NEW s \in Sessions, TurnEnds(s) PROVE StillUnborn /\ Decided'
  BY <1>0, <1>10 DEF TurnEnds
<1>11. ASSUME NEW s \in Sessions, Close(s) PROVE StillUnborn /\ Decided'
  BY <1>0, <1>11 DEF Close
<1>12. ASSUME NEW s \in Sessions, FinalizeSession(s) PROVE StillUnborn /\ Decided'
  BY <1>0, <1>12 DEF FinalizeSession, DelegationsTyped
<1>13. ASSUME NEW s \in Sessions, Open(s) PROVE StillUnborn /\ Decided'
  BY <1>0, <1>13 DEF Open
<1>14. ASSUME NEW s \in Sessions, Discover(s) PROVE StillUnborn /\ Decided'
  BY <1>0, <1>14 DEF Discover
<1>15. ASSUME NEW s \in Sessions, Take(s) PROVE StillUnborn /\ Decided'
  BY <1>0, <1>15 DEF Take
<1>16. ASSUME NEW s \in Sessions, TakeLast(s) PROVE StillUnborn /\ Decided'
  BY <1>0, <1>16 DEF TakeLast
<1>17. ASSUME NEW s \in Sessions, Quit(s) PROVE StillUnborn /\ Decided'
  BY <1>0, <1>17 DEF Quit
<1>18. ASSUME NEW s \in Sessions, PlaceTurn(s) PROVE StillUnborn /\ Decided'
  BY <1>0, <1>18 DEF PlaceTurn
<1>19. ASSUME NEW s \in Sessions, PutBack(s) PROVE StillUnborn /\ Decided'
  BY <1>0, <1>19 DEF PutBack
<1>20. ASSUME NEW s \in Sessions, Ack(s) PROVE StillUnborn /\ Decided'
  BY <1>0, <1>20 DEF Ack
<1>21. ASSUME NEW s \in Sessions, Drain(s) PROVE StillUnborn /\ Decided'
  BY <1>0, <1>21 DEF Drain
<1>22. ASSUME NEW s \in Sessions, DrainTurn(s) PROVE StillUnborn /\ Decided'
  BY <1>0, <1>22 DEF DrainTurn
<1>23. ASSUME NEW s \in Sessions, DrainBreak(s) PROVE StillUnborn /\ Decided'
  BY <1>0, <1>23 DEF DrainBreak
<1>24. ASSUME NEW s \in Sessions, PlaceFails(s) PROVE StillUnborn /\ Decided'
  BY <1>0, <1>24 DEF PlaceFails
<1>25. ASSUME NEW s \in Sessions, DrainFails(s) PROVE StillUnborn /\ Decided'
  BY <1>0, <1>25 DEF DrainFails
<1> QED BY <1>1, <1>2, <1>3, <1>4, <1>5, <1>6, <1>7, <1>8, <1>9, <1>10, <1>11, <1>12, <1>13,
       <1>14, <1>15, <1>16, <1>17, <1>18, <1>19, <1>20, <1>21, <1>22, <1>23, <1>24,
       <1>25 DEF Next, PollerStep, TurnStep

LEMMA StepOnce ==
  ASSUME Typed, Handling, OnceBook, Next
  PROVE  OnceBook'
<1> USE DEF kanban, delegations, processes, places, sessions, telling, bounds
<1>0. /\ Procs \cup Delegs \subseteq Items /\ PlacesTyped
      /\ Decided'
      /\ ProcessesTyped /\ DelegationsTyped /\ Procs \cap Delegs = {}
  BY NamesDiffer, StepUnborn DEF Typed
<1> SUFFICES ASSUME NEW e \in Procs \cup Delegs PROVE Once(e)'
  BY <1>0 DEF OnceBook
<1>a. e \in Items /\ Once(e) /\ InOnePlace(e) BY <1>0 DEF OnceBook, Once
<1>b. Unborn(e)' => Unborn(e) BY StepUnborn DEF StillUnborn
<1>1. ASSUME NEW p \in Procs, Exit(p) PROVE Once(e)'
  <2>1. /\ p \in Items /\ queue' = Append(queue, p) /\ UNCHANGED <<hand, deferred, rest>>
        /\ UNCHANGED <<told, again>>
    BY <1>1, NamesDiffer DEF Exit
  <2>2. Unborn(p) /\ ~Unborn(p)'
    BY <1>0, <1>1 DEF Exit, Unborn, ProcessesTyped
  <2>3. Once(p) BY DEF OnceBook
  <2>4. ~Present(p) /\ ~IsTold(p) BY <2>2, <2>3 DEF Once
  <2>5. InOnePlace(e)' BY <1>a, <2>1, <2>4, EntersPlace
  <2>6. Present(e)' <=> Present(e) \/ e = p BY <2>1, EntersFlow
  <2>7. IsTold(e)' <=> IsTold(e) BY <2>1 DEF IsTold
  <2> QED BY <1>a, <1>b, <2>1, <2>2, <2>4, <2>5, <2>6, <2>7 DEF Once
<1>2. ASSUME NEW p \in Procs, Consume(p) PROVE Once(e)'
  <2>1. UNCHANGED <<queue, hand, deferred, rest, told, again>> BY <1>2 DEF Consume
  <2> QED BY <1>a, <1>b, <2>1, NoPlace, NoFlow, OnceKept
<1>3. ASSUME NEW d \in Delegs, NEW s \in Sessions, Dispatch(d, s) PROVE Once(e)'
  <2>1. UNCHANGED <<queue, hand, deferred, rest, told, again>> BY <1>3 DEF Dispatch
  <2> QED BY <1>a, <1>b, <2>1, NoPlace, NoFlow, OnceKept
<1>4. ASSUME NEW d \in Delegs, Submit(d) PROVE Once(e)'
  <2>1. UNCHANGED <<queue, hand, deferred, rest, told, again>> BY <1>4 DEF Submit
  <2> QED BY <1>a, <1>b, <2>1, NoPlace, NoFlow, OnceKept
<1>5. ASSUME NEW d \in Delegs, Finalize(d) PROVE Once(e)'
  <2>1. UNCHANGED <<queue, hand, deferred, rest, told, again>> BY <1>5 DEF Finalize
  <2> QED BY <1>a, <1>b, <2>1, NoPlace, NoFlow, OnceKept
<1>6. ASSUME NEW d \in Delegs, Push(d) PROVE Once(e)'
  <2>1. /\ d \in Items /\ queue' = Append(queue, d) /\ UNCHANGED <<hand, deferred, rest>>
        /\ UNCHANGED <<told, again>>
    BY <1>6, NamesDiffer DEF Push
  <2>2. Unborn(d) /\ ~Unborn(d)'
    BY <1>0, <1>6 DEF Push, Unborn, DelegationsTyped, OnceBook, Decided
  <2>3. Once(d) BY DEF OnceBook
  <2>4. ~Present(d) /\ ~IsTold(d) BY <2>2, <2>3 DEF Once
  <2>5. InOnePlace(e)' BY <1>a, <2>1, <2>4, EntersPlace
  <2>6. Present(e)' <=> Present(e) \/ e = d BY <2>1, EntersFlow
  <2>7. IsTold(e)' <=> IsTold(e) BY <2>1 DEF IsTold
  <2> QED BY <1>a, <1>b, <2>1, <2>2, <2>4, <2>5, <2>6, <2>7 DEF Once
<1>7. CASE Post
  <2>1. UNCHANGED <<queue, hand, deferred, rest, told, again>> BY <1>7 DEF Post
  <2> QED BY <1>a, <1>b, <2>1, NoPlace, NoFlow, OnceKept
<1>8. CASE Crash
  <2>1. InOnePlace(e)' /\ ~Present(e)' BY <1>a, <1>8, CrashPlace, CrashFlow
  <2>2. UNCHANGED <<told, again>> BY <1>8 DEF Crash
  <2> QED BY <1>a, <1>b, <2>1, <2>2, OnceKept
<1>9. ASSUME NEW s \in Sessions, UserTurn(s) PROVE Once(e)'
  <2>1. UNCHANGED <<queue, hand, deferred, rest, told, again>> BY <1>9 DEF UserTurn
  <2> QED BY <1>a, <1>b, <2>1, NoPlace, NoFlow, OnceKept
<1>10. ASSUME NEW s \in Sessions, TurnEnds(s) PROVE Once(e)'
  <2>1. UNCHANGED <<queue, hand, deferred, rest, told, again>> BY <1>10 DEF TurnEnds
  <2> QED BY <1>a, <1>b, <2>1, NoPlace, NoFlow, OnceKept
<1>11. ASSUME NEW s \in Sessions, Close(s) PROVE Once(e)'
  <2>1. UNCHANGED <<queue, hand, deferred, rest, told, again>> BY <1>11 DEF Close
  <2> QED BY <1>a, <1>b, <2>1, NoPlace, NoFlow, OnceKept
<1>12. ASSUME NEW s \in Sessions, FinalizeSession(s) PROVE Once(e)'
  <2>1. UNCHANGED <<queue, hand, deferred, rest, told, again>> BY <1>12 DEF FinalizeSession
  <2> QED BY <1>a, <1>b, <2>1, NoPlace, NoFlow, OnceKept
<1>13. ASSUME NEW s \in Sessions, Open(s) PROVE Once(e)'
  <2>1. UNCHANGED <<queue, hand, deferred, rest, told, again>> BY <1>13 DEF Open
  <2> QED BY <1>a, <1>b, <2>1, NoPlace, NoFlow, OnceKept
<1>14. ASSUME NEW s \in Sessions, Discover(s) PROVE Once(e)'
  <2> DEFINE x == [first |-> cursor, last |-> posted]
  <2>1. x \in Batches
    <3>1. cursor \in 0 .. MaxPosts /\ posted \in 1 .. MaxPosts
      BY <1>14, NamesDiffer DEF Discover, Typed, PostsTyped
    <3> QED BY <3>1 DEF Batches
  <2>2. queue' = Append(queue, x) /\ UNCHANGED <<hand, deferred, rest>> /\ UNCHANGED <<told, again>>
    BY <1>14 DEF Discover
  <2> HIDE DEF x
  <2>3. x \in Items /\ x # e BY <2>1, NamesDiffer
  <2>4. InOnePlace(e)' BY <1>a, <2>2, <2>3, EntersPlace
  <2>5. Present(e)' => Present(e) BY <2>2, <2>3, EntersFlow
  <2> QED BY <1>a, <1>b, <2>2, <2>4, <2>5, OnceKept
<1>15. ASSUME NEW s \in Sessions, Take(s) PROVE Once(e)'
  <2>1. InOnePlace(e)' BY <1>a, <1>15, TakePlace
  <2>2. Present(e)' => Present(e) BY <1>a, <1>15, TakeFlow
  <2>3. UNCHANGED <<told, again>> BY <1>15 DEF Take
  <2> QED BY <1>a, <1>b, <2>1, <2>2, <2>3, OnceKept
<1>16. ASSUME NEW s \in Sessions, TakeLast(s) PROVE Once(e)'
  <2>1. InOnePlace(e)' BY <1>a, <1>16, TakeLastPlace
  <2>2. Present(e)' => Present(e) BY <1>a, <1>16, TakeLastFlow
  <2>3. UNCHANGED <<told, again>> BY <1>16 DEF TakeLast
  <2> QED BY <1>a, <1>b, <2>1, <2>2, <2>3, OnceKept
<1>17. ASSUME NEW s \in Sessions, Quit(s) PROVE Once(e)'
  <2>1. InOnePlace(e)' BY <1>a, <1>17, QuitPlace
  <2>2. Present(e)' => Present(e) BY <1>a, <1>17, QuitFlow
  <2>3. UNCHANGED <<told, again>> BY <1>17 DEF Quit
  <2> QED BY <1>a, <1>b, <2>1, <2>2, <2>3, OnceKept
<1>18. ASSUME NEW s \in Sessions, PlaceTurn(s) PROVE Once(e)'
  <2>1. InOnePlace(e)' /\ (hand[s] = e => ~Present(e)') BY <1>a, <1>18, PlaceTurnPlace
  <2>2. Present(e)' => Present(e) BY <1>a, <1>18, PlaceTurnFlow
  <2>3. Tell(hand[s], s, "poller") BY <1>18 DEF PlaceTurn
  <2>4. hand[s] = e => Present(e) BY DEF Present
  <2> QED BY <1>a, <1>b, <2>1, <2>2, <2>3, <2>4, OnceTold
<1>19. ASSUME NEW s \in Sessions, PutBack(s) PROVE Once(e)'
  <2>1. InOnePlace(e)' BY <1>a, <1>19, PutBackPlace
  <2>2. Present(e)' => Present(e) BY <1>a, <1>19, PutBackFlow
  <2>3. UNCHANGED <<told, again>> BY <1>19 DEF PutBack
  <2> QED BY <1>a, <1>b, <2>1, <2>2, <2>3, OnceKept
<1>20. ASSUME NEW s \in Sessions, Ack(s) PROVE Once(e)'
  <2>1. UNCHANGED <<queue, hand, deferred, rest, told, again>> BY <1>20 DEF Ack
  <2> QED BY <1>a, <1>b, <2>1, NoPlace, NoFlow, OnceKept
<1>21. ASSUME NEW s \in Sessions, Drain(s) PROVE Once(e)'
  <2>1. InOnePlace(e)' BY <1>a, <1>21, DrainPlace
  <2>2. Present(e)' => Present(e) BY <1>a, <1>21, DrainFlow
  <2>3. UNCHANGED <<told, again>> BY <1>21 DEF Drain
  <2> QED BY <1>a, <1>b, <2>1, <2>2, <2>3, OnceKept
<1>22. ASSUME NEW s \in Sessions, DrainTurn(s) PROVE Once(e)'
  <2>1. InOnePlace(e)' /\ (Head(rest[s]) = e => ~Present(e)') BY <1>a, <1>22, DrainTurnPlace
  <2>2. (Present(e)' => Present(e)) /\ Present(Head(rest[s])) BY <1>a, <1>22, DrainTurnFlow
  <2>3. Tell(Head(rest[s]), s, "turn") BY <1>22 DEF DrainTurn
  <2>4. Head(rest[s]) = e => Present(e) BY <2>2
  <2> QED BY <1>a, <1>b, <2>1, <2>2, <2>3, <2>4, OnceTold
<1>23. ASSUME NEW s \in Sessions, DrainBreak(s) PROVE Once(e)'
  <2>1. InOnePlace(e)' BY <1>a, <1>23, DrainBreakPlace
  <2>2. Present(e)' => Present(e) BY <1>a, <1>23, DrainBreakFlow
  <2>3. UNCHANGED <<told, again>> BY <1>23 DEF DrainBreak
  <2> QED BY <1>a, <1>b, <2>1, <2>2, <2>3, OnceKept
<1>24. ASSUME NEW s \in Sessions, PlaceFails(s) PROVE Once(e)'
  <2>1. InOnePlace(e)' BY <1>a, <1>24, PlaceTurnPlace
  <2>2. Present(e)' => Present(e) BY <1>a, <1>24, PlaceTurnFlow
  <2>3. UNCHANGED <<told, again>> BY <1>24 DEF PlaceFails
  <2> QED BY <1>a, <1>b, <2>1, <2>2, <2>3, OnceKept
<1>25. ASSUME NEW s \in Sessions, DrainFails(s) PROVE Once(e)'
  <2>1. InOnePlace(e)' BY <1>a, <1>25, DrainTurnPlace
  <2>2. Present(e)' => Present(e) BY <1>a, <1>25, DrainTurnFlow
  <2>3. UNCHANGED <<told, again>> BY <1>25 DEF DrainFails
  <2> QED BY <1>a, <1>b, <2>1, <2>2, <2>3, OnceKept
<1> QED BY <1>1, <1>2, <1>3, <1>4, <1>5, <1>6, <1>7, <1>8, <1>9, <1>10, <1>11, <1>12, <1>13,
       <1>14, <1>15, <1>16, <1>17, <1>18, <1>19, <1>20, <1>21, <1>22, <1>23, <1>24,
       <1>25 DEF Next, PollerStep, TurnStep

-----------------------------------------------------------------------------
(* Retired delegations.                                                    *)

\* No delegation that was retired has lost its tombstone to a later one.
TombstonesHold == Cardinality(Delegs) <= MaxTombstones

\* RetiredStaysSilent, of one step.
Silent == \A r \in told' \ told : r.by = "poller" /\ r.item \in retired => r.closing

\* Nothing is retired, buried, or told, and what comes before a thread is not retired.
LEMMA RetiredKept ==
  ASSUME RetireBook, UNCHANGED <<retired, tombstones>>,
         \A d \in retired : record[d] # "none" => record'[d] # "none",
         \A d \in retired : record[d] = "popped" /\ ~Present(d) /\ d \notin unpushed =>
                               record'[d] = "popped" /\ ~Present(d)' /\ d \notin unpushed',
         \A s \in Sessions : hand'[s] = NoItem \/ hand'[s] = hand[s]
                              \/ (hand'[s] \in Delegs => Key[s] = OwnerKey[hand'[s]] /\ hand'[s] \notin retired),
         \A s \in Sessions : hand[s] # NoItem /\ life'[s] \in {"open", "removed"} => life[s] \in {"open", "removed"},
         retired \subseteq Delegs
  PROVE  RetireBook'
<1>1. NoItem \notin Delegs BY NamesDiffer
<1> USE DEF RetireBook
<1>2. \A s \in Sessions : hand'[s] \in Delegs => Key[s] = OwnerKey[hand'[s]] BY <1>1
<1>3. \A s \in Sessions : hand'[s] \in retired => life'[s] \notin {"open", "removed"} BY <1>1
<1>4. \A d \in retired : /\ record'[d] # "none"
                         /\ \/ d \in ToSet(tombstones)
                            \/ record'[d] = "popped" /\ ~Present(d)' /\ d \notin unpushed'
  OBVIOUS
<1> QED BY <1>2, <1>3, <1>4

\* A poller keeps in hand only what its own conversation asked for and did not retire.
LEMMA KeepsItsOwn ==
  ASSUME RetireBook, NEW s \in Sessions, NEW e \in Delegs, Present(e), ~Dropped(e), ~Elsewhere(s, e)
  PROVE  Key[s] = OwnerKey[e] /\ e \notin retired
<1>1. e \notin Procs /\ e \notin Batches BY NamesDiffer
<1>2. KeyOf(e) = OwnerKey[e] BY <1>1 DEF KeyOf
<1>3. Key[s] = OwnerKey[e] BY <1>1, <1>2 DEF Elsewhere
<1>4. e \notin ToSet(tombstones) BY DEF Dropped
<1> QED BY <1>3, <1>4 DEF RetireBook

LEMMA StepRetires ==
  ASSUME TombstonesHold, Typed, Handling, OneSessionEach, OnceBook, RetireBook, Next
  PROVE  RetireBook' /\ Silent
<1> USE DEF kanban, delegations, processes, places, sessions, telling, bounds
<1> DEFINE Good == RetireBook' /\ Silent
<1>0. /\ PlacesTyped /\ SessionsTyped /\ DelegationsTyped /\ retired \subseteq Delegs
      /\ Procs \cap Delegs = {} /\ Delegs \subseteq Items /\ NoItem \notin Items
      /\ Batches \cap (Procs \cup Delegs) = {} /\ \A d \in retired : record[d] # "none"
  BY NamesDiffer DEF Typed, DelegationsTyped, RetireBook
<1>1. ASSUME NEW p \in Procs, Exit(p) PROVE Good
  <2>0. Silent BY <1>1 DEF Exit, Silent
  <2> DEFINE x == p
  <2>2. queue' = Append(queue, x) /\ UNCHANGED <<hand, deferred, rest, life, retired, tombstones, record, unpushed>>
    BY <1>1 DEF Exit
  <2>3. x \in Items /\ x \notin Delegs BY <1>0, NamesDiffer
  <2>4. \A e : Present(e)' <=> Present(e) \/ e = x BY <2>2, <2>3, EntersFlow DEF Typed
  <2>5. RetireBook' BY <1>0, <2>2, <2>3, <2>4, RetiredKept
  <2> QED BY <2>0, <2>5
<1>2. ASSUME NEW p \in Procs, Consume(p) PROVE Good
  <2>0. Silent BY <1>2 DEF Consume, Silent
  <2>1. UNCHANGED <<queue, hand, deferred, rest, retired, tombstones, record, unpushed>>
    BY <1>2 DEF Consume
  <2>2. \A e \in Delegs : Present(e)' <=> Present(e) BY <2>1, NoFlow
  <2>3. \A t \in Sessions : hand[t] # NoItem /\ life'[t] \in {"open", "removed"} => life[t] \in {"open", "removed"}
    BY <1>0, <1>2 DEF Consume, SessionsTyped, Handling
  <2>4. RetireBook' BY <1>0, <2>1, <2>2, <2>3, RetiredKept
  <2> QED BY <2>0, <2>4
<1>3. ASSUME NEW d \in Delegs, NEW s \in Sessions, Dispatch(d, s) PROVE Good
  <2>0. Silent BY <1>3 DEF Dispatch, Silent
  <2>1. UNCHANGED <<queue, hand, deferred, rest, life, retired, tombstones>> BY <1>3 DEF Dispatch
  <2>2. \A e \in Delegs : Present(e)' <=> Present(e) BY <2>1, NoFlow
  <2>3. \A e \in retired : /\ record'[e] # "none"
                           /\ record[e] = "popped" /\ e \notin unpushed =>
                                record'[e] = "popped" /\ e \notin unpushed'
    BY <1>0, <1>3 DEF Dispatch, DelegationsTyped
  <2>4. \A e \in retired : record[e] = "popped" /\ ~Present(e) /\ e \notin unpushed =>
                            record'[e] = "popped" /\ ~Present(e)' /\ e \notin unpushed'
    BY <1>0, <2>2, <2>3
  <2>5. \A e \in retired : record[e] # "none" => record'[e] # "none" BY <2>3
  <2>6. RetireBook' BY <1>0, <2>1, <2>4, <2>5, RetiredKept
  <2> QED BY <2>0, <2>6
<1>4. ASSUME NEW d \in Delegs, Submit(d) PROVE Good
  <2>0. Silent BY <1>4 DEF Submit, Silent
  <2>1. UNCHANGED <<queue, hand, deferred, rest, life, retired, tombstones>> BY <1>4 DEF Submit
  <2>2. \A e \in Delegs : Present(e)' <=> Present(e) BY <2>1, NoFlow
  <2>3. \A e \in retired : /\ record'[e] # "none"
                           /\ record[e] = "popped" /\ e \notin unpushed =>
                                record'[e] = "popped" /\ e \notin unpushed'
    BY <1>0, <1>4 DEF Submit, DelegationsTyped
  <2>4. \A e \in retired : record[e] = "popped" /\ ~Present(e) /\ e \notin unpushed =>
                            record'[e] = "popped" /\ ~Present(e)' /\ e \notin unpushed'
    BY <1>0, <2>2, <2>3
  <2>5. \A e \in retired : record[e] # "none" => record'[e] # "none" BY <2>3
  <2>6. RetireBook' BY <1>0, <2>1, <2>4, <2>5, RetiredKept
  <2> QED BY <2>0, <2>6
<1>5. ASSUME NEW d \in Delegs, Finalize(d) PROVE Good
  <2>0. Silent BY <1>5 DEF Finalize, Silent
  <2>1. UNCHANGED <<queue, hand, deferred, rest, life, retired, tombstones>> BY <1>5 DEF Finalize
  <2>2. \A e \in Delegs : Present(e)' <=> Present(e) BY <2>1, NoFlow
  <2>3. \A e \in retired : /\ record'[e] # "none"
                           /\ record[e] = "popped" /\ e \notin unpushed =>
                                record'[e] = "popped" /\ e \notin unpushed'
    BY <1>0, <1>5 DEF Finalize, DelegationsTyped
  <2>4. \A e \in retired : record[e] = "popped" /\ ~Present(e) /\ e \notin unpushed =>
                            record'[e] = "popped" /\ ~Present(e)' /\ e \notin unpushed'
    BY <1>0, <2>2, <2>3
  <2>5. \A e \in retired : record[e] # "none" => record'[e] # "none" BY <2>3
  <2>6. RetireBook' BY <1>0, <2>1, <2>4, <2>5, RetiredKept
  <2> QED BY <2>0, <2>6
<1>6. ASSUME NEW d \in Delegs, Push(d) PROVE Good
  <2>0. Silent BY <1>6 DEF Push, Silent
  <2> DEFINE x == d
  <2>2. queue' = Append(queue, x) /\ UNCHANGED <<hand, deferred, rest, life, retired, tombstones, record>>
    BY <1>6 DEF Push
  <2>3. x \in Items /\ x \in unpushed /\ unpushed' \subseteq unpushed BY <1>0, <1>6 DEF Push
  <2>4. \A e : Present(e)' <=> Present(e) \/ e = x BY <2>2, <2>3, EntersFlow DEF Typed
  <2>5. RetireBook' BY <1>0, <2>2, <2>3, <2>4, RetiredKept
  <2> QED BY <2>0, <2>5
<1>7. CASE Post
  <2>0. Silent BY <1>7 DEF Post, Silent
  <2>1. UNCHANGED <<queue, hand, deferred, rest, retired, tombstones, record, unpushed>>
    BY <1>7 DEF Post
  <2>2. \A e \in Delegs : Present(e)' <=> Present(e) BY <2>1, NoFlow
  <2>3. \A t \in Sessions : hand[t] # NoItem /\ life'[t] \in {"open", "removed"} => life[t] \in {"open", "removed"}
    BY <1>0, <1>7 DEF Post, SessionsTyped, Handling
  <2>4. RetireBook' BY <1>0, <2>1, <2>2, <2>3, RetiredKept
  <2> QED BY <2>0, <2>4
<1>8. CASE Crash
  <2>0. Silent BY <1>8 DEF Crash, Silent
  <2>1. \A e \in Delegs : ~Present(e)' BY <1>0, <1>8, CrashFlow
  <2>2. /\ tombstones' = <<>> /\ unpushed' = {} /\ UNCHANGED retired /\ \A t \in Sessions : hand'[t] = NoItem
        /\ \A e \in retired : record'[e] = "popped"
    BY <1>0, <1>8 DEF Crash
  <2>3. \A e : Single(tombstones', e) BY <2>2, NothingHeld
  <2>5. RetireBook' BY <1>0, <2>1, <2>2, <2>3 DEF RetireBook
  <2> QED BY <2>0, <2>5
<1>9. ASSUME NEW s \in Sessions, UserTurn(s) PROVE Good
  <2>0. Silent BY <1>9 DEF UserTurn, Silent
  <2>1. UNCHANGED <<queue, hand, deferred, rest, retired, tombstones, record, unpushed>>
    BY <1>9 DEF UserTurn
  <2>2. \A e \in Delegs : Present(e)' <=> Present(e) BY <2>1, NoFlow
  <2>3. \A t \in Sessions : hand[t] # NoItem /\ life'[t] \in {"open", "removed"} => life[t] \in {"open", "removed"}
    BY <1>0, <1>9 DEF UserTurn, SessionsTyped, Handling
  <2>4. RetireBook' BY <1>0, <2>1, <2>2, <2>3, RetiredKept
  <2> QED BY <2>0, <2>4
<1>10. ASSUME NEW s \in Sessions, TurnEnds(s) PROVE Good
  <2>0. Silent BY <1>10 DEF TurnEnds, Silent
  <2>1. UNCHANGED <<queue, hand, deferred, rest, retired, tombstones, record, unpushed>>
    BY <1>10 DEF TurnEnds
  <2>2. \A e \in Delegs : Present(e)' <=> Present(e) BY <2>1, NoFlow
  <2>3. \A t \in Sessions : hand[t] # NoItem /\ life'[t] \in {"open", "removed"} => life[t] \in {"open", "removed"}
    BY <1>0, <1>10 DEF TurnEnds, SessionsTyped, Handling
  <2>4. RetireBook' BY <1>0, <2>1, <2>2, <2>3, RetiredKept
  <2> QED BY <2>0, <2>4
<1>11. ASSUME NEW s \in Sessions, Close(s) PROVE Good
  <2>0. Silent BY <1>11 DEF Close, Silent
  <2>1. UNCHANGED <<queue, hand, deferred, rest, retired, tombstones, record, unpushed>>
    BY <1>11 DEF Close
  <2>2. \A e \in Delegs : Present(e)' <=> Present(e) BY <2>1, NoFlow
  <2>3. \A t \in Sessions : hand[t] # NoItem /\ life'[t] \in {"open", "removed"} => life[t] \in {"open", "removed"}
    BY <1>0, <1>11 DEF Close, SessionsTyped, Handling
  <2>4. RetireBook' BY <1>0, <2>1, <2>2, <2>3, RetiredKept
  <2> QED BY <2>0, <2>4
<1>12. ASSUME NEW s \in Sessions, FinalizeSession(s) PROVE Good
  <2>0. Silent BY <1>12 DEF FinalizeSession, Silent
  <2> DEFINE ds == Recorded(Key[s])
  <2>1. ds \in SUBSET Delegs /\ \A d \in ds : OwnerKey[d] = Key[s] /\ record[d] # "none"
    BY DEF Recorded
  <2>2. retired' = retired \cup ds /\ tombstones' = Buried(ds) BY <1>12 DEF FinalizeSession
  <2>3. /\ life[s] = "removed" /\ life'[s] = "finalized" /\ \A t \in Sessions : t # s => life'[t] = life[t]
        /\ UNCHANGED <<queue, hand, deferred, rest, record, unpushed>>
    BY <1>0, <1>12 DEF FinalizeSession, SessionsTyped
  <2> HIDE DEF ds
  <2>4. ToSet(tombstones') = ToSet(tombstones) \cup ds /\ \A d \in Delegs : Single(tombstones', d)
    BY <2>1, <2>2, BuriedHolds DEF TombstonesHold, RetireBook, Typed
  <2>5. \A e \in Delegs : Present(e)' <=> Present(e) BY <2>3, NoFlow
  <2>6. \A t \in Sessions : hand[t] \in ds => life'[t] \notin {"open", "removed"}
    <3> SUFFICES ASSUME NEW t \in Sessions, hand[t] \in ds, life'[t] \in {"open", "removed"} PROVE FALSE
      OBVIOUS
    <3>1. Key[t] = Key[s] BY <2>1 DEF RetireBook
    <3>2. t # s BY <2>3
    <3>3. life[t] \in {"open", "removed"} BY <2>3, <3>2
    <3> QED BY <2>3, <3>1, <3>2, <3>3 DEF OneSessionEach
  <2>7. \A t \in Sessions : hand[t] \in retired => life'[t] \notin {"open", "removed"}
    BY <2>3 DEF RetireBook
  <2>8. \A d \in retired' : /\ record'[d] # "none"
                            /\ \/ d \in ToSet(tombstones')
                               \/ record'[d] = "popped" /\ ~Present(d)' /\ d \notin unpushed'
    BY <1>0, <2>1, <2>2, <2>3, <2>4, <2>5 DEF RetireBook
  <2>9. \A t \in Sessions : hand'[t] \in retired' => life'[t] \notin {"open", "removed"}
    BY <2>2, <2>3, <2>6, <2>7
  <2>10. \A t \in Sessions : hand'[t] \in Delegs => Key[t] = OwnerKey[hand'[t]]
    BY <2>3 DEF RetireBook
  <2>11. RetireBook' BY <2>4, <2>8, <2>9, <2>10 DEF RetireBook
  <2> QED BY <2>0, <2>11
<1>13. ASSUME NEW s \in Sessions, Open(s) PROVE Good
  <2>0. Silent BY <1>13 DEF Open, Silent
  <2>1. UNCHANGED <<queue, hand, deferred, rest, retired, tombstones, record, unpushed>>
    BY <1>13 DEF Open
  <2>2. \A e \in Delegs : Present(e)' <=> Present(e) BY <2>1, NoFlow
  <2>3. \A t \in Sessions : hand[t] # NoItem /\ life'[t] \in {"open", "removed"} => life[t] \in {"open", "removed"}
    BY <1>0, <1>13 DEF Open, SessionsTyped, Handling
  <2>4. RetireBook' BY <1>0, <2>1, <2>2, <2>3, RetiredKept
  <2> QED BY <2>0, <2>4
<1>14. ASSUME NEW s \in Sessions, Discover(s) PROVE Good
  <2>0. Silent BY <1>14 DEF Discover, Silent
  <2> DEFINE x == [first |-> cursor, last |-> posted]
  <2>1. x \in Batches
    <3>1. cursor \in 0 .. MaxPosts /\ posted \in 1 .. MaxPosts
      BY <1>14, NamesDiffer DEF Discover, Typed, PostsTyped
    <3> QED BY <3>1 DEF Batches
  <2>2. queue' = Append(queue, x) /\ UNCHANGED <<hand, deferred, rest, life, retired, tombstones, record, unpushed>>
    BY <1>14 DEF Discover
  <2> HIDE DEF x
  <2>3. x \in Items /\ x \notin Delegs BY <1>0, <2>1, NamesDiffer
  <2>4. \A e : Present(e)' <=> Present(e) \/ e = x BY <2>2, <2>3, EntersFlow DEF Typed
  <2>5. RetireBook' BY <1>0, <2>2, <2>3, <2>4, RetiredKept
  <2> QED BY <2>0, <2>5
<1>15. ASSUME NEW s \in Sessions, Take(s) PROVE Good
  <2>0. Silent BY <1>15 DEF Take, Silent
  <2> DEFINE h == Head(queue)
  <2>1. \A e \in Delegs : Present(e)' => Present(e) BY <1>0, <1>15, TakeFlow
  <2>2. UNCHANGED <<retired, tombstones, record, unpushed>> BY <1>15 DEF Take
  <2>3. h \in ToSet(queue) BY <1>0, <1>15, HeadIsTyped DEF Take
  <2>4. \A t \in Sessions : \/ hand'[t] = hand[t]
                            \/ t = s /\ hand'[t] = h /\ ~Dropped(h) /\ ~Elsewhere(s, h)
    BY <1>0, <1>15 DEF Take, PlacesTyped
  <2>5. \A t \in Sessions : life'[t] \in {"open", "removed"} => life[t] \in {"open", "removed"}
    BY <1>0, <1>15 DEF Take, SessionsTyped
  <2>6. Present(h) BY <2>3 DEF Present
  <2> HIDE DEF h
  <2>7. \A t \in Sessions : hand'[t] = hand[t]
          \/ (hand'[t] \in Delegs => Key[t] = OwnerKey[hand'[t]] /\ hand'[t] \notin retired)
    BY <2>4, <2>6, KeepsItsOwn
  <2>8. RetireBook' BY <1>0, <2>1, <2>2, <2>5, <2>7, RetiredKept
  <2> QED BY <2>0, <2>8
<1>16. ASSUME NEW s \in Sessions, TakeLast(s) PROVE Good
  <2>0. Silent BY <1>16 DEF TakeLast, Silent
  <2> DEFINE h == Head(queue)
  <2>1. \A e \in Delegs : Present(e)' => Present(e) BY <1>0, <1>16, TakeLastFlow
  <2>2. UNCHANGED <<retired, tombstones, record, unpushed>> BY <1>16 DEF TakeLast
  <2>3. h \in ToSet(queue) BY <1>0, <1>16, HeadIsTyped DEF TakeLast
  <2>4. \A t \in Sessions : \/ hand'[t] = hand[t]
                            \/ t = s /\ hand'[t] = h /\ ~Dropped(h) /\ ~Elsewhere(s, h)
    BY <1>0, <1>16 DEF TakeLast, PlacesTyped
  <2>5. \A t \in Sessions : life'[t] \in {"open", "removed"} => life[t] \in {"open", "removed"}
    BY <1>0, <1>16 DEF TakeLast, SessionsTyped
  <2>6. Present(h) BY <2>3 DEF Present
  <2> HIDE DEF h
  <2>7. \A t \in Sessions : hand'[t] = hand[t]
          \/ (hand'[t] \in Delegs => Key[t] = OwnerKey[hand'[t]] /\ hand'[t] \notin retired)
    BY <2>4, <2>6, KeepsItsOwn
  <2>8. RetireBook' BY <1>0, <2>1, <2>2, <2>5, <2>7, RetiredKept
  <2> QED BY <2>0, <2>8
<1>17. ASSUME NEW s \in Sessions, Quit(s) PROVE Good
  <2>0. Silent BY <1>17 DEF Quit, Silent
  <2>1. \A e \in Delegs : Present(e)' => Present(e) BY <1>0, <1>17, QuitFlow
  <2>2. UNCHANGED <<retired, tombstones, record, unpushed>> BY <1>17 DEF Quit
  <2>3. \A t \in Sessions : hand'[t] = hand[t] \/ hand'[t] = NoItem
    BY <1>0, <1>17 DEF Quit, PlacesTyped
  <2>4. \A t \in Sessions : life'[t] \in {"open", "removed"} => life[t] \in {"open", "removed"}
    BY <1>0, <1>17 DEF Quit, SessionsTyped
  <2>5. RetireBook' BY <1>0, <2>1, <2>2, <2>3, <2>4, RetiredKept
  <2> QED BY <2>0, <2>5
<1>18. ASSUME NEW s \in Sessions, PlaceTurn(s) PROVE Good
  <2>1. \A e \in Delegs : Present(e)' => Present(e) BY <1>0, <1>18, PlaceTurnFlow
  <2>2. UNCHANGED <<retired, tombstones, life, record, unpushed>> BY <1>18 DEF PlaceTurn
  <2>3. \A t \in Sessions : hand'[t] = hand[t] \/ hand'[t] = NoItem
    BY <1>0, <1>18 DEF PlaceTurn, PlacesTyped
  <2>4. RetireBook' BY <1>0, <2>1, <2>2, <2>3, RetiredKept
  <2> DEFINE r == [item |-> hand[s], to |-> s, by |-> "poller",
                   closing |-> life[s] \notin {"open", "removed"}]
  <2>5. told' = told \cup {r} BY <1>18 DEF PlaceTurn, Tell
  <2>6. r.item = hand[s] /\ r.closing = (life[s] \notin {"open", "removed"}) OBVIOUS
  <2>7. hand[s] \in retired => life[s] \notin {"open", "removed"} BY DEF RetireBook
  <2> HIDE DEF r
  <2>8. Silent BY <2>5, <2>6, <2>7 DEF Silent
  <2> QED BY <2>4, <2>8
<1>19. ASSUME NEW s \in Sessions, PutBack(s) PROVE Good
  <2>0. Silent BY <1>19 DEF PutBack, Silent
  <2>1. \A e \in Delegs : Present(e)' => Present(e) BY <1>0, <1>19, PutBackFlow
  <2>2. UNCHANGED <<retired, tombstones, record, unpushed>> BY <1>19 DEF PutBack
  <2>3. \A t \in Sessions : hand'[t] = hand[t] \/ hand'[t] = NoItem
    BY <1>0, <1>19 DEF PutBack, PlacesTyped
  <2>4. \A t \in Sessions : life'[t] \in {"open", "removed"} => life[t] \in {"open", "removed"}
    BY <1>0, <1>19 DEF PutBack, SessionsTyped
  <2>5. RetireBook' BY <1>0, <2>1, <2>2, <2>3, <2>4, RetiredKept
  <2> QED BY <2>0, <2>5
<1>20. ASSUME NEW s \in Sessions, Ack(s) PROVE Good
  <2>0. Silent BY <1>20 DEF Ack, Silent
  <2>1. UNCHANGED <<queue, hand, deferred, rest, retired, tombstones, record, unpushed>>
    BY <1>20 DEF Ack
  <2>2. \A e \in Delegs : Present(e)' <=> Present(e) BY <2>1, NoFlow
  <2>3. \A t \in Sessions : hand[t] # NoItem /\ life'[t] \in {"open", "removed"} => life[t] \in {"open", "removed"}
    BY <1>0, <1>20 DEF Ack, SessionsTyped, Handling
  <2>4. RetireBook' BY <1>0, <2>1, <2>2, <2>3, RetiredKept
  <2> QED BY <2>0, <2>4
<1>21. ASSUME NEW s \in Sessions, Drain(s) PROVE Good
  <2>0. Silent BY <1>21 DEF Drain, Silent
  <2>1. \A e \in Delegs : Present(e)' => Present(e) BY <1>0, <1>21, DrainFlow
  <2>2. UNCHANGED <<retired, tombstones, record, unpushed>> BY <1>21 DEF Drain
  <2>3. \A t \in Sessions : hand'[t] = hand[t] \/ hand'[t] = NoItem
    BY <1>0, <1>21 DEF Drain, PlacesTyped
  <2>4. \A t \in Sessions : life'[t] \in {"open", "removed"} => life[t] \in {"open", "removed"}
    BY <1>0, <1>21 DEF Drain, SessionsTyped
  <2>5. RetireBook' BY <1>0, <2>1, <2>2, <2>3, <2>4, RetiredKept
  <2> QED BY <2>0, <2>5
<1>22. ASSUME NEW s \in Sessions, DrainTurn(s) PROVE Good
  <2>1. \A e \in Delegs : Present(e)' => Present(e) BY <1>0, <1>22, DrainTurnFlow
  <2>2. UNCHANGED <<retired, tombstones, life, hand, record, unpushed>> BY <1>22 DEF DrainTurn
  <2>4. RetireBook' BY <1>0, <2>1, <2>2, RetiredKept
  <2> DEFINE r == [item |-> Head(rest[s]), to |-> s, by |-> "turn",
                   closing |-> life[s] \notin {"open", "removed"}]
  <2>5. told' = told \cup {r} BY <1>22 DEF DrainTurn, Tell
  <2>6. r.by = "turn" OBVIOUS
  <2> HIDE DEF r
  <2>7. Silent BY <2>5, <2>6 DEF Silent
  <2> QED BY <2>4, <2>7
<1>23. ASSUME NEW s \in Sessions, DrainBreak(s) PROVE Good
  <2>0. Silent BY <1>23 DEF DrainBreak, Silent
  <2>1. \A e \in Delegs : Present(e)' => Present(e) BY <1>0, <1>23, DrainBreakFlow
  <2>2. UNCHANGED <<retired, tombstones, record, unpushed>> BY <1>23 DEF DrainBreak
  <2>3. \A t \in Sessions : hand'[t] = hand[t] \/ hand'[t] = NoItem
    BY <1>0, <1>23 DEF DrainBreak, PlacesTyped
  <2>4. \A t \in Sessions : life'[t] \in {"open", "removed"} => life[t] \in {"open", "removed"}
    BY <1>0, <1>23 DEF DrainBreak, SessionsTyped
  <2>5. RetireBook' BY <1>0, <2>1, <2>2, <2>3, <2>4, RetiredKept
  <2> QED BY <2>0, <2>5
<1>24. ASSUME NEW s \in Sessions, PlaceFails(s) PROVE Good
  <2>0. Silent BY <1>24 DEF PlaceFails, Silent
  <2>1. \A e \in Delegs : Present(e)' => Present(e) BY <1>0, <1>24, PlaceTurnFlow
  <2>2. UNCHANGED <<retired, tombstones, life, record, unpushed>> BY <1>24 DEF PlaceFails
  <2>3. \A t \in Sessions : hand'[t] = hand[t] \/ hand'[t] = NoItem
    BY <1>0, <1>24 DEF PlaceFails, PlacesTyped
  <2>4. RetireBook' BY <1>0, <2>1, <2>2, <2>3, RetiredKept
  <2> QED BY <2>0, <2>4
<1>25. ASSUME NEW s \in Sessions, DrainFails(s) PROVE Good
  <2>0. Silent BY <1>25 DEF DrainFails, Silent
  <2>1. \A e \in Delegs : Present(e)' => Present(e) BY <1>0, <1>25, DrainTurnFlow
  <2>2. UNCHANGED <<retired, tombstones, life, hand, record, unpushed>> BY <1>25 DEF DrainFails
  <2>4. RetireBook' BY <1>0, <2>1, <2>2, RetiredKept
  <2> QED BY <2>0, <2>4
<1> QED BY <1>1, <1>2, <1>3, <1>4, <1>5, <1>6, <1>7, <1>8, <1>9, <1>10, <1>11, <1>12, <1>13,
       <1>14, <1>15, <1>16, <1>17, <1>18, <1>19, <1>20, <1>21, <1>22, <1>23, <1>24,
       <1>25 DEF Next, PollerStep, TurnStep

-----------------------------------------------------------------------------
(* The theorems.                                                           *)

LEMMA InitHolds == Init => IndInv /\ RetireBook
<1> SUFFICES ASSUME Init PROVE IndInv /\ RetireBook
  OBVIOUS
<1> USE DEF Init
<1>1. /\ plan \in Scenario /\ plan.turns \in Nat /\ plan.crashes \in Nat /\ plan.faults \in Nat
      /\ plan.posts \in 0 .. MaxPosts
  <2>1. plan \in Scenario BY QueueAssumption
  <2> QED BY <2>1 DEF Scenario
<1>2. Typed
  <2>1. <<>> \in Seq(Items) /\ <<>> \in Seq(Delegs) /\ Len(<<>>) = 0 BY NothingHeld
  <2>2. MaxPosts \in Nat /\ MaxTombstones \in Nat BY NamesDiffer
  <2>3. PlacesTyped BY <2>1 DEF PlacesTyped
  <2>4. SessionsTyped BY DEF SessionsTyped
  <2>5. ProcessesTyped /\ DelegationsTyped BY DEF ProcessesTyped, DelegationsTyped
  <2>6. TombstonesTyped BY <2>1, <2>2 DEF TombstonesTyped
  <2>7. PostsTyped /\ TellingTyped BY <2>2 DEF PostsTyped, TellingTyped
  <2>8. BoundsTyped BY <1>1 DEF BoundsTyped
  <2> QED BY <2>3, <2>4, <2>5, <2>6, <2>7, <2>8 DEF Typed
<1>3. /\ ToSet(queue) = {} /\ \A s \in Sessions : ToSet(deferred[s]) = {} /\ ToSet(rest[s]) = {}
      /\ \A e : Single(queue, e) /\ \A s \in Sessions : Single(deferred[s], e) /\ Single(rest[s], e)
      /\ \A e : Single(tombstones, e)
  BY NothingHeld
<1>4. \A e \in Items : ~Present(e) /\ ~IsTold(e) BY <1>3, NamesDiffer DEF Present, IsTold
<1>5. Handling BY DEF Handling
<1>6. BatchBook
  <2>1. \A s \in Sessions : acking[s] \notin Batches BY NamesDiffer
  <2>2. NothingAckedUntold BY DEF NothingAckedUntold
  <2> QED BY <1>4, <2>1, <2>2, NamesDiffer DEF BatchBook
<1>7. DropBook BY DEF DropBook
<1>8. OnceBook
  <2>1. \A e \in Items : InOnePlace(e) BY <1>3, NamesDiffer DEF InOnePlace
  <2> QED BY <1>4, <2>1, NamesDiffer DEF OnceBook, Once, Decided
<1>9. OneSessionEach
  <2>1. \A s, t \in plan.first : Key[s] = Key[t] => s = t BY QueueAssumption
  <2>2. \A s \in Sessions : life[s] \in {"open", "removed"} => s \in plan.first OBVIOUS
  <2> QED BY <2>1, <2>2 DEF OneSessionEach
<1>10. RetireBook BY <1>3, NamesDiffer DEF RetireBook
<1> QED BY <1>2, <1>5, <1>6, <1>7, <1>8, <1>9, <1>10 DEF IndInv

LEMMA NothingMoves ==
  ASSUME UNCHANGED vars
  PROVE  (IndInv => IndInv') /\ (RetireBook => RetireBook') /\ Silent
<1> USE DEF vars, kanban, delegations, processes, places, sessions, telling, bounds
<1>1. /\ queue' = queue /\ hand' = hand /\ deferred' = deferred /\ rest' = rest /\ acking' = acking
      /\ told' = told /\ record' = record /\ unpushed' = unpushed /\ exited' = exited
  OBVIOUS
<1>2. \A e : (Present(e)' <=> Present(e)) /\ (IsTold(e)' <=> IsTold(e))
             /\ (InOnePlace(e)' <=> InOnePlace(e)) /\ (Unborn(e)' <=> Unborn(e))
  BY <1>1 DEF Present, IsTold, InOnePlace, Unborn
<1>3. Typed => Typed'
  BY DEF Typed, PlacesTyped, SessionsTyped, ProcessesTyped, DelegationsTyped, TombstonesTyped,
         PostsTyped, TellingTyped, BoundsTyped
<1>4. (Handling => Handling') /\ (OneSessionEach => OneSessionEach') BY DEF Handling, OneSessionEach
<1>5. BatchBook => BatchBook' BY <1>2 DEF BatchBook, NothingAckedUntold
<1>6. DropBook => DropBook' BY <1>2 DEF DropBook, MemoryLives
<1>7. OnceBook => OnceBook' BY <1>2 DEF OnceBook, Once, Decided
<1>8. RetireBook => RetireBook' BY <1>2 DEF RetireBook
<1>9. Silent BY DEF Silent
<1> QED BY <1>3, <1>4, <1>5, <1>6, <1>7, <1>8, <1>9 DEF IndInv

LEMMA StepHolds == IndInv /\ [Next]_vars => IndInv'
<1>1. ASSUME IndInv, Next PROVE IndInv'
  <2>1. Typed' BY <1>1, StepTyped DEF IndInv
  <2>2. Handling' /\ OneSessionEach' BY <1>1, StepHandles, StepOneSession DEF IndInv
  <2>3. BatchBook' BY <1>1, <2>1, StepBatches DEF IndInv
  <2>4. DropBook' BY <1>1, StepDrops DEF IndInv
  <2>5. OnceBook' BY <1>1, StepOnce DEF IndInv
  <2> QED BY <2>1, <2>2, <2>3, <2>4, <2>5 DEF IndInv
<1> QED BY <1>1, NothingMoves

\* The inductive invariant of the queue: what each thread has before it, what the durable
\* cursor has passed, which items are accounted for, and that each is in one place.
THEOREM QueueInvariance == Spec => []IndInv
BY InitHolds, StepHolds, PTL DEF Spec

\* The state of the queue has its types, among them: the consumed processes ended, the
\* cursor is not beyond the events posted, the tombstones are within their limit.
THEOREM QueueIsTyped == Spec => []QueueTypeOK
<1>1. IndInv => QueueTypeOK BY TypedIsTypeOK DEF IndInv
<1> QED BY <1>1, QueueInvariance, PTL

\* Where the memory of the gateway survives, nothing vanishes between the threads that
\* pass items around: the completion of a process that ended is before some thread, told,
\* read by the agent, or lost in one of the places the code has for that (the loop of a
\* turn's drain that ends early, a dispatch that raises and whose handler drops what it was
\* to tell); and a batch that is marked as queued is before some thread or was taken by the
\* drain of a turn, so that no poller that ends, puts back or fails to dispatch loses one.
THEOREM CompletionsAreKept == Spec => [](MemoryLives => NothingDropped)
<1>1. IndInv => (MemoryLives => NothingDropped) BY DEF IndInv, DropBook, NothingDropped
<1> QED BY <1>1, QueueInvariance, PTL

\* The end of a process or of a delegation becomes a turn at most once, though pollers of
\* several sessions and the drains of turns take it, put it back and keep it for others.
THEOREM WorkIsToldOnce == Spec => []ToldOnce
<1>1. IndInv => ToldOnce BY DEF IndInv, OnceBook, Once, ToldOnce
<1> QED BY <1>1, QueueInvariance, PTL

\* The durable cursor of the Kanban subscription passes no event that was not told in some
\* turn, whatever pollers stop, acknowledgements fail and gateways die on the way.
THEOREM CursorIsTold == Spec => []NothingAckedUntold
<1>1. IndInv => NothingAckedUntold BY DEF IndInv, BatchBook
<1> QED BY <1>1, QueueInvariance, PTL

\* Where the list of tombstones has room for every delegation, a delegation retired with
\* its session is not made a turn by a poller, unless of a session that is closing too: it is
\* on the list for as long as it can come to one.
THEOREM RetiredNeverSpeaks == TombstonesHold => (Spec => RetiredStaysSilent)
<1> SUFFICES ASSUME TombstonesHold PROVE Spec => RetiredStaysSilent
  OBVIOUS
<1>1. Init => IndInv /\ RetireBook BY InitHolds
<1>2. IndInv /\ RetireBook /\ [Next]_vars => IndInv' /\ RetireBook' /\ Silent
  <2>1. ASSUME IndInv, RetireBook, Next PROVE RetireBook' /\ Silent
    BY <2>1, StepRetires DEF IndInv
  <2> QED BY <2>1, StepHolds, NothingMoves
<1>3. Silent <=> \A r \in told' \ told : r.by = "poller" /\ r.item \in retired => r.closing
  BY DEF Silent
<1> QED BY <1>1, <1>2, <1>3, PTL DEF Spec, RetiredStaysSilent
=============================================================================
