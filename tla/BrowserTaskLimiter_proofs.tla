---------------------- MODULE BrowserTaskLimiter_proofs ----------------------
(***************************************************************************)
(* Theorems about BrowserTaskLimiter, for every number of sessions, calls, *)
(* steps and fences and every setting of the two limits; last, that it     *)
(* implements SessionLanes.                                                *)
(***************************************************************************)
EXTENDS BrowserTaskLimiter, Subsequences, SequencesExt, FunctionTheorems, FiniteSetTheorems, TLAPS

-----------------------------------------------------------------------------
(* Least and greatest elements.  The least element is found without an       *)
(* induction: the lower bounds of a set are finite, so adding one leaves     *)
(* them somewhere (an injection of a finite set into itself would be onto).  *)

LEMMA LeastNatural ==
  ASSUME NEW S, S \subseteq Nat, S # {}
  PROVE  \E m \in S : \A n \in S : m <= n
<1> DEFINE T == {n \in Nat : \A s \in S : n <= s}
<1>1. IsFiniteSet(T)
  <2>1. PICK x \in S : TRUE
    OBVIOUS
  <2>2. T \in SUBSET Nat /\ x \in Nat /\ \A t \in T : t <= x
    BY <2>1
  <2> HIDE DEF T
  <2> QED BY <2>2, FS_BoundedSetOfNaturals
<1>2. \E n \in T : n + 1 \notin T
  <2>1. SUFFICES ASSUME \A n \in T : n + 1 \in T
                 PROVE  FALSE
    OBVIOUS
  <2> DEFINE up == [n \in T |-> n + 1]
  <2>2. up \in Injection(T, T)
    BY <2>1 DEF Injection, IsInjective
  <2>3. up \in Surjection(T, T)
    BY <1>1, <2>2, FS_Injection
  <2>4. 0 \in T
    OBVIOUS
  <2>5. \E n \in T : up[n] = 0
    BY <2>3, <2>4 DEF Surjection
  <2> QED BY <2>5
<1>3. PICK n \in T : n + 1 \notin T
  BY <1>2
<1>4. PICK s \in S : ~ (n + 1 <= s)
  BY <1>3
<1>5. n <= s /\ n \in Nat /\ s \in Nat
  BY <1>3
<1>6. s = n
  BY <1>4, <1>5
<1> QED BY <1>3, <1>6

LEMMA GreatestNatural ==
  ASSUME NEW b \in Nat, NEW S, S \subseteq 0..b, S # {}
  PROVE  \E m \in S : \A n \in S : n <= m
<1> DEFINE R == {r \in 0..b : b - r \in S}
<1>1. PICK x \in S : x \in 0..b
  OBVIOUS
<1>2. b - x \in R /\ R \subseteq Nat
  BY <1>1
<1>3. PICK r \in R : \A n \in R : r <= n
  <2> HIDE DEF R
  <2> QED BY <1>2, LeastNatural
<1>4. b - r \in S /\ \A n \in S : b - n \in R
  OBVIOUS
<1>5. ASSUME NEW n \in S PROVE n <= b - r
  <2>1. n \in 0..b /\ r \in 0..b
    BY <1>3
  <2>2. r <= b - n
    BY <1>3, <1>4
  <2> QED BY <2>1, <2>2
<1> QED BY <1>4, <1>5

LEMMA CallsFinite ==
  ASSUME NEW S, S \subseteq Calls
  PROVE  IsFiniteSet(S) /\ Cardinality(S) \in Nat
<1>1. IsFiniteSet(Calls)
  BY LimiterAssumption, FS_Interval DEF Calls
<1> QED BY <1>1, FS_Subset, FS_CardinalityType

-----------------------------------------------------------------------------
(* Subsequences.                                                             *)

\* A finite set of n numbers has an n-th smallest element for each place, and each
\* of its elements has a place.
LEMMA PlacesInOrder ==
  ASSUME NEW b \in Nat, NEW kept \in SUBSET (1..b)
  PROVE  /\ Cardinality(kept) \in Nat
         /\ \A n \in 1..Cardinality(kept) : Nth(kept, n) \in kept
         /\ \A i \in kept : \E n \in 1..Cardinality(kept) : Nth(kept, n) = i
<1> DEFINE Upto(i) == {j \in kept : j <= i}
           N == Cardinality(kept)
           rank == [i \in kept |-> Cardinality(Upto(i))]
<1>1. IsFiniteSet(kept) /\ N \in Nat
  <2>1. IsFiniteSet(1..b) BY FS_Interval
  <2>2. IsFiniteSet(kept) BY <2>1, FS_Subset
  <2> QED BY <2>2, FS_CardinalityType
<1>2. ASSUME NEW i \in kept PROVE IsFiniteSet(Upto(i)) /\ Cardinality(Upto(i)) \in 1..N
  <2>1. Upto(i) \in SUBSET kept /\ i \in Upto(i) OBVIOUS
  <2> HIDE DEF Upto
  <2>2. /\ IsFiniteSet(Upto(i)) /\ Cardinality(Upto(i)) \in Nat /\ Cardinality(Upto(i)) <= N
    BY <1>1, <2>1, FS_Subset, FS_CardinalityType
  <2>3. Cardinality(Upto(i)) # 0 BY <2>1, <2>2, FS_EmptySet
  <2> QED BY <1>1, <2>2, <2>3
<1>3. ASSUME NEW i \in kept, NEW k \in kept, i <= k, Cardinality(Upto(i)) = Cardinality(Upto(k))
      PROVE  i = k
  <2>1. i \in Nat /\ k \in Nat /\ k <= k /\ \A j \in kept : j <= i => j <= k
    BY <1>3
  <2>2. k \in Upto(k) BY <2>1
  <2>3. Upto(i) \in SUBSET Upto(k) BY <2>1
  <2>4. Upto(i) = Upto(k)
    <3> HIDE DEF Upto
    <3> QED BY <1>2, <1>3, <2>3, FS_Subset
  <2>5. k \in Upto(i) BY <2>2, <2>4
  <2> QED BY <1>3, <2>1, <2>5
<1>4. rank \in Surjection(kept, 1..N)
  <2>1. rank \in Injection(kept, 1..N)
    <3>1. \A i, k \in kept : i <= k \/ k <= i OBVIOUS
    <3> HIDE DEF Upto, N
    <3> QED BY <1>2, <1>3, <3>1 DEF Injection, IsInjective
  <2>2. IsFiniteSet(1..N) /\ Cardinality(1..N) = N
    <3> HIDE DEF N
    <3> QED BY <1>1, FS_Interval
  <2> HIDE DEF rank
  <2> QED BY <1>1, <2>1, <2>2, FS_Injection
<1>5. ASSUME NEW n \in 1..N PROVE Nth(kept, n) \in kept /\ Cardinality(Upto(Nth(kept, n))) = n
  <2>1. \E i \in kept : Cardinality(Upto(i)) = n
    <3> HIDE DEF Upto, N
    <3> QED BY <1>4 DEF Surjection
  <2> QED BY <2>1 DEF Nth
<1>6. ASSUME NEW i \in kept PROVE \E n \in 1..N : Nth(kept, n) = i
  <2>1. PICK n \in 1..N : n = Cardinality(Upto(i)) BY <1>2
  <2>2. \A k \in kept : i <= k \/ k <= i OBVIOUS
  <2> HIDE DEF Upto, N
  <2> QED BY <1>3, <1>5, <2>1, <2>2
<1> QED BY <1>1, <1>5, <1>6

\* What remains of a sequence is made of those of its elements that were to remain.
LEMMA AmongKeeps ==
  ASSUME NEW T, NEW s \in Seq(T), NEW S
  PROVE  /\ Among(s, S) \in Seq(T)
         /\ ToSet(Among(s, S)) = ToSet(s) \cap S
<1> DEFINE kept == {i \in DOMAIN s : s[i] \in S}
           N == Cardinality(kept)
           rest == [n \in 1..N |-> s[Nth(kept, n)]]
<1>1. Len(s) \in Nat /\ DOMAIN s = 1..Len(s) /\ kept \in SUBSET (1..Len(s))
  OBVIOUS
<1>2. CASE kept = DOMAIN s
  <2>1. Among(s, S) = s BY <1>2 DEF Among
  <2>2. \A i \in DOMAIN s : s[i] \in S BY <1>2
  <2> HIDE DEF kept
  <2> QED BY <2>1, <2>2 DEF ToSet
<1>3. CASE kept # DOMAIN s
  <2>1. Among(s, S) = <<>> \o rest BY <1>3 DEF Among
  <2>2. /\ N \in Nat
        /\ \A n \in 1..N : Nth(kept, n) \in kept
        /\ \A i \in kept : \E n \in 1..N : Nth(kept, n) = i
    <3> HIDE DEF kept
    <3> QED BY <1>1, PlacesInOrder
  <2>3. \A n \in 1..N : s[Nth(kept, n)] \in T /\ s[Nth(kept, n)] \in S /\ Nth(kept, n) \in DOMAIN s
    <3>1. \A i \in kept : s[i] \in T /\ s[i] \in S /\ i \in DOMAIN s OBVIOUS
    <3> HIDE DEF kept
    <3> QED BY <2>2, <3>1
  <2>4. rest \in Seq(T)
    <3> HIDE DEF N, kept
    <3> QED BY <2>2, <2>3
  <2>5. Among(s, S) = rest
    <3> HIDE DEF rest
    <3> QED BY <2>1, <2>4
  <2>6. DOMAIN rest = 1..N /\ \A n \in 1..N : rest[n] = s[Nth(kept, n)]
    OBVIOUS
  <2>7. \A x \in ToSet(rest) : x \in ToSet(s) \cap S
    <3> HIDE DEF rest, N, kept
    <3> QED BY <2>3, <2>6 DEF ToSet
  <2>8. ASSUME NEW x \in ToSet(s) \cap S PROVE x \in ToSet(rest)
    <3>1. PICK i \in DOMAIN s : s[i] = x BY DEF ToSet
    <3>2. i \in kept BY <3>1
    <3> HIDE DEF rest, N, kept
    <3>3. PICK n \in 1..N : Nth(kept, n) = i BY <2>2, <3>2
    <3> QED BY <2>6, <3>1, <3>3 DEF ToSet
  <2> HIDE DEF rest
  <2> QED BY <2>4, <2>5, <2>7, <2>8
<1> QED BY <1>2, <1>3

-----------------------------------------------------------------------------
(* What one run of the drain loop takes. *)

FairlyTaken(q, home, n, busy, blocked, T) ==
  /\ T \subseteq q
  /\ \A c \in T : home[c] \notin busy /\ ~FencedIn(blocked, home[c])
  /\ \A c, d \in T : home[c] = home[d] => c = d
  /\ \A c \in T, d \in q : home[c] = home[d] => c <= d
  /\ n + Cardinality(T) \in Nat
  /\ n + Cardinality(T) <= MaxConcurrent
  /\ n + Cardinality(T) < MaxConcurrent =>
       \A c \in q \ T : \/ home[c] \in busy
                        \/ home[c] \in SessionsOf(home, T)
                        \/ FencedIn(blocked, home[c])
  /\ IsFiniteSet(busy \cup SessionsOf(home, T))
  /\ Cardinality(busy \cup SessionsOf(home, T)) = n + Cardinality(T)

LEMMA TakenFacts ==
  ASSUME NEW q \in SUBSET Calls,
         NEW home, \A c \in q : home[c] \in Sessions,
         NEW busy, IsFiniteSet(busy),
         NEW n \in Nat, n = Cardinality(busy), n <= MaxConcurrent,
         NEW blocked,
         NEW T, T = Taken(q, home, n, busy, blocked)
  PROVE  FairlyTaken(q, home, n, busy, blocked, T)
<1> DEFINE able == Startable(q, home, busy, blocked)
           before(c) == {d \in able : d < c}
<1>1. /\ able \subseteq q /\ T \subseteq able /\ q \subseteq Nat /\ able \subseteq Nat
      /\ T \subseteq Nat /\ T \subseteq 0..MaxCalls
  <2>1. able \subseteq q /\ T \subseteq able /\ q \subseteq 1..MaxCalls
    BY DEF Startable, Taken, Calls
  <2>2. 1..MaxCalls \subseteq Nat /\ 1..MaxCalls \subseteq 0..MaxCalls
    BY LimiterAssumption
  <2> HIDE DEF able
  <2> QED BY <2>1, <2>2
<1>2. T = {c \in able : n + Cardinality(before(c)) < MaxConcurrent}
  BY DEF Taken
<1>3. /\ \A c \in able : home[c] \notin busy /\ ~FencedIn(blocked, home[c])
      /\ \A c \in able, d \in q : home[c] = home[d] => c <= d
  BY DEF Startable
<1>4. ASSUME NEW c \in able, NEW d \in able, home[c] = home[d]
      PROVE  c = d
  <2>1. c \in Nat /\ d \in Nat /\ c \in q /\ d \in q
    BY <1>1
  <2>2. c <= d /\ d <= c
    BY <1>3, <1>4, <2>1
  <2> QED BY <2>1, <2>2
<1>5. \A S \in SUBSET able : IsFiniteSet(S) /\ Cardinality(S) \in Nat
  BY <1>1, CallsFinite
<1>6. \A c \in able : before(c) \in SUBSET able
  OBVIOUS
<1> HIDE DEF able
<1>7. n + Cardinality(T) <= MaxConcurrent
  <2>1. CASE T = {}
    BY <2>1, FS_EmptySet, LimiterAssumption
  <2>2. CASE T # {}
    <3>1. T \subseteq 0..MaxCalls
      BY <1>1
    <3>2. PICK y \in T : \A c \in T : c <= y
      BY <2>2, <3>1, GreatestNatural, LimiterAssumption
    <3>3. T \in SUBSET (before(y) \cup {y})
      <4>1. ASSUME NEW c \in T, c # y PROVE c \in able /\ c < y
        <5>1. c \in Nat /\ y \in Nat /\ c <= y
          BY <1>1, <3>2
        <5> QED BY <1>1, <4>1, <5>1
      <4> QED BY <4>1
    <3>4. y \in able /\ n + Cardinality(before(y)) < MaxConcurrent
      BY <1>2
    <3>5. IsFiniteSet(before(y)) /\ Cardinality(before(y)) \in Nat
      BY <1>5, <1>6, <3>4
    <3>6. /\ IsFiniteSet(before(y) \cup {y})
          /\ Cardinality(before(y) \cup {y}) = Cardinality(before(y)) + 1
      <4>1. y \notin before(y)
        BY <1>1, <3>4
      <4> HIDE DEF before
      <4> QED BY <3>5, <4>1, FS_AddElement
    <3>7. Cardinality(T) <= Cardinality(before(y)) + 1
      BY <3>3, <3>6, FS_Subset
    <3>8. Cardinality(T) \in Nat
      BY <1>1, <1>5
    <3> QED BY <3>4, <3>5, <3>7, <3>8, LimiterAssumption
  <2> QED BY <2>1, <2>2
<1>8. ASSUME n + Cardinality(T) < MaxConcurrent
      PROVE  T = able
  <2>1. SUFFICES ASSUME able \ T # {} PROVE FALSE
    BY <1>1
  <2>2. PICK x \in able \ T : \A c \in able \ T : x <= c
    BY <1>1, <2>1, LeastNatural
  <2>3. before(x) \in SUBSET T
    <3>1. ASSUME NEW d \in able, d < x PROVE d \in T
      <4>1. d \in Nat /\ x \in Nat
        BY <1>1, <2>2
      <4> QED BY <2>2, <3>1, <4>1
    <3> QED BY <3>1
  <2>4. ~ (n + Cardinality(before(x)) < MaxConcurrent)
    BY <1>2, <2>2
  <2>5. IsFiniteSet(T) /\ Cardinality(T) \in Nat
    BY <1>1, <1>5
  <2>6. Cardinality(before(x)) <= Cardinality(T) /\ Cardinality(before(x)) \in Nat
    BY <1>5, <1>6, <2>2, <2>3, <2>5, FS_Subset
  <2> QED BY <1>8, <2>4, <2>5, <2>6, LimiterAssumption
<1>9. ASSUME NEW c \in q, home[c] \notin busy, ~FencedIn(blocked, home[c])
      PROVE  \E d \in able : home[d] = home[c]
  <2> DEFINE same == {d \in q : home[d] = home[c]}
  <2>1. same \subseteq Nat /\ same # {}
    BY <1>1, <1>9
  <2>2. PICK d \in same : \A e \in same : d <= e
    <3> HIDE DEF same
    <3> QED BY <2>1, LeastNatural
  <2>3. d \in able
    BY <1>9, <2>2 DEF able, Startable
  <2> QED BY <2>2, <2>3
<1>10. /\ IsFiniteSet(busy \cup SessionsOf(home, T))
       /\ Cardinality(busy \cup SessionsOf(home, T)) = n + Cardinality(T)
  <2> DEFINE H == SessionsOf(home, T)
  <2>1. [c \in T |-> home[c]] \in Bijection(T, H)
    <3>1. \A c, d \in T : home[c] = home[d] => c = d
      BY <1>1, <1>4
    <3> QED BY <3>1 DEF Bijection, Injection, Surjection, IsInjective, SessionsOf
  <2>2. IsFiniteSet(T)
    BY <1>1, <1>5
  <2> HIDE DEF H
  <2>3. IsFiniteSet(H) /\ Cardinality(H) = Cardinality(T)
    BY <2>1, <2>2, FS_Bijection DEF ExistsBijection
  <2>4. busy \cap H = {}
    BY <1>1, <1>3 DEF H, SessionsOf
  <2>5. Cardinality(T) \in Nat
    BY <1>1, <1>5
  <2>6. Cardinality(busy \cap H) = 0
    BY <2>4, FS_EmptySet
  <2>7. /\ IsFiniteSet(busy \cup H)
        /\ Cardinality(busy \cup H) = Cardinality(busy) + Cardinality(H) - Cardinality(busy \cap H)
    BY <2>3, FS_Union
  <2>8. IsFiniteSet(busy \cup H) /\ Cardinality(busy \cup H) = n + Cardinality(T)
    BY <2>3, <2>5, <2>6, <2>7
  <2> QED BY <2>8 DEF H
<1>11. n + Cardinality(T) \in Nat
  BY <1>1, <1>5
<1> QED
  BY <1>1, <1>3, <1>4, <1>7, <1>8, <1>9, <1>10, <1>11 DEF SessionsOf, FairlyTaken

Drained(q, n, busy, at) ==
  /\ active' \in Nat /\ activeSessions' \subseteq Sessions
  /\ queue' \subseteq q /\ phase' \in [Calls -> Phases]
  /\ \A c \in Calls : c \in queue' <=> phase'[c] = "queued"
  /\ \A c \in Calls : \/ phase'[c] = at[c]
                      \/ at[c] = "queued" /\ phase'[c] = "slotted"
  /\ SlotAccounting' /\ SessionExclusion'
  /\ WorkConserving' /\ NoQueueBehindFence'
  /\ n < MaxConcurrent /\ (\E c \in q : sess'[c] \notin busy) => queue' # q
  /\ \A s \in activeSessions' : s \in busy \/ blockedSessions'[s] = {}

\* What _drain leaves behind when it starts from a queue without fenced calls
\* and from slots that agree with the phases.
LEMMA DrainStep ==
  ASSUME NEW q \in SUBSET Calls, NEW n \in Nat, NEW busy \in SUBSET Sessions,
         NEW at \in [Calls -> Phases],
         Drain(q, sess', n, busy, blockedSessions', at),
         \A c \in q : sess'[c] \in Sessions,
         \A c \in Calls : c \in q <=> at[c] = "queued",
         \A c \in q : ~FencedIn(blockedSessions', sess'[c]),
         IsFiniteSet(busy), n = Cardinality(busy), n <= MaxConcurrent,
         busy = SessionsOf(sess', {d \in Calls : at[d] \in SlotPhases}),
         \A c, d \in Calls :
           at[c] \in SlotPhases /\ at[d] \in SlotPhases /\ sess'[c] = sess'[d] => c = d
  PROVE  Drained(q, n, busy, at)
<1> DEFINE T == Taken(q, sess', n, busy, blockedSessions')
<1>1. FairlyTaken(q, sess', n, busy, blockedSessions', T)
  <2> HIDE DEF T
  <2>1. T = Taken(q, sess', n, busy, blockedSessions')
    BY DEF T
  <2> QED BY <2>1, TakenFacts
<1>2. /\ queue' = q \ T /\ active' = n + Cardinality(T)
      /\ activeSessions' = busy \cup SessionsOf(sess', T)
      /\ phase' = [c \in Calls |-> IF c \in T THEN "slotted" ELSE at[c]]
  BY DEF Drain
<1> HIDE DEF T
<1>3. \A c \in T : at[c] = "queued"
  BY <1>1 DEF FairlyTaken
<1>4. phase' \in [Calls -> Phases]
  BY <1>2 DEF Phases
<1>5. \A c \in Calls : c \in queue' <=> phase'[c] = "queued"
  BY <1>2, <1>3
<1>6. \A c \in Calls : phase'[c] \in SlotPhases <=> (c \in T \/ at[c] \in SlotPhases)
  BY <1>2 DEF SlotPhases
<1>7. activeSessions' = SessionsOf(sess', {d \in Calls : phase'[d] \in SlotPhases})
  BY <1>1, <1>2, <1>6 DEF SessionsOf, FairlyTaken
<1>8. SlotAccounting'
  BY <1>1, <1>2, <1>7 DEF SlotAccounting, HoldsSlot, FairlyTaken
<1>9. SessionExclusion'
  <2>1. SUFFICES ASSUME NEW c \in Calls, NEW d \in Calls, sess'[c] = sess'[d],
                        c \in T \/ at[c] \in SlotPhases,
                        d \in T \/ at[d] \in SlotPhases
                 PROVE  c = d
    BY <1>6 DEF SessionExclusion, HoldsSlot
  <2>2. CASE c \in T /\ d \in T
    BY <1>1, <2>1, <2>2 DEF FairlyTaken
  <2>3. CASE at[c] \in SlotPhases /\ at[d] \in SlotPhases
    BY <2>1, <2>3
  <2>4. CASE c \in T /\ at[d] \in SlotPhases
    BY <1>1, <2>1, <2>4 DEF SessionsOf, FairlyTaken
  <2>5. CASE d \in T /\ at[c] \in SlotPhases
    BY <1>1, <2>1, <2>5 DEF SessionsOf, FairlyTaken
  <2> QED BY <2>1, <2>2, <2>3, <2>4, <2>5
<1>10. NoQueueBehindFence'
  BY <1>2 DEF NoQueueBehindFence, FencedIn
<1>11. WorkConserving'
  BY <1>1, <1>2 DEF WorkConserving, SessionsOf, FairlyTaken
<1>12. activeSessions' \subseteq Sessions
  BY <1>1, <1>2 DEF SessionsOf, FairlyTaken
<1>13. ASSUME n < MaxConcurrent, NEW c \in q, sess'[c] \notin busy
       PROVE  queue' # q
  <2>1. SUFFICES ASSUME T = {} PROVE FALSE
    BY <1>1, <1>2 DEF FairlyTaken
  <2>2. Cardinality(T) = 0 /\ SessionsOf(sess', T) = {}
    BY <2>1, FS_EmptySet DEF SessionsOf
  <2> QED BY <1>1, <1>13, <2>1, <2>2 DEF FairlyTaken
<1>14. \A s \in activeSessions' : s \in busy \/ blockedSessions'[s] = {}
  BY <1>1, <1>2 DEF FairlyTaken, SessionsOf, FencedIn
<1> QED
  BY <1>1, <1>2, <1>3, <1>4, <1>5, <1>8, <1>9, <1>10, <1>11, <1>12, <1>13, <1>14
     DEF FairlyTaken, Drained

-----------------------------------------------------------------------------
(* The inductive invariant.  Most actions leave the slots and the queue      *)
(* alone, or only shorten the queue; the two lemmas say so once.             *)

Structure ==
  /\ CallBook /\ SlotAccounting /\ SessionExclusion
  /\ WorkConserving /\ NoQueueBehindFence /\ QueueBounded

LEMMA SlotsUnmoved ==
  ASSUME TypeOK, Structure,
         UNCHANGED <<queueVars, calls, sess>>,
         phase' \in [Calls -> Phases],
         \A c \in Calls : \/ phase'[c] = phase[c]
                          \/ phase[c] \in SlotPhases /\ phase'[c] \in SlotPhases
  PROVE  Structure'
<1>1. \A c \in Calls : /\ phase'[c] \in SlotPhases <=> phase[c] \in SlotPhases
                       /\ phase'[c] = "queued" <=> phase[c] = "queued"
                       /\ phase'[c] = "unmade" <=> phase[c] = "unmade"
  BY DEF SlotPhases
<1>2. CallBook'
  BY <1>1 DEF Structure, CallBook, queueVars
<1>3. {d \in Calls : HoldsSlot(d)}' = {d \in Calls : HoldsSlot(d)}
  BY <1>1 DEF HoldsSlot
<1>4. SlotAccounting'
  BY <1>3 DEF Structure, SlotAccounting, queueVars
<1>5. SessionExclusion'
  BY <1>1 DEF Structure, SessionExclusion, HoldsSlot
<1>6. WorkConserving' /\ NoQueueBehindFence' /\ QueueBounded'
  BY DEF Structure, WorkConserving, NoQueueBehindFence, QueueBounded, queueVars
<1> QED BY <1>2, <1>4, <1>5, <1>6 DEF Structure

LEMMA QueueShortened ==
  ASSUME TypeOK, Structure, NEW S,
         CancelQueued(S),
         UNCHANGED <<active, activeSessions, calls, sess>>,
         closed' \in BOOLEAN, closed => closed',
         closed' => queue' = {},
         \A c \in queue' : blockedSessions'[sess[c]] = {}
  PROVE  Structure' /\ phase' \in [Calls -> Phases] /\ queue' \in SUBSET Calls
<1> DEFINE cancelled == {c \in queue : sess[c] \in S}
<1>1. queue' = queue \ cancelled
  BY DEF CancelQueued
<1>2. \A c \in Calls : phase'[c] = IF c \in cancelled THEN "refused" ELSE phase[c]
  BY DEF CancelQueued
<1>3. phase' \in [Calls -> Phases]
  BY DEF CancelQueued, TypeOK, Phases
<1>4. \A c \in cancelled : phase[c] = "queued"
  BY DEF Structure, CallBook, TypeOK
<1> HIDE DEF cancelled
<1>5. \A c \in Calls : /\ phase'[c] \in SlotPhases <=> phase[c] \in SlotPhases
                       /\ phase'[c] = "unmade" <=> phase[c] = "unmade"
                       /\ c \in queue' <=> phase'[c] = "queued"
  BY <1>1, <1>2, <1>4 DEF SlotPhases, Structure, CallBook
<1>6. CallBook'
  BY <1>5 DEF Structure, CallBook
<1>7. {d \in Calls : HoldsSlot(d)}' = {d \in Calls : HoldsSlot(d)}
  BY <1>5 DEF HoldsSlot
<1>8. SlotAccounting'
  BY <1>7 DEF Structure, SlotAccounting
<1>9. SessionExclusion'
  BY <1>5 DEF Structure, SessionExclusion, HoldsSlot
<1>10. WorkConserving' /\ NoQueueBehindFence'
  BY <1>1 DEF Structure, WorkConserving, NoQueueBehindFence
<1>11. QueueBounded'
  <2>1. IsFiniteSet(queue) /\ Cardinality(queue) \in Nat /\ queue' \in SUBSET queue
    BY <1>1, CallsFinite DEF TypeOK
  <2>2. Cardinality(queue') <= Cardinality(queue) /\ Cardinality(queue') \in Nat
    BY <2>1, FS_Subset, FS_CardinalityType
  <2> QED BY <2>1, <2>2, LimiterAssumption DEF Structure, QueueBounded
<1> QED BY <1>1, <1>3, <1>6, <1>8, <1>9, <1>10, <1>11 DEF Structure, TypeOK

LEMMA IndInvParts == IndInv <=> TypeOK /\ Structure /\ LeaseBook /\ StepsInsideSlot
  BY DEF IndInv, Structure

LEMMA InitIndInv == Init => IndInv
<1> SUFFICES ASSUME Init PROVE IndInv
  OBVIOUS
<1>1. TypeOK
  <2>1. 0 \in 0..MaxSteps /\ 0 \in 0..MaxCalls
    BY LimiterAssumption
  <2>2. NoLease \in [accepting : BOOLEAN, accepted : 0..MaxSteps,
                     finished : 0..MaxSteps, head : {"idle", "admitted", "running"}]
    BY <2>1 DEF NoLease
  <2>3. "unmade" \in Phases
    BY DEF Phases
  <2> QED BY <2>1, <2>2, <2>3 DEF Init, TypeOK
<1>2. CallBook /\ LeaseBook /\ StepsInsideSlot
  BY LimiterAssumption DEF Init, CallBook, LeaseBook, StepsInsideSlot, NoLease, Calls
<1>3. SlotAccounting /\ SessionExclusion
  <2>1. {d \in Calls : HoldsSlot(d)} = {}
    BY DEF Init, HoldsSlot, SlotPhases
  <2> QED
    BY <2>1, FS_EmptySet, LimiterAssumption
       DEF Init, SlotAccounting, SessionExclusion, SessionsOf
<1>4. WorkConserving /\ NoQueueBehindFence /\ QueueBounded
  BY FS_EmptySet, LimiterAssumption DEF Init, WorkConserving, NoQueueBehindFence, QueueBounded
<1> QED BY <1>1, <1>2, <1>3, <1>4 DEF IndInv

\* A session that gets a slot is not fenced.
GrantsUnfenced ==
  \A r \in activeSessions' : r \in activeSessions \/ blockedSessions'[r] = {}

\* _enqueue: the new call is queued, the queue is drained.
LEMMA EnqueueKeeps ==
  ASSUME IndInv, NEW s \in Sessions, NEW leased \in BOOLEAN, Enqueue(s, leased)
  PROVE  IndInv' /\ GrantsUnfenced
<1> DEFINE c == calls + 1
           q == queue \cup {c}
           at == [phase EXCEPT ![c] = "queued"]
<1> USE DEF IndInv
<1>1. /\ c \in Calls /\ calls' = c /\ calls' \in 0..MaxCalls
      /\ sess' = [sess EXCEPT ![c] = s] /\ sess' \in [Calls -> Sessions \cup {NoSession}]
      /\ withLease' \in [Calls -> BOOLEAN]
      /\ phase[c] = "unmade" /\ c \notin queue
  BY LimiterAssumption DEF Enqueue, Made, TypeOK, CallBook, Calls
<1>2. /\ ~closed /\ blockedSessions[s] = {}
      /\ (active < MaxConcurrent /\ s \notin activeSessions) \/ Cardinality(queue) < MaxQueued
      /\ UNCHANGED <<closed, blockedSessions, lease, settlement>>
  BY DEF Enqueue, Admissible, Made, CanStartImmediately, Blocked, FencedIn
<1>3. /\ q \in SUBSET Calls /\ at \in [Calls -> Phases] /\ active \in Nat
      /\ activeSessions \in SUBSET Sessions
  BY <1>1 DEF TypeOK, Phases
<1>4. Drain(q, sess', active, activeSessions, blockedSessions', at)
  BY <1>2 DEF Enqueue
<1>5. \A d \in q : sess'[d] \in Sessions
  BY <1>1 DEF CallBook, TypeOK
<1>6. \A d \in Calls : /\ d \in q <=> at[d] = "queued"
                       /\ at[d] \in SlotPhases <=> phase[d] \in SlotPhases
                       /\ at[d] \in SlotPhases => sess'[d] = sess[d]
  BY <1>1 DEF CallBook, TypeOK, SlotPhases
<1>7. \A d \in q : ~FencedIn(blockedSessions', sess'[d])
  BY <1>1, <1>2, ZenonT(60) DEF NoQueueBehindFence, FencedIn, TypeOK
<1>8. IsFiniteSet(activeSessions) /\ active = Cardinality(activeSessions) /\ active <= MaxConcurrent
  BY LimiterAssumption, FS_Subset DEF SlotAccounting, TypeOK
<1>9. activeSessions = SessionsOf(sess', {d \in Calls : at[d] \in SlotPhases})
  BY <1>6 DEF SlotAccounting, SessionsOf, HoldsSlot
<1>10. \A d, e \in Calls :
         at[d] \in SlotPhases /\ at[e] \in SlotPhases /\ sess'[d] = sess'[e] => d = e
  BY <1>6 DEF SessionExclusion, HoldsSlot
<1> HIDE DEF q, at, c
<1>11. Drained(q, active, activeSessions, at)
  BY <1>3, <1>4, <1>5, <1>6, <1>7, <1>8, <1>9, <1>10, DrainStep
<1>12. /\ SlotAccounting' /\ SessionExclusion' /\ WorkConserving' /\ NoQueueBehindFence'
       /\ \A d \in Calls : \/ phase'[d] = at[d]
                           \/ at[d] = "queued" /\ phase'[d] = "slotted"
  BY <1>11 DEF Drained
<1>13. \A d \in Calls : \/ d # c /\ phase'[d] = phase[d]
                        \/ d # c /\ phase[d] = "queued" /\ phase'[d] = "slotted"
                        \/ d = c /\ phase'[d] \in {"queued", "slotted"}
  BY <1>12 DEF at, TypeOK
<1>14. TypeOK'
  BY <1>1, <1>2, <1>3, <1>11 DEF Drained, TypeOK
<1>15. CallBook'
  <2>1. \A d \in Calls : d <= calls' <=> phase'[d] # "unmade"
    <3> SUFFICES ASSUME NEW d \in Calls PROVE d <= calls' <=> phase'[d] # "unmade"
      OBVIOUS
    <3>1. d \in Nat /\ calls \in Nat
      BY LimiterAssumption DEF TypeOK, Calls
    <3>2. d <= calls' <=> d <= calls \/ d = c
      BY <1>1, <3>1 DEF c
    <3> QED BY <1>13, <3>2 DEF CallBook
  <2>2. \A d \in Calls : phase'[d] # "unmade" => sess'[d] \in Sessions
    BY <1>1, <1>13 DEF CallBook, TypeOK
  <2> QED BY <1>2, <1>11, <2>1, <2>2 DEF CallBook, Drained
<1>16. LeaseBook' /\ StepsInsideSlot'
  <2>1. \A d \in Calls : lease'[d] = lease[d]
    BY <1>2
  <2>2. \A d \in Calls : phase[d] \in {"running", "draining"} => phase'[d] = phase[d]
    BY <1>1, <1>13
  <2>3. \A d \in Calls : /\ d # c => withLease'[d] = withLease[d]
                         /\ phase'[d] = "unmade" => phase[d] = "unmade"
    BY <1>1, <1>13 DEF Enqueue, Made, TypeOK, c
  <2>4. ~ lease[c].accepting /\ ~ lease[c].accepted > 0
    BY <1>1 DEF LeaseBook
  <2> QED BY <2>1, <2>2, <2>3, <2>4 DEF LeaseBook, StepsInsideSlot
<1>17. QueueBounded'
  <2>1. IsFiniteSet(queue) /\ Cardinality(queue) \in Nat
    BY CallsFinite DEF TypeOK
  <2>2. IsFiniteSet(q) /\ Cardinality(q) = Cardinality(queue) + 1
    BY <1>1, <2>1, FS_AddElement DEF q
  <2>3. /\ queue' \in SUBSET q /\ Cardinality(queue') \in Nat /\ Cardinality(queue') <= Cardinality(q)
        /\ Cardinality(queue') = Cardinality(q) => queue' = q
    BY <1>11, <2>2, FS_Subset, FS_CardinalityType DEF Drained
  <2>4. CASE Cardinality(queue) < MaxQueued
    BY <2>1, <2>2, <2>3, <2>4, LimiterAssumption DEF QueueBounded
  <2>5. CASE active < MaxConcurrent /\ s \notin activeSessions
    <3>1. c \in q /\ sess'[c] \notin activeSessions
      BY <1>1, <2>5 DEF q, TypeOK
    <3>2. queue' # q
      BY <1>11, <2>5, <3>1 DEF Drained
    <3> QED BY <2>1, <2>2, <2>3, <3>2, LimiterAssumption DEF QueueBounded
  <2> QED BY <1>2, <2>4, <2>5
<1> QED BY <1>11, <1>12, <1>14, <1>15, <1>16, <1>17 DEF Drained, GrantsUnfenced

LEMMA EnqueueRefusedKeeps ==
  ASSUME IndInv, NEW s \in Sessions, NEW leased \in BOOLEAN, EnqueueRefused(s, leased)
  PROVE  IndInv'
<1> DEFINE c == calls + 1
<1> USE DEF IndInv
<1>1. /\ c \in Calls /\ calls' = c /\ calls' \in 0..MaxCalls
      /\ sess' = [sess EXCEPT ![c] = s] /\ sess' \in [Calls -> Sessions \cup {NoSession}]
      /\ withLease' \in [Calls -> BOOLEAN]
      /\ phase[c] = "unmade" /\ c \notin queue
  BY LimiterAssumption DEF EnqueueRefused, Made, TypeOK, CallBook, Calls
<1>2. /\ phase' = [phase EXCEPT ![c] = "refused"]
      /\ UNCHANGED <<active, activeSessions, queue, closed, blockedSessions, lease, settlement>>
  BY DEF EnqueueRefused, Made
<1>3. TypeOK'
  BY <1>1, <1>2 DEF TypeOK, Phases
<1>4. \A d \in Calls : \/ d # c /\ phase'[d] = phase[d] /\ sess'[d] = sess[d]
                       \/ d = c /\ phase'[d] = "refused" /\ phase[d] = "unmade" /\ sess'[d] \in Sessions
  BY <1>1, <1>2 DEF TypeOK
<1>5. CallBook'
  <2>1. \A d \in Calls : d <= calls' <=> d <= calls \/ d = c
    BY <1>1, LimiterAssumption DEF TypeOK, Calls
  <2> HIDE DEF c
  <2> QED BY <1>2, <1>4, <2>1 DEF CallBook
<1> HIDE DEF c
<1>6. LeaseBook' /\ StepsInsideSlot'
  <2>1. \A d \in Calls : d # c => withLease'[d] = withLease[d]
    BY <1>1 DEF EnqueueRefused, Made, TypeOK, c
  <2>2. ~ lease[c].accepting /\ ~ lease[c].accepted > 0
    BY <1>1 DEF LeaseBook
  <2> QED BY <1>2, <1>4, <2>1, <2>2 DEF LeaseBook, StepsInsideSlot
<1>7. SessionExclusion'
  BY <1>4 DEF SessionExclusion, HoldsSlot, SlotPhases
<1>8. SlotAccounting'
  <2>1. SessionsOf(sess', {d \in Calls : HoldsSlot(d)}') = SessionsOf(sess, {d \in Calls : HoldsSlot(d)})
    BY <1>4 DEF SessionsOf, HoldsSlot, SlotPhases
  <2> QED BY <1>2, <2>1 DEF SlotAccounting
<1>9. WorkConserving' /\ NoQueueBehindFence' /\ QueueBounded'
  BY <1>1, <1>2, <1>4 DEF WorkConserving, NoQueueBehindFence, QueueBounded, TypeOK
<1> QED BY <1>3, <1>5, <1>6, <1>7, <1>8, <1>9

\* The promise chain of a call: its slot stays, or is released.
LEMMA SlotStepKeeps ==
  ASSUME IndInv, NEW c \in Calls, Start(c) \/ TaskReturns(c) \/ LeaseDrained(c)
  PROVE  IndInv'
<1> USE DEF IndInv
<1>1. /\ UNCHANGED <<queueVars, calls, sess, withLease, settlement>>
      /\ phase' \in [Calls -> Phases]
      /\ \A d \in Calls : \/ phase'[d] = phase[d]
                          \/ phase[d] \in SlotPhases /\ phase'[d] \in SlotPhases
  BY DEF Start, TaskReturns, LeaseDrained, TypeOK, SlotPhases, Phases
<1>2. Structure'
  BY <1>1, SlotsUnmoved DEF Structure
<1>3. \A d \in Calls : /\ lease'[d].accepted = lease[d].accepted
                       /\ lease'[d].finished = lease[d].finished
                       /\ lease'[d].head = lease[d].head
                       /\ lease'[d].accepting =>
                            \/ phase'[d] = "running" /\ withLease[d]
                            \/ d # c /\ lease[d].accepting
  BY DEF Start, TaskReturns, LeaseDrained, TypeOK, LeaseBook
<1>4. TypeOK'
  <2>1. lease' \in [Calls -> [accepting : BOOLEAN, accepted : 0..MaxSteps,
                              finished : 0..MaxSteps, head : {"idle", "admitted", "running"}]]
    <3>1. \E b \in BOOLEAN : lease' = [lease EXCEPT ![c].accepting = b] \/ lease' = lease
      BY DEF Start, TaskReturns, LeaseDrained, TypeOK
    <3> QED BY <3>1 DEF TypeOK
  <2> QED BY <1>1, <2>1 DEF TypeOK, queueVars
<1>5. \A d \in Calls : d # c => phase'[d] = phase[d]
  BY DEF Start, TaskReturns, LeaseDrained, TypeOK
<1>6. LeaseBook'
  <2>1. \A d \in Calls : phase[d] # "unmade" => phase'[d] # "unmade"
    BY <1>1 DEF SlotPhases
  <2> QED BY <1>1, <1>3, <1>5, <2>1 DEF LeaseBook
<1>7. StepsInsideSlot'
  <2>1. SUFFICES ASSUME lease'[c].finished < lease'[c].accepted
                 PROVE  phase'[c] \in {"running", "draining"}
    BY <1>3, <1>5 DEF StepsInsideSlot
  <2>2. phase[c] \in {"running", "draining"}
    BY <1>3, <2>1 DEF StepsInsideSlot
  <2>3. CASE Start(c)
    BY <2>2, <2>3 DEF Start
  <2>4. CASE TaskReturns(c)
    <3>1. lease[c].accepted > 0
      BY <1>3, <2>1 DEF TypeOK
    <3>2. withLease[c]
      BY <3>1 DEF LeaseBook
    <3> QED BY <2>4, <3>2 DEF TaskReturns, TypeOK
  <2>5. CASE LeaseDrained(c)
    BY <1>3, <2>1, <2>5 DEF LeaseDrained, TypeOK
  <2> QED BY <2>3, <2>4, <2>5
<1> QED BY <1>2, <1>4, <1>6, <1>7 DEF Structure

LEMMA ReleaseKeeps ==
  ASSUME IndInv, NEW c \in Calls, Release(c)
  PROVE  IndInv' /\ GrantsUnfenced
<1> DEFINE n == active - 1
           busy == activeSessions \ {sess[c]}
           at == [phase EXCEPT ![c] = "over"]
<1> USE DEF IndInv
<1>1. /\ phase[c] = "settled" /\ sess[c] \in activeSessions
      /\ UNCHANGED <<closed, blockedSessions, calls, sess, withLease, lease, settlement>>
  BY DEF Release, SlotAccounting, SessionsOf, HoldsSlot, SlotPhases
<1>2. /\ IsFiniteSet(activeSessions) /\ active = Cardinality(activeSessions)
      /\ active \in Nat /\ active <= MaxConcurrent
  BY LimiterAssumption, FS_Subset DEF SlotAccounting, TypeOK
<1>3. IsFiniteSet(busy) /\ n = Cardinality(busy) /\ busy \in SUBSET Sessions
  BY <1>1, <1>2, FS_RemoveElement DEF TypeOK
<1>4. n \in Nat /\ n <= MaxConcurrent
  BY <1>2, <1>3, FS_CardinalityType, LimiterAssumption
<1>5. /\ at \in [Calls -> Phases]
      /\ \A d \in Calls : at[d] = IF d = c THEN "over" ELSE phase[d]
  BY DEF TypeOK, Phases
<1>6. \A d \in Calls : /\ at[d] \in SlotPhases <=> phase[d] \in SlotPhases /\ d # c
                       /\ d \in queue <=> at[d] = "queued"
                       /\ at[d] = "unmade" <=> phase[d] = "unmade"
  BY <1>1, <1>5 DEF SlotPhases, CallBook
<1>7. busy = SessionsOf(sess', {d \in Calls : at[d] \in SlotPhases})
  BY <1>1, <1>6 DEF SlotAccounting, SessionsOf, SessionExclusion, HoldsSlot, SlotPhases
<1>8. \A d, e \in Calls :
        at[d] \in SlotPhases /\ at[e] \in SlotPhases /\ sess'[d] = sess'[e] => d = e
  BY <1>1, <1>6 DEF SessionExclusion, HoldsSlot
<1>9. /\ queue \in SUBSET Calls
      /\ \A d \in queue : sess'[d] \in Sessions /\ ~FencedIn(blockedSessions', sess'[d])
  BY <1>1 DEF TypeOK, CallBook, NoQueueBehindFence, FencedIn
<1> HIDE DEF n, busy, at
<1>10. /\ SlotAccounting' /\ SessionExclusion' /\ WorkConserving' /\ NoQueueBehindFence'
       /\ active' \in Nat /\ activeSessions' \subseteq Sessions
       /\ queue' \subseteq queue /\ phase' \in [Calls -> Phases]
       /\ \A d \in Calls : /\ d \in queue' <=> phase'[d] = "queued"
                           /\ \/ phase'[d] = at[d]
                              \/ at[d] = "queued" /\ phase'[d] = "slotted"
       /\ \A r \in activeSessions' : r \in busy \/ blockedSessions'[r] = {}
  <2>1. CASE closed
    <3>1. /\ active' = n /\ activeSessions' = busy /\ phase' = at /\ queue' = queue
      BY <2>1 DEF Release, n, busy, at
    <3>2. SlotAccounting'
      BY <1>3, <1>4, <1>7, <3>1 DEF SlotAccounting, HoldsSlot
    <3>3. SessionExclusion'
      BY <1>8, <3>1 DEF SessionExclusion, HoldsSlot
    <3>4. WorkConserving' /\ NoQueueBehindFence'
      BY <1>1, <2>1, <3>1 DEF WorkConserving, NoQueueBehindFence, CallBook
    <3> QED BY <1>3, <1>4, <1>5, <1>6, <3>1, <3>2, <3>3, <3>4
  <2>2. CASE ~closed
    <3>1. Drain(queue, sess', n, busy, blockedSessions', at)
      BY <1>1, <2>2 DEF Release, n, busy, at
    <3>2. Drained(queue, n, busy, at)
      BY <1>3, <1>4, <1>5, <1>6, <1>7, <1>8, <1>9, <3>1, DrainStep
    <3> QED BY <3>2 DEF Drained
  <2> QED BY <2>1, <2>2
<1>11. TypeOK'
  BY <1>1, <1>10 DEF TypeOK
<1>12. CallBook'
  BY <1>1, <1>6, <1>10 DEF CallBook
<1>13. LeaseBook' /\ StepsInsideSlot'
  <2>1. \A d \in Calls : phase[d] \in {"running", "draining"} => phase'[d] = phase[d]
    BY <1>1, <1>5, <1>10
  <2>2. \A d \in Calls : phase[d] # "unmade" => phase'[d] # "unmade"
    BY <1>6, <1>10
  <2> QED BY <1>1, <2>1, <2>2 DEF LeaseBook, StepsInsideSlot
<1>14. QueueBounded'
  <2>1. IsFiniteSet(queue) /\ Cardinality(queue) \in Nat
    BY CallsFinite DEF TypeOK
  <2>2. Cardinality(queue') <= Cardinality(queue) /\ Cardinality(queue') \in Nat
    BY <1>10, <2>1, FS_Subset, FS_CardinalityType
  <2> QED BY <2>1, <2>2, LimiterAssumption DEF QueueBounded
<1> QED BY <1>10, <1>11, <1>12, <1>13, <1>14 DEF GrantsUnfenced, busy

\* The steps of a lease touch nothing but the lease.
LEMMA LeaseStepKeeps ==
  ASSUME IndInv, NEW c \in Calls,
         \/ ExecuteWithinLease(c) \/ StepTurn(c) \/ StepBegins(c) \/ StepSettles(c)
  PROVE  IndInv'
<1> USE DEF IndInv
<1>1. UNCHANGED <<queueVars, callVars, settlement>>
  BY DEF ExecuteWithinLease, StepTurn, StepBegins, StepSettles
<1>2. Structure'
  <2>1. phase' \in [Calls -> Phases]
    BY <1>1 DEF TypeOK, callVars
  <2> QED BY <1>1, <2>1, SlotsUnmoved DEF Structure, callVars
<1>3. /\ lease' \in [Calls -> [accepting : BOOLEAN, accepted : 0..MaxSteps,
                               finished : 0..MaxSteps, head : {"idle", "admitted", "running"}]]
      /\ lease'[c].finished <= lease'[c].accepted
      /\ lease'[c].head # "idle" => lease'[c].finished < lease'[c].accepted
      /\ lease'[c].accepting = lease[c].accepting
      /\ lease'[c].accepted > 0 => withLease[c] /\ phase[c] # "unmade"
      /\ lease'[c].finished < lease'[c].accepted => phase[c] \in {"running", "draining"}
      /\ \A d \in Calls : d # c => lease'[d] = lease[d]
  <2>1. /\ lease[c].accepted \in 0..MaxSteps /\ lease[c].finished \in 0..MaxSteps
        /\ lease[c].finished <= lease[c].accepted
    BY DEF TypeOK, LeaseBook
  <2>2. CASE ExecuteWithinLease(c)
    <3>1. /\ lease' = [lease EXCEPT ![c].accepted = lease[c].accepted + 1]
          /\ phase[c] \in {"running", "draining"}
          /\ lease[c].accepting /\ lease[c].accepted < MaxSteps
      BY <2>2 DEF ExecuteWithinLease, LeaseStep
    <3>2. lease[c].accepted + 1 \in 0..MaxSteps
      BY <2>1, <3>1, LimiterAssumption
    <3>3. lease' \in [Calls -> [accepting : BOOLEAN, accepted : 0..MaxSteps,
                                finished : 0..MaxSteps, head : {"idle", "admitted", "running"}]]
      BY <3>1, <3>2 DEF TypeOK
    <3>4. /\ lease'[c].accepted = lease[c].accepted + 1
          /\ lease'[c].finished = lease[c].finished
          /\ lease'[c].accepting = lease[c].accepting
          /\ \A d \in Calls : d # c => lease'[d] = lease[d]
      BY <3>1 DEF TypeOK
    <3>5. withLease[c] /\ phase[c] # "unmade"
      BY <3>1 DEF LeaseBook
    <3>6. lease[c].finished < lease[c].accepted + 1 /\ lease[c].finished <= lease[c].accepted + 1
      BY <2>1, LimiterAssumption
    <3> QED BY <3>1, <3>3, <3>4, <3>5, <3>6
  <2>3. CASE StepTurn(c)
    BY <2>1, <2>3, LimiterAssumption DEF StepTurn, TypeOK, LeaseBook, StepsInsideSlot
  <2>4. CASE StepBegins(c)
    BY <2>1, <2>4, LimiterAssumption DEF StepBegins, TypeOK, LeaseBook, StepsInsideSlot
  <2>5. CASE StepSettles(c)
    BY <2>1, <2>5, LimiterAssumption DEF StepSettles, TypeOK, LeaseBook, StepsInsideSlot
  <2> QED BY <2>2, <2>3, <2>4, <2>5
<1>4. TypeOK'
  BY <1>1, <1>3 DEF TypeOK, queueVars, callVars
<1>5. LeaseBook' /\ StepsInsideSlot'
  BY <1>1, <1>3 DEF LeaseBook, StepsInsideSlot, callVars
<1> QED BY <1>2, <1>4, <1>5 DEF Structure

\* Fences, cancellation and close only shorten the queue.
LEMMA FencesKeep ==
  ASSUME IndInv, NEW s \in Sessions, NEW f \in Fences, NEW kind \in {"pending", "never"},
         BlockSessionUntil(s, f, kind)
  PROVE  IndInv'
<1> USE DEF IndInv
<1>1. /\ CancelQueued({s})
      /\ blockedSessions' = [blockedSessions EXCEPT ![s] = @ \cup {f}]
      /\ UNCHANGED <<closed, active, activeSessions, calls, sess, withLease, lease>>
  BY DEF BlockSessionUntil
<1>2. \A c \in queue' : blockedSessions'[sess[c]] = {}
  BY <1>1 DEF CancelQueued, NoQueueBehindFence, CallBook, TypeOK
<1>3. closed' => queue' = {}
  BY <1>1 DEF CancelQueued, CallBook
<1>4. Structure' /\ phase' \in [Calls -> Phases] /\ queue' \in SUBSET Calls
  BY <1>1, <1>2, <1>3, QueueShortened DEF Structure, TypeOK
<1>5. TypeOK'
  BY <1>1, <1>4 DEF BlockSessionUntil, TypeOK
<1>6. LeaseBook' /\ StepsInsideSlot'
  BY <1>1 DEF LeaseBook, StepsInsideSlot, CancelQueued, CallBook, TypeOK
<1> QED BY <1>4, <1>5, <1>6 DEF Structure

LEMMA CancelKeeps ==
  ASSUME IndInv, NEW S, CancelQueued(S),
         UNCHANGED <<closed, active, activeSessions, blockedSessions,
                     calls, sess, withLease, lease, settlement>>
  PROVE  IndInv'
<1> USE DEF IndInv
<1>1. \A c \in queue' : blockedSessions'[sess[c]] = {}
  BY DEF CancelQueued, NoQueueBehindFence
<1>2. closed' => queue' = {}
  BY DEF CancelQueued, CallBook
<1>3. Structure' /\ phase' \in [Calls -> Phases] /\ queue' \in SUBSET Calls
  BY <1>1, <1>2, QueueShortened DEF Structure, TypeOK
<1>4. TypeOK'
  BY <1>3 DEF TypeOK
<1>5. LeaseBook' /\ StepsInsideSlot'
  BY DEF LeaseBook, StepsInsideSlot, CancelQueued, CallBook, TypeOK
<1> QED BY <1>3, <1>4, <1>5 DEF Structure

LEMMA CloseKeeps ==
  ASSUME IndInv, Close
  PROVE  IndInv'
<1> USE DEF IndInv
<1>1. /\ CancelQueued(Sessions) /\ closed' = TRUE
      /\ blockedSessions' = [s \in Sessions |-> {}]
      /\ UNCHANGED <<active, activeSessions, calls, sess, withLease, settlement>>
      /\ lease' = [c \in Calls |-> [lease[c] EXCEPT !.accepting = @ /\ ~LeaseActive(c)]]
  BY DEF Close
<1>2. \A c \in queue : sess[c] \in Sessions
  BY DEF CallBook, TypeOK
<1>3. queue' = {}
  BY <1>1, <1>2 DEF CancelQueued
<1>4. Structure' /\ phase' \in [Calls -> Phases] /\ queue' \in SUBSET Calls
  BY <1>1, <1>3, QueueShortened DEF Structure, TypeOK
<1>5. \A c \in Calls : /\ lease'[c].accepted = lease[c].accepted
                       /\ lease'[c].finished = lease[c].finished
                       /\ lease'[c].head = lease[c].head
                       /\ lease'[c].accepting = (lease[c].accepting /\ ~LeaseActive(c))
  BY <1>1 DEF TypeOK
<1>6. TypeOK'
  BY <1>1, <1>4 DEF TypeOK
<1>7. LeaseBook'
  <2>1. \A c \in Calls : ~ lease'[c].accepting
    BY <1>5 DEF LeaseActive, LeaseBook
  <2>2. \A c \in Calls : phase'[c] = "unmade" => phase[c] = "unmade"
    BY <1>1 DEF CancelQueued
  <2> QED BY <1>1, <1>5, <2>1, <2>2 DEF LeaseBook
<1>8. StepsInsideSlot'
  BY <1>1, <1>5 DEF StepsInsideSlot, CancelQueued, CallBook, TypeOK
<1> QED BY <1>4, <1>6, <1>7, <1>8 DEF Structure

LEMMA ReleaseSessionBlockKeeps ==
  ASSUME IndInv, NEW f \in Fences, ReleaseSessionBlock(f)
  PROVE  IndInv' /\ GrantsUnfenced
<1> USE DEF IndInv
<1>1. /\ UNCHANGED <<closed, calls, sess, withLease, lease>>
      /\ blockedSessions' = [s \in Sessions |-> blockedSessions[s] \ {f}]
      /\ settlement' = [settlement EXCEPT ![f] = "arrived"]
      /\ IF closed THEN UNCHANGED <<active, activeSessions, queue, phase>>
         ELSE Drain(queue, sess, active, activeSessions, blockedSessions', phase)
  BY DEF ReleaseSessionBlock
<1>2. /\ queue \in SUBSET Calls
      /\ \A d \in queue : sess'[d] \in Sessions /\ blockedSessions'[sess'[d]] = {}
  BY <1>1 DEF TypeOK, CallBook, NoQueueBehindFence
<1>3. /\ IsFiniteSet(activeSessions) /\ active = Cardinality(activeSessions)
      /\ active \in Nat /\ active <= MaxConcurrent
  BY LimiterAssumption, FS_Subset DEF SlotAccounting, TypeOK
<1>4. CASE closed
  <2>1. UNCHANGED <<closed, calls, sess, withLease, lease, active, activeSessions, queue, phase>>
    BY <1>1, <1>4
  <2>2. TypeOK'
    BY <1>1, <2>1 DEF TypeOK
  <2>3. CallBook' /\ LeaseBook' /\ StepsInsideSlot' /\ SessionExclusion' /\ SlotAccounting'
    BY <2>1 DEF CallBook, LeaseBook, StepsInsideSlot, SessionExclusion, SlotAccounting, HoldsSlot
  <2>4. WorkConserving' /\ NoQueueBehindFence' /\ QueueBounded'
    BY <1>2, <2>1 DEF WorkConserving, NoQueueBehindFence, QueueBounded
  <2> QED BY <2>1, <2>2, <2>3, <2>4 DEF GrantsUnfenced
<1>5. CASE ~closed
  <2>1. Drain(queue, sess', active, activeSessions, blockedSessions', phase)
    BY <1>1, <1>5
  <2>2. activeSessions = SessionsOf(sess', {d \in Calls : phase[d] \in SlotPhases})
    BY <1>1 DEF SlotAccounting, HoldsSlot
  <2>3. \A d, e \in Calls :
          phase[d] \in SlotPhases /\ phase[e] \in SlotPhases /\ sess'[d] = sess'[e] => d = e
    BY <1>1 DEF SessionExclusion, HoldsSlot
  <2>4. /\ \A d \in Calls : d \in queue <=> phase[d] = "queued"
        /\ \A d \in queue : ~FencedIn(blockedSessions', sess'[d])
    BY <1>2 DEF CallBook, FencedIn
  <2>5. Drained(queue, active, activeSessions, phase)
    BY <1>2, <1>3, <2>1, <2>2, <2>3, <2>4, DrainStep DEF TypeOK
  <2>6. TypeOK'
    BY <1>1, <2>5 DEF TypeOK, Drained
  <2>7. \A d \in Calls : \/ phase'[d] = phase[d]
                         \/ phase[d] = "queued" /\ phase'[d] = "slotted"
    BY <2>5 DEF Drained
  <2>8. CallBook' /\ LeaseBook' /\ StepsInsideSlot'
    BY <1>1, <1>5, <2>5, <2>7 DEF CallBook, LeaseBook, StepsInsideSlot, Drained
  <2>9. QueueBounded'
    <3>1. IsFiniteSet(queue) /\ Cardinality(queue) \in Nat
      BY CallsFinite DEF TypeOK
    <3>2. Cardinality(queue') <= Cardinality(queue) /\ Cardinality(queue') \in Nat
      BY <2>5, <3>1, FS_Subset, FS_CardinalityType DEF Drained
    <3> QED BY <3>1, <3>2, LimiterAssumption DEF QueueBounded
  <2> QED BY <2>5, <2>6, <2>8, <2>9 DEF Drained, GrantsUnfenced
<1> QED BY <1>4, <1>5

LEMMA NextIndInv ==
  ASSUME IndInv, [Next]_vars
  PROVE  IndInv' /\ GrantsUnfenced
<1>1. ASSUME NEW s \in Sessions, NEW leased \in BOOLEAN, Enqueue(s, leased)
      PROVE  IndInv' /\ GrantsUnfenced
  BY <1>1, EnqueueKeeps
<1>2. ASSUME NEW s \in Sessions, NEW leased \in BOOLEAN, EnqueueRefused(s, leased)
      PROVE  IndInv' /\ GrantsUnfenced
  BY <1>2, EnqueueRefusedKeeps DEF EnqueueRefused, GrantsUnfenced
<1>3. ASSUME NEW c \in Calls, Start(c) \/ TaskReturns(c) \/ LeaseDrained(c)
      PROVE  IndInv' /\ GrantsUnfenced
  BY <1>3, SlotStepKeeps DEF Start, TaskReturns, LeaseDrained, queueVars, GrantsUnfenced
<1>4. ASSUME NEW c \in Calls, Release(c)
      PROVE  IndInv' /\ GrantsUnfenced
  BY <1>4, ReleaseKeeps
<1>5. ASSUME NEW c \in Calls,
             ExecuteWithinLease(c) \/ StepTurn(c) \/ StepBegins(c) \/ StepSettles(c)
      PROVE  IndInv' /\ GrantsUnfenced
  BY <1>5, LeaseStepKeeps
     DEF ExecuteWithinLease, StepTurn, StepBegins, StepSettles, queueVars, GrantsUnfenced
<1>6. ASSUME NEW s \in Sessions, NEW f \in Fences, NEW kind \in {"pending", "never"},
             BlockSessionUntil(s, f, kind)
      PROVE  IndInv' /\ GrantsUnfenced
  BY <1>6, FencesKeep DEF BlockSessionUntil, GrantsUnfenced
<1>7. ASSUME NEW f \in Fences, ReleaseSessionBlock(f)
      PROVE  IndInv' /\ GrantsUnfenced
  BY <1>7, ReleaseSessionBlockKeeps
<1>8. ASSUME CancelAllQueued \/ \E s \in Sessions : CancelQueuedSession(s)
      PROVE  IndInv' /\ GrantsUnfenced
  BY <1>8, CancelKeeps DEF CancelQueuedSession, CancelAllQueued, GrantsUnfenced
<1>9. CASE Close
  BY <1>9, CloseKeeps DEF Close, GrantsUnfenced
<1>10. CASE UNCHANGED vars
  <2>1. IndInv'
    BY <1>10 DEF vars, queueVars, callVars, IndInv, TypeOK, CallBook, LeaseBook,
                 StepsInsideSlot, SlotAccounting, SessionExclusion, WorkConserving,
                 NoQueueBehindFence, QueueBounded, HoldsSlot
  <2> QED BY <1>10, <2>1 DEF vars, queueVars, GrantsUnfenced
<1> QED
  BY <1>1, <1>2, <1>3, <1>4, <1>5, <1>6, <1>7, <1>8, <1>9, <1>10 DEF Next, CallStep

-----------------------------------------------------------------------------
(* What any step of the limiter leaves true.                                *)

\* The limiter has gone so far that it may have called the task of e[1] (e[2] = 0) or
\* the e[2]-th step of its lease.
Begun(e) ==
  IF e[2] = 0 THEN phase[e[1]] \notin {"unmade", "queued", "slotted"}
  ELSE \/ e[2] <= lease[e[1]].finished
       \/ e[2] = lease[e[1]].finished + 1 /\ lease[e[1]].head = "running"

\* The call was given a slot, or refused.
Decided(c) == phase[c] \notin {"unmade", "queued"}

\* The limiter lets new work of the call's session begin.
Admits(c) == ~closed /\ blockedSessions[sess[c]] = {}

CallAdvances(c) ==
  /\ phase[c] # "unmade" =>
       phase'[c] # "unmade" /\ sess'[c] = sess[c] /\ withLease'[c] = withLease[c]
  /\ phase'[c] = "slotted" => phase[c] = "slotted" \/ Admits(c)'
  /\ lease'[c].head = "admitted" => lease[c].head = "admitted" \/ Admits(c)'
  /\ phase[c] = "running" /\ phase'[c] # "running" => TaskReturns(c)
  /\ lease[c].head = "running" =>
       (lease'[c].head = "running" /\ lease'[c].finished = lease[c].finished) \/ StepSettles(c)
  /\ \A k \in 0 .. MaxSteps : Begun(<<c, k>>) => Begun(<<c, k>>)'
  /\ Decided(c) => Decided(c)' /\ (HoldsSlot(c)' => HoldsSlot(c))

\* A fence stands until it is settled or the limiter closed.
FencesStand ==
  \A f \in Fences, s \in Sessions :
    f \in blockedSessions[s] /\ settlement'[f] = settlement[f] /\ ~closed' => f \in blockedSessions'[s]

Advance ==
  /\ IndInv /\ IndInv'
  /\ closed => closed'
  /\ GrantsUnfenced /\ FencesStand
  /\ \A c \in Calls : CallAdvances(c)

\* _drain takes calls from the queue whose session is not fenced.
OnlyTakes(q, home, blocked, at) ==
  \A c \in Calls : \/ phase'[c] = at[c]
                   \/ phase'[c] = "slotted" /\ c \in q /\ blocked[home[c]] = {}

LEMMA DrainTakesQueued ==
  ASSUME NEW q, NEW home, NEW n, NEW busy, NEW blocked, NEW at, Drain(q, home, n, busy, blocked, at)
  PROVE  OnlyTakes(q, home, blocked, at)
BY DEF Drain, Taken, Startable, FencedIn, OnlyTakes

LEMMA LimiterAdvances ==
  ASSUME IndInv, [Next]_vars
  PROVE  Advance
<1>0. IndInv' /\ GrantsUnfenced BY NextIndInv
<1>1. closed => closed'
  BY DEF Next, CallStep, vars, queueVars, callVars, Enqueue, EnqueueRefused, Made, Start, TaskReturns,
         LeaseDrained, Release, StepTurn, StepBegins, StepSettles, ExecuteWithinLease,
         BlockSessionUntil, ReleaseSessionBlock, CancelQueuedSession, CancelAllQueued, Close
<1>1a. FencesStand
  <2> USE DEF FencesStand, IndInv, TypeOK
  <2>1. CASE UNCHANGED blockedSessions
    BY <2>1
  <2>2. ASSUME NEW s \in Sessions, NEW f \in Fences, NEW kind \in {"pending", "never"},
               BlockSessionUntil(s, f, kind)
        PROVE  FencesStand
    BY <2>2 DEF BlockSessionUntil
  <2>3. ASSUME NEW f \in Fences, ReleaseSessionBlock(f) PROVE FencesStand
    BY <2>3 DEF ReleaseSessionBlock
  <2>4. CASE Close BY <2>4 DEF Close
  <2>5. \/ UNCHANGED blockedSessions
        \/ \E s \in Sessions, f \in Fences, kind \in {"pending", "never"} : BlockSessionUntil(s, f, kind)
        \/ (\E f \in Fences : ReleaseSessionBlock(f)) \/ Close
    BY DEF Next, CallStep, vars, queueVars, callVars, Enqueue, EnqueueRefused, Made, Start, TaskReturns,
           LeaseDrained, Release, StepTurn, StepBegins, StepSettles, ExecuteWithinLease,
           CancelQueuedSession, CancelAllQueued
  <2> QED BY <2>1, <2>2, <2>3, <2>4, <2>5
<1> SUFFICES ASSUME NEW c \in Calls PROVE CallAdvances(c)
  BY <1>0, <1>1, <1>1a DEF Advance
<1>2. /\ lease[c] \in [accepting : BOOLEAN, accepted : 0..MaxSteps,
                       finished : 0..MaxSteps, head : {"idle", "admitted", "running"}]
      /\ lease \in [Calls -> [accepting : BOOLEAN, accepted : 0..MaxSteps,
                       finished : 0..MaxSteps, head : {"idle", "admitted", "running"}]]
      /\ phase \in [Calls -> Phases] /\ sess \in [Calls -> Sessions \cup {NoSession}]
      /\ withLease \in [Calls -> BOOLEAN] /\ blockedSessions \in [Sessions -> SUBSET Fences]
  BY DEF IndInv, TypeOK
<1>3. /\ \A d \in queue : d \in Calls /\ phase[d] = "queued"
      /\ \A d \in Calls : d = calls + 1 => phase[d] = "unmade"
      /\ closed \in BOOLEAN
  BY DEF IndInv, CallBook, TypeOK, Calls
<1>4. MaxSteps \in Nat /\ lease[c].finished \in Nat /\ lease[c].accepted \in Nat
  BY <1>2, LimiterAssumption
<1> USE <1>2, <1>3, <1>4 DEF CallAdvances, Begun, Admits, Decided, HoldsSlot, SlotPhases
<1>5. ASSUME NEW s \in Sessions, NEW leased \in BOOLEAN, Enqueue(s, leased) PROVE CallAdvances(c)
  <2>1. UNCHANGED <<closed, blockedSessions, lease>> /\ ~closed
    BY <1>5 DEF Enqueue, Made, Admissible
  <2>2. CASE c = calls + 1
    <3>1. sess'[c] = s /\ phase[c] = "unmade" BY <1>5, <2>2 DEF Enqueue, Made
    <3>2. blockedSessions'[s] = {} BY <1>5 DEF Enqueue, Admissible, Made, Blocked, FencedIn
    <3> QED BY <2>1, <3>1, <3>2, <2>2, <1>5 DEF IndInv, LeaseBook
  <2>3. CASE c # calls + 1
    <3>1. sess'[c] = sess[c] /\ withLease'[c] = withLease[c]
      BY <1>5, <2>3 DEF Enqueue, Made
    <3>2. \/ phase'[c] = phase[c]
          \/ phase'[c] = "slotted" /\ c \in queue \cup {calls + 1} /\ blockedSessions[sess'[c]] = {}
      <4> DEFINE at == [phase EXCEPT ![calls + 1] = "queued"]
      <4>1. Drain(queue \cup {calls + 1}, sess', active, activeSessions, blockedSessions, at)
        BY <1>5 DEF Enqueue
      <4>2. at[c] = phase[c] BY <2>3
      <4> HIDE DEF at
      <4>3. OnlyTakes(queue \cup {calls + 1}, sess', blockedSessions, at)
        BY <4>1, DrainTakesQueued
      <4> QED BY <4>2, <4>3 DEF OnlyTakes
    <3> QED BY <2>1, <2>3, <3>1, <3>2
  <2> QED BY <2>2, <2>3
<1>6. ASSUME NEW s \in Sessions, NEW leased \in BOOLEAN, EnqueueRefused(s, leased) PROVE CallAdvances(c)
  <2>1. UNCHANGED lease /\ sess' = [sess EXCEPT ![calls + 1] = s]
        /\ withLease' = [withLease EXCEPT ![calls + 1] = leased]
        /\ phase' = [phase EXCEPT ![calls + 1] = "refused"]
    BY <1>6 DEF EnqueueRefused, Made
  <2>2. CASE c = calls + 1 BY <2>1, <2>2
  <2>3. CASE c # calls + 1 BY <2>1, <2>3
  <2> QED BY <2>2, <2>3
<1>7. ASSUME NEW d \in Calls, CallStep(d) \/ ExecuteWithinLease(d) PROVE CallAdvances(c)
  <2> USE DEF queueVars, callVars
  <2>1. CASE Start(d) BY <2>1 DEF Start
  <2>2. CASE TaskReturns(d) BY <2>2 DEF TaskReturns
  <2>3. CASE LeaseDrained(d) BY <2>3 DEF LeaseDrained
  <2>4. CASE Release(d)
    <3>1. UNCHANGED <<closed, blockedSessions, sess, withLease, lease>> /\ phase[d] = "settled"
      BY <2>4 DEF Release
    <3>2. \/ phase'[c] = phase[c]
          \/ c = d /\ phase[c] = "settled" /\ phase'[c] = "over"
          \/ ~closed /\ phase'[c] = "slotted" /\ c \in queue /\ blockedSessions[sess[c]] = {}
      <4>1. CASE closed BY <2>4, <4>1 DEF Release
      <4>2. CASE ~closed
        <5> DEFINE at == [phase EXCEPT ![d] = "over"]
        <5>1. Drain(queue, sess, active - 1, activeSessions \ {sess[d]}, blockedSessions, at)
          BY <2>4, <4>2 DEF Release
        <5>2. at[c] = IF c = d THEN "over" ELSE phase[c]
          OBVIOUS
        <5> HIDE DEF at
        <5>3. OnlyTakes(queue, sess, blockedSessions, at)
          BY <5>1, DrainTakesQueued
        <5> QED BY <3>1, <4>2, <5>2, <5>3 DEF OnlyTakes
      <4> QED BY <4>1, <4>2
    <3> QED BY <3>1, <3>2
  <2>5. CASE StepTurn(d)
    <3>1. UNCHANGED <<closed, blockedSessions, sess, withLease, phase>> BY <2>5 DEF StepTurn
    <3>2. CASE c # d BY <2>5, <3>1, <3>2 DEF StepTurn
    <3>3. CASE c = d /\ (closed \/ Blocked(sess[d]))
      <4>1. lease'[c].finished = lease[c].finished + 1 /\ lease'[c].head = "idle" /\ lease[c].head = "idle"
        BY <2>5, <3>3 DEF StepTurn
      <4> QED BY <3>1, <4>1
    <3>4. CASE c = d /\ ~(closed \/ Blocked(sess[d]))
      <4>1. lease'[c].finished = lease[c].finished /\ lease'[c].head = "admitted" /\ lease[c].head = "idle"
        BY <2>5, <3>4 DEF StepTurn
      <4> QED BY <3>1, <3>4, <4>1 DEF Blocked, FencedIn
    <3> QED BY <3>2, <3>3, <3>4
  <2>6. CASE StepBegins(d) BY <2>6 DEF StepBegins
  <2>7. CASE StepSettles(d)
    <3>1. UNCHANGED <<closed, blockedSessions, sess, withLease, phase>> BY <2>7 DEF StepSettles
    <3>2. CASE c # d BY <2>7, <3>1, <3>2 DEF StepSettles
    <3>3. CASE c = d
      <4>1. lease'[c].finished = lease[c].finished + 1 /\ lease'[c].head = "idle" /\ lease[c].head = "running"
        BY <2>7, <3>3 DEF StepSettles
      <4> QED BY <2>7, <3>1, <3>3, <4>1
    <3> QED BY <3>2, <3>3
  <2>8. CASE ExecuteWithinLease(d) BY <2>8 DEF ExecuteWithinLease, LeaseStep
  <2> QED BY <1>7, <2>1, <2>2, <2>3, <2>4, <2>5, <2>6, <2>7, <2>8 DEF CallStep
<1>8. ASSUME NEW s \in Sessions, NEW f \in Fences, NEW kind \in {"pending", "never"},
             BlockSessionUntil(s, f, kind)
      PROVE  CallAdvances(c)
  BY <1>8 DEF BlockSessionUntil, CancelQueued
<1>9. ASSUME NEW f \in Fences, ReleaseSessionBlock(f) PROVE CallAdvances(c)
  <2>1. UNCHANGED <<closed, sess, withLease, lease>>
    BY <1>9 DEF ReleaseSessionBlock
  <2>2. \/ phase'[c] = phase[c]
        \/ ~closed /\ phase'[c] = "slotted" /\ c \in queue /\ blockedSessions'[sess[c]] = {}
    <3>1. CASE closed BY <1>9, <3>1 DEF ReleaseSessionBlock
    <3>2. CASE ~closed
      <4>1. Drain(queue, sess, active, activeSessions, blockedSessions', phase)
        BY <1>9, <3>2 DEF ReleaseSessionBlock
      <4>2. OnlyTakes(queue, sess, blockedSessions', phase)
        BY <4>1, DrainTakesQueued
      <4> QED BY <3>2, <4>2 DEF OnlyTakes
    <3> QED BY <3>1, <3>2
  <2> QED BY <2>1, <2>2
<1>10. ASSUME NEW S, CancelQueued(S),
              UNCHANGED <<closed, blockedSessions, calls, sess, withLease, lease, settlement>>
       PROVE  CallAdvances(c)
  BY <1>10 DEF CancelQueued
<1>11. CASE Close
  <2>1. UNCHANGED <<sess, withLease>> /\ (phase'[c] = phase[c] \/ (phase[c] = "queued" /\ phase'[c] = "refused"))
    BY <1>11 DEF Close, CancelQueued
  <2>2. lease'[c] = [lease[c] EXCEPT !.accepting = @ /\ ~LeaseActive(c)]
    BY <1>11 DEF Close
  <2>3. lease'[c].head = lease[c].head /\ lease'[c].finished = lease[c].finished
    BY <2>2
  <2> QED BY <2>1, <2>3
<1>12. CASE UNCHANGED vars
  BY <1>12 DEF vars, queueVars, callVars
<1>13. CASE CancelAllQueued \/ \E s \in Sessions : CancelQueuedSession(s)
  BY <1>10, <1>13 DEF CancelQueuedSession, CancelAllQueued
<1> HIDE DEF CallAdvances
<1> QED BY <1>5, <1>6, <1>7, <1>8, <1>9, <1>11, <1>12, <1>13 DEF Next

-----------------------------------------------------------------------------
(* The theorems.                                                           *)

\* Slots, queue, fences and leases keep their books in every reachable state.
THEOREM Invariance == Spec => []IndInv
<1>1. Init => IndInv
  BY InitIndInv
<1>2. IndInv /\ [Next]_vars => IndInv'
  BY NextIndInv
<1> QED BY <1>1, <1>2, PTL DEF Spec

\* Type correctness of the limiter, for every instance.
THEOREM TypeCorrect == Spec => []TypeOK
BY Invariance, PTL DEF IndInv

\* At most MaxConcurrent calls hold a slot, at most one of each session, and the
\* code's counter and set say which.
THEOREM SlotsAreExclusive == Spec => [](SlotAccounting /\ SessionExclusion)
BY Invariance, PTL DEF IndInv

\* A free slot never coexists with a call that could take it, nothing waits
\* behind a fence, and the queue keeps its bound.
THEOREM QueueIsSound == Spec => [](WorkConserving /\ NoQueueBehindFence /\ QueueBounded)
BY Invariance, PTL DEF IndInv

\* No accepted step of a lease outlives the slot of its call.
THEOREM StepsStayInside == Spec => []StepsInsideSlot
BY Invariance, PTL DEF IndInv

\* A fenced session that holds no slot gets none while the fence stands.
THEOREM FencesKeepQuiet == Spec => FenceKeepsQuiet
<1> DEFINE Quiet == \A s \in Sessions :
                      /\ s \notin activeSessions
                      /\ blockedSessions[s] # {} /\ blockedSessions'[s] # {}
                      => s \notin activeSessions'
<1>1. IndInv /\ [Next]_vars => Quiet
  BY NextIndInv DEF GrantsUnfenced
<1>2. IndInv /\ [Next]_vars => [Quiet]_vars
  BY <1>1
<1> QED BY <1>2, Invariance, PTL DEF Spec, FenceKeepsQuiet

-----------------------------------------------------------------------------
(***************************************************************************)
(* The limiter keeps the promise of SessionLanes: seen from one session,   *)
(* every step of BrowserTaskLimiter is a step of a lane or none.           *)
(*                                                                         *)
(* Three facts carry the argument: one run of the drain loop takes at most *)
(* the first call of a session, and only if the session is idle; whatever  *)
(* empties the queue of a session empties all of it; and a call that       *)
(* arrives never meets a queued call that could be taken with it, because  *)
(* the limiter is work conserving.                                         *)
(***************************************************************************)

(* The lane of a session.                                                   *)

Waiting(s) == {c \in queue : sess[c] = s}
Serving(s) == {c \in Calls : HoldsSlot(c) /\ sess[c] = s}
Left(s)    == {c \in Calls : phase[c] \in {"over", "refused"} /\ sess[c] = s}

Moves(s) == Lanes!LaneNext(s)

LEMMA LaneOf ==
  ASSUME NEW s \in Sessions
  PROVE  /\ PerSession(queue)[s] = Waiting(s)
         /\ PerSession({c \in Calls : HoldsSlot(c)})[s] = Serving(s)
         /\ PerSession({c \in Calls : phase[c] \in {"over", "refused"}})[s] = Left(s)
         /\ PerSession(queue)'[s] = Waiting(s)'
         /\ PerSession({c \in Calls : HoldsSlot(c)})'[s] = Serving(s)'
         /\ PerSession({c \in Calls : phase[c] \in {"over", "refused"}})'[s] = Left(s)'
BY DEF PerSession, Waiting, Serving, Left

\* The ways a lane moves, in terms of the limiter.
LEMMA LaneMoves ==
  ASSUME NEW s \in Sessions, NEW c \in Calls
  PROVE  /\ /\ \A d \in Waiting(s) \cup Serving(s) \cup Left(s) : d < c
            /\ Waiting(s)' = Waiting(s) /\ Serving(s)' = Serving(s) /\ Left(s)' = Left(s) \cup {c}
            => Moves(s)
         /\ /\ \A d \in Waiting(s) \cup Serving(s) \cup Left(s) : d < c
            /\ Waiting(s)' = Waiting(s) \cup {c} /\ Serving(s)' = Serving(s) /\ Left(s)' = Left(s)
            => Moves(s)
         /\ /\ \A d \in Waiting(s) \cup Serving(s) \cup Left(s) : d < c
            /\ Waiting(s) = {} /\ Serving(s) = {}
            /\ Waiting(s)' = {} /\ Serving(s)' = {c} /\ Left(s)' = Left(s)
            => Moves(s)
         /\ /\ Serving(s) = {} /\ c \in Waiting(s) /\ \A d \in Waiting(s) : c <= d
            /\ Waiting(s)' = Waiting(s) \ {c} /\ Serving(s)' = {c} /\ Left(s)' = Left(s)
            => Moves(s)
         /\ /\ Serving(s) # {} /\ c \in Waiting(s) /\ \A d \in Waiting(s) : c <= d
            /\ Waiting(s)' = Waiting(s) \ {c} /\ Serving(s)' = {c} /\ Left(s)' = Left(s) \cup Serving(s)
            => Moves(s)
<1>1. /\ PerSession(queue)[s] = Waiting(s)
      /\ PerSession({d \in Calls : HoldsSlot(d)})[s] = Serving(s)
      /\ PerSession({d \in Calls : phase[d] \in {"over", "refused"}})[s] = Left(s)
      /\ PerSession(queue)'[s] = Waiting(s)'
      /\ PerSession({d \in Calls : HoldsSlot(d)})'[s] = Serving(s)'
      /\ PerSession({d \in Calls : phase[d] \in {"over", "refused"}})'[s] = Left(s)'
  BY LaneOf
<1> QED BY <1>1 DEF Moves, Lanes!LaneNext, Lanes!TurnAway, Lanes!Wait, Lanes!ServeAtOnce, Lanes!Serve,
                    Lanes!LeaveAndServe, Lanes!Lane, Lanes!Fresh, Lanes!First

LEMMA LaneRests ==
  ASSUME NEW s \in Sessions
  PROVE  /\ /\ Serving(s) # {}
            /\ Waiting(s)' = Waiting(s) /\ Serving(s)' = {} /\ Left(s)' = Left(s) \cup Serving(s)
            => Moves(s)
         /\ /\ Waiting(s)' = {} /\ Serving(s)' = Serving(s) /\ Left(s)' = Left(s) \cup Waiting(s)
            => Moves(s)
         /\ /\ Waiting(s)' = Waiting(s) /\ Serving(s)' = Serving(s) /\ Left(s)' = Left(s)
            => Moves(s)
<1>1. /\ PerSession(queue)[s] = Waiting(s)
      /\ PerSession({d \in Calls : HoldsSlot(d)})[s] = Serving(s)
      /\ PerSession({d \in Calls : phase[d] \in {"over", "refused"}})[s] = Left(s)
      /\ PerSession(queue)'[s] = Waiting(s)'
      /\ PerSession({d \in Calls : HoldsSlot(d)})'[s] = Serving(s)'
      /\ PerSession({d \in Calls : phase[d] \in {"over", "refused"}})'[s] = Left(s)'
  BY LaneOf
<1> QED BY <1>1 DEF Moves, Lanes!LaneNext, Lanes!Leave, Lanes!Flush, Lanes!Stay, Lanes!Lane
-----------------------------------------------------------------------------
(* What the drain loop does to a lane.                                      *)

\* Of the calls of s, at most the first queued one changes: it gets its slot.
DrainsLane(q, home, busy, at, s) ==
  \/ \A c \in Calls : home[c] = s => phase'[c] = at[c] /\ (c \in queue' <=> c \in q)
  \/ \E d \in q : /\ home[d] = s /\ s \notin busy
                  /\ \A e \in q : home[e] = s => d <= e
                  /\ phase'[d] = "slotted" /\ d \notin queue'
                  /\ \A c \in Calls \ {d} : home[c] = s => phase'[c] = at[c] /\ (c \in queue' <=> c \in q)

LEMMA DrainIsPerLane ==
  ASSUME NEW q \in SUBSET Calls, NEW home, NEW n, NEW busy, NEW blocked, NEW at,
         Drain(q, home, n, busy, blocked, at), NEW s
  PROVE  DrainsLane(q, home, busy, at, s)
<1>1. PICK T : T = Taken(q, home, n, busy, blocked)
  OBVIOUS
<1>2. /\ queue' = q \ T
      /\ \A c \in Calls : phase'[c] = IF c \in T THEN "slotted" ELSE at[c]
  BY <1>1 DEF Drain
<1>3. \A d \in T : d \in q /\ home[d] \notin busy /\ \A e \in q : home[e] = home[d] => d <= e
  BY <1>1 DEF Taken, Startable
<1>4. \A c \in Calls : c \in Nat BY LimiterAssumption DEF Calls
<1>5. CASE \A d \in T : home[d] # s
  BY <1>2, <1>5 DEF DrainsLane
<1>6. ASSUME NEW d \in T, home[d] = s PROVE DrainsLane(q, home, busy, at, s)
  <2>1. ASSUME NEW c \in T, home[c] = s PROVE c = d
    <3>1. c \in q /\ d \in q /\ c <= d /\ d <= c BY <1>3, <1>6, <2>1
    <3> QED BY <1>4, <3>1
  <2>2. d \in q /\ s \notin busy /\ \A e \in q : home[e] = s => d <= e
    BY <1>3, <1>6
  <2>3. phase'[d] = "slotted" /\ d \notin queue' BY <1>2, <1>6, <2>2
  <2>4. \A c \in Calls \ {d} : home[c] = s => phase'[c] = at[c] /\ (c \in queue' <=> c \in q)
    BY <1>2, <2>1
  <2> QED BY <2>2, <2>3, <2>4 DEF DrainsLane
<1> QED BY <1>5, <1>6

LEMMA LaneFacts ==
  ASSUME IndInv
  PROVE  /\ queue \subseteq Calls /\ \A c \in queue : phase[c] = "queued"
         /\ \A c \in Calls : phase[c] # "unmade" <=> c <= calls
         /\ \A c \in Calls : c \in Nat
         /\ calls \in Nat /\ closed \in BOOLEAN
         /\ \A c \in Calls : HoldsSlot(c) => sess[c] \in activeSessions
         /\ \A c \in Calls : phase[c] \in Phases
         /\ phase \in [Calls -> Phases] /\ sess \in [Calls -> Sessions \cup {NoSession}]
BY LimiterAssumption DEF IndInv, TypeOK, CallBook, SlotAccounting, SessionsOf, Calls

-----------------------------------------------------------------------------
(* Each step.                                                               *)

\* Nobody leaves the queue, a slot, or comes into one.
LEMMA SamePhasesRest ==
  ASSUME IndInv, UNCHANGED <<queue, sess>>, NEW s \in Sessions,
         \A c \in Calls : phase'[c] = phase[c] \/ (phase[c] \in SlotPhases /\ phase'[c] \in SlotPhases)
  PROVE  Moves(s)
<1>1. Waiting(s)' = Waiting(s) BY DEF Waiting
<1>2. Serving(s)' = Serving(s) BY DEF Serving, HoldsSlot
<1>3. Left(s)' = Left(s) BY DEF Left, SlotPhases
<1> QED BY <1>1, <1>2, <1>3, LaneRests

LEMMA CancelFlushes ==
  ASSUME IndInv, NEW S, CancelQueued(S), UNCHANGED sess, NEW s \in Sessions
  PROVE  Moves(s)
<1>1. /\ queue' = {c \in queue : sess[c] \notin S}
      /\ \A c \in Calls : phase'[c] = IF c \in queue /\ sess[c] \in S THEN "refused" ELSE phase[c]
  BY DEF CancelQueued
<1>2. queue \subseteq Calls /\ \A c \in queue : phase[c] = "queued"
  BY LaneFacts
<1>3. Serving(s)' = Serving(s) BY <1>1, <1>2 DEF Serving, HoldsSlot, SlotPhases
<1>4. CASE s \in S
  <2>1. Waiting(s)' = {} BY <1>1, <1>4 DEF Waiting
  <2>2. Left(s)' = Left(s) \cup Waiting(s) BY <1>1, <1>2, <1>4 DEF Left, Waiting
  <2> QED BY <1>3, <2>1, <2>2, LaneRests
<1>5. CASE s \notin S
  <2>1. Waiting(s)' = Waiting(s) BY <1>1, <1>5 DEF Waiting
  <2>2. Left(s)' = Left(s) BY <1>1, <1>5 DEF Left
  <2> QED BY <1>3, <2>1, <2>2, LaneRests
<1> QED BY <1>4, <1>5

LEMMA UnblockingServes ==
  ASSUME IndInv, NEW f \in Fences, ReleaseSessionBlock(f), NEW s \in Sessions
  PROVE  Moves(s)
<1>1. CASE closed
  BY <1>1, SamePhasesRest DEF ReleaseSessionBlock
<1>2. CASE ~closed
  <2>1. DrainsLane(queue, sess, activeSessions, phase, s)
    BY <1>2, LaneFacts, DrainIsPerLane DEF ReleaseSessionBlock
  <2>2. sess' = sess BY DEF ReleaseSessionBlock
  <2>3. queue \subseteq Calls /\ queue' \subseteq Calls /\ \A c \in queue : phase[c] = "queued"
    <3>1. Drain(queue, sess, active, activeSessions, blockedSessions', phase)
      BY <1>2 DEF ReleaseSessionBlock
    <3> QED BY <3>1, LaneFacts DEF Drain
  <2>4. CASE \A c \in Calls : sess[c] = s => phase'[c] = phase[c] /\ (c \in queue' <=> c \in queue)
    <3>1. Waiting(s)' = Waiting(s) BY <2>2, <2>3, <2>4 DEF Waiting
    <3>2. Serving(s)' = Serving(s) BY <2>2, <2>4 DEF Serving, HoldsSlot
    <3>3. Left(s)' = Left(s) BY <2>2, <2>4 DEF Left
    <3> QED BY <3>1, <3>2, <3>3, LaneRests
  <2>5. CASE \E d \in queue :
               /\ sess[d] = s /\ s \notin activeSessions
               /\ \A e \in queue : sess[e] = s => d <= e
               /\ phase'[d] = "slotted" /\ d \notin queue'
               /\ \A c \in Calls \ {d} : sess[c] = s => phase'[c] = phase[c] /\ (c \in queue' <=> c \in queue)
    <3>1. PICK d \in queue :
               /\ sess[d] = s /\ s \notin activeSessions
               /\ \A e \in queue : sess[e] = s => d <= e
               /\ phase'[d] = "slotted" /\ d \notin queue'
               /\ \A c \in Calls \ {d} : sess[c] = s => phase'[c] = phase[c] /\ (c \in queue' <=> c \in queue)
      BY <2>5
    <3>2. d \in Calls /\ phase[d] = "queued" BY <2>3
    <3>3. Waiting(s)' = Waiting(s) \ {d} BY <2>2, <2>3, <3>1 DEF Waiting
    <3>4. Serving(s) = {} BY <3>1, LaneFacts DEF Serving
    <3>5. Serving(s)' = {d}
      BY <2>2, <3>1, <3>2, <3>4 DEF Serving, HoldsSlot, SlotPhases
    <3>6. Left(s)' = Left(s) BY <2>2, <3>1, <3>2 DEF Left
    <3>7. d \in Waiting(s) /\ \A e \in Waiting(s) : d <= e BY <3>1 DEF Waiting
    <3> QED BY <3>2, <3>3, <3>4, <3>5, <3>6, <3>7, LaneMoves
  <2> QED BY <2>1, <2>4, <2>5 DEF DrainsLane
<1> QED BY <1>1, <1>2

LEMMA ReleaseLeaves ==
  ASSUME IndInv, NEW c \in Calls, Release(c), NEW s \in Sessions
  PROVE  Moves(s)
<1>1. /\ phase[c] = "settled" /\ HoldsSlot(c) /\ sess' = sess
      /\ queue \subseteq Calls /\ (\A d \in queue : phase[d] = "queued")
      /\ \A d \in Calls : HoldsSlot(d) => sess[d] \in activeSessions
      /\ \A d \in Calls : HoldsSlot(d) /\ sess[d] = sess[c] => d = c
  BY LaneFacts DEF Release, HoldsSlot, SlotPhases, IndInv, SessionExclusion
<1>2. PICK at : at = [phase EXCEPT ![c] = "over"]
  OBVIOUS
<1>3. \A d \in Calls : at[d] = IF d = c THEN "over" ELSE phase[d]
  BY <1>2, LaneFacts
<1>4. /\ queue' \subseteq Calls
      /\ DrainsLane(queue, sess, activeSessions \ {sess[c]}, at, s)
  <2>1. CASE closed
    <3>1. queue' = queue /\ phase' = at BY <1>2, <2>1 DEF Release
    <3> QED BY <1>1, <3>1 DEF DrainsLane
  <2>2. CASE ~closed
    <3>1. Drain(queue, sess, active - 1, activeSessions \ {sess[c]}, blockedSessions, at)
      BY <1>2, <2>2 DEF Release
    <3>2. queue' \subseteq Calls BY <1>1, <3>1 DEF Drain
    <3> QED BY <1>1, <3>1, <3>2, DrainIsPerLane
  <2> QED BY <2>1, <2>2
<1>5. CASE \A d \in Calls : sess[d] = s => phase'[d] = at[d] /\ (d \in queue' <=> d \in queue)
  <2>1. Waiting(s)' = Waiting(s) BY <1>1, <1>4, <1>5 DEF Waiting
  <2>2. CASE s = sess[c]
    <3>1. Serving(s) = {c} BY <1>1, <2>2 DEF Serving
    <3>2. Serving(s)' = {}
      BY <1>1, <1>3, <1>5, <2>2 DEF Serving, HoldsSlot, SlotPhases
    <3>3. Left(s)' = Left(s) \cup Serving(s)
      BY <1>1, <1>3, <1>5, <2>2, <3>1 DEF Left
    <3> QED BY <2>1, <3>1, <3>2, <3>3, LaneRests
  <2>3. CASE s # sess[c]
    <3>1. Serving(s)' = Serving(s) BY <1>1, <1>3, <1>5, <2>3 DEF Serving, HoldsSlot
    <3>2. Left(s)' = Left(s) BY <1>1, <1>3, <1>5, <2>3 DEF Left
    <3> QED BY <2>1, <3>1, <3>2, LaneRests
  <2> QED BY <2>2, <2>3
<1>6. ASSUME NEW d \in queue, sess[d] = s, s \notin activeSessions \ {sess[c]},
             \A e \in queue : sess[e] = s => d <= e,
             phase'[d] = "slotted", d \notin queue',
             \A e \in Calls \ {d} : sess[e] = s => phase'[e] = at[e] /\ (e \in queue' <=> e \in queue)
      PROVE  Moves(s)
  <2>1. d \in Calls /\ phase[d] = "queued" /\ d # c BY <1>1
  <2>2. Waiting(s)' = Waiting(s) \ {d} BY <1>1, <1>4, <1>6 DEF Waiting
  <2>3. d \in Waiting(s) /\ \A e \in Waiting(s) : d <= e BY <1>6 DEF Waiting
  <2>4. CASE s = sess[c]
    <3>1. Serving(s) = {c} BY <1>1, <2>4 DEF Serving
    <3>2. Serving(s)' = {d}
      BY <1>1, <1>3, <1>6, <2>1, <2>4 DEF Serving, HoldsSlot, SlotPhases
    <3>3. Left(s)' = Left(s) \cup Serving(s)
      BY <1>1, <1>3, <1>6, <2>1, <2>4, <3>1 DEF Left
    <3> QED BY <2>1, <2>2, <2>3, <3>1, <3>2, <3>3, LaneMoves
  <2>5. CASE s # sess[c]
    <3>1. Serving(s) = {} BY <1>1, <1>6, <2>5 DEF Serving
    <3>2. Serving(s)' = {d}
      BY <1>1, <1>3, <1>6, <2>1, <2>5, <3>1 DEF Serving, HoldsSlot, SlotPhases
    <3>3. Left(s)' = Left(s)
      BY <1>1, <1>3, <1>6, <2>1, <2>5 DEF Left
    <3> QED BY <2>1, <2>2, <2>3, <3>1, <3>2, <3>3, LaneMoves
  <2> QED BY <2>4, <2>5
<1> QED BY <1>4, <1>5, <1>6 DEF DrainsLane

LEMMA ArrivalsLine ==
  ASSUME IndInv, NEW r \in Sessions, NEW leased \in BOOLEAN, Enqueue(r, leased), NEW s \in Sessions
  PROVE  Moves(s)
<1>1. PICK c \in Calls : c = calls + 1
  BY LaneFacts, LimiterAssumption DEF Enqueue, Made, Calls
<1>2. /\ sess' = [sess EXCEPT ![c] = r] /\ phase[c] = "unmade" /\ c \notin queue
      /\ queue \subseteq Calls /\ (\A d \in queue : phase[d] = "queued")
      /\ \A d \in Calls : phase[d] # "unmade" => d < c
      /\ \A d \in Calls : d \in Nat
      /\ sess'[c] = r /\ \A d \in Calls \ {c} : sess'[d] = sess[d]
  <2>1. sess' = [sess EXCEPT ![c] = r] BY <1>1 DEF Enqueue, Made
  <2>2. phase[c] = "unmade" BY <1>1, LaneFacts
  <2> QED BY <1>1, <2>1, <2>2, LaneFacts
<1>3. PICK at : at = [phase EXCEPT ![c] = "queued"]
  OBVIOUS
<1>4. \A d \in Calls : at[d] = IF d = c THEN "queued" ELSE phase[d]
  BY <1>3, LaneFacts
<1>5. PICK q \in SUBSET Calls : q = queue \cup {c}
  BY <1>2
<1>6. Drain(q, sess', active, activeSessions, blockedSessions, at)
  BY <1>1, <1>3, <1>5 DEF Enqueue
<1>7. DrainsLane(q, sess', activeSessions, at, s) /\ queue' \subseteq Calls
  BY <1>6, DrainIsPerLane DEF Drain
<1>8. \A d \in Waiting(s) \cup Serving(s) \cup Left(s) : d < c
  BY <1>2 DEF Waiting, Serving, Left, HoldsSlot, SlotPhases
<1>9. CASE \A d \in Calls : sess'[d] = s => phase'[d] = at[d] /\ (d \in queue' <=> d \in q)
  <2>1. Serving(s)' = Serving(s)
    BY <1>2, <1>4, <1>9 DEF Serving, HoldsSlot, SlotPhases
  <2>2. Left(s)' = Left(s)
    BY <1>2, <1>4, <1>9 DEF Left
  <2>3. CASE s = r
    <3>1. Waiting(s)' = Waiting(s) \cup {c}
      BY <1>2, <1>5, <1>7, <1>9, <2>3 DEF Waiting
    <3> QED BY <1>8, <2>1, <2>2, <3>1, LaneMoves
  <2>4. CASE s # r
    <3>1. Waiting(s)' = Waiting(s)
      BY <1>2, <1>5, <1>7, <1>9, <2>4 DEF Waiting
    <3> QED BY <2>1, <2>2, <3>1, LaneRests
  <2> QED BY <2>3, <2>4
<1>10. ASSUME NEW d \in q, sess'[d] = s, s \notin activeSessions,
              \A e \in q : sess'[e] = s => d <= e,
              phase'[d] = "slotted", d \notin queue',
              \A e \in Calls \ {d} : sess'[e] = s => phase'[e] = at[e] /\ (e \in queue' <=> e \in q)
       PROVE  Moves(s)
  <2>1. active < MaxConcurrent
    <3>1. PICK T : T = Taken(q, sess', active, activeSessions, blockedSessions)
      OBVIOUS
    <3>2. d \in T BY <1>6, <1>10, <3>1 DEF Drain
    <3>3. PICK B : IsFiniteSet(B) /\ active + Cardinality(B) < MaxConcurrent
      <4> DEFINE able == Startable(q, sess', activeSessions, blockedSessions)
                 before == {e \in able : e < d}
      <4>1. active + Cardinality(before) < MaxConcurrent BY <3>1, <3>2 DEF Taken
      <4>2. before \subseteq Calls BY DEF Startable
      <4> HIDE DEF before
      <4> QED BY <4>1, <4>2, CallsFinite
    <3>4. Cardinality(B) \in Nat /\ active \in Nat BY <3>3, FS_CardinalityType DEF IndInv, TypeOK
    <3> QED BY <3>3, <3>4, LimiterAssumption
  <2>2. ~closed BY DEF Enqueue, Admissible
  <2>3. d = c
    BY <1>2, <1>5, <1>10, <2>1, <2>2 DEF IndInv, WorkConserving
  <2>4. s = r BY <1>2, <1>10, <2>3
  <2>5. Waiting(s) = {}
    <3>1. ASSUME NEW e \in queue, sess[e] = s PROVE FALSE
      <4>1. e \in Calls /\ e # c /\ sess'[e] = s /\ e < c /\ e \in q BY <1>2, <1>5, <3>1
      <4>2. c <= e BY <1>10, <2>3, <4>1
      <4> QED BY <1>2, <4>1, <4>2
    <3> QED BY <3>1 DEF Waiting
  <2>6. Serving(s) = {} BY <1>10, LaneFacts DEF Serving
  <2>7. Waiting(s)' = {}
    BY <1>2, <1>5, <1>7, <1>10, <2>3, <2>5 DEF Waiting
  <2>8. Serving(s)' = {c}
    BY <1>2, <1>4, <1>10, <2>3, <2>4, <2>6 DEF Serving, HoldsSlot, SlotPhases
  <2>9. Left(s)' = Left(s)
    BY <1>2, <1>4, <1>10, <2>3, <2>4 DEF Left
  <2> QED BY <1>8, <2>5, <2>6, <2>7, <2>8, <2>9, LaneMoves
<1> QED BY <1>7, <1>9, <1>10 DEF DrainsLane

LEMMA RefusalsLeave ==
  ASSUME IndInv, NEW r \in Sessions, NEW leased \in BOOLEAN, EnqueueRefused(r, leased), NEW s \in Sessions
  PROVE  Moves(s)
<1>1. PICK c \in Calls : c = calls + 1
  BY LaneFacts, LimiterAssumption DEF EnqueueRefused, Made, Calls
<1>2. /\ phase[c] = "unmade" /\ c \notin queue /\ queue' = queue
      /\ queue \subseteq Calls /\ (\A d \in queue : phase[d] = "queued")
      /\ \A d \in Calls : phase[d] # "unmade" => d < c
      /\ sess'[c] = r /\ \A d \in Calls \ {c} : sess'[d] = sess[d]
      /\ phase'[c] = "refused" /\ \A d \in Calls \ {c} : phase'[d] = phase[d]
  <2>1. sess' = [sess EXCEPT ![c] = r] /\ phase' = [phase EXCEPT ![c] = "refused"]
    BY <1>1 DEF EnqueueRefused, Made
  <2>2. phase[c] = "unmade" /\ queue' = queue BY <1>1, LaneFacts DEF EnqueueRefused
  <2> QED BY <1>1, <2>1, <2>2, LaneFacts
<1>3. \A d \in Waiting(s) \cup Serving(s) \cup Left(s) : d < c
  BY <1>2 DEF Waiting, Serving, Left, HoldsSlot, SlotPhases
<1>4. Waiting(s)' = Waiting(s) BY <1>2 DEF Waiting
<1>5. Serving(s)' = Serving(s) BY <1>2 DEF Serving, HoldsSlot, SlotPhases
<1>6. CASE s = r
  <2>1. Left(s)' = Left(s) \cup {c} BY <1>2, <1>6 DEF Left
  <2> QED BY <1>3, <1>4, <1>5, <2>1, LaneMoves
<1>7. CASE s # r
  <2>1. Left(s)' = Left(s) BY <1>2, <1>7 DEF Left
  <2> QED BY <1>4, <1>5, <2>1, LaneRests
<1> QED BY <1>6, <1>7

LEMMA EveryLaneMoves ==
  ASSUME IndInv, [Next]_vars, NEW s \in Sessions
  PROVE  Moves(s)
<1>1. CASE UNCHANGED <<queue, sess, phase>>
  BY <1>1, SamePhasesRest
<1>2. ASSUME NEW r \in Sessions, NEW leased \in BOOLEAN, Enqueue(r, leased) \/ EnqueueRefused(r, leased)
      PROVE  Moves(s)
  BY <1>2, ArrivalsLine, RefusalsLeave
<1>3. ASSUME NEW c \in Calls, Start(c) \/ TaskReturns(c) \/ LeaseDrained(c) PROVE Moves(s)
  <2>1. /\ UNCHANGED <<queue, sess>>
        /\ \A d \in Calls : phase'[d] = phase[d] \/ (phase[d] \in SlotPhases /\ phase'[d] \in SlotPhases)
    BY <1>3, LaneFacts DEF Start, TaskReturns, LeaseDrained, SlotPhases, queueVars
  <2> QED BY <2>1, SamePhasesRest
<1>4. ASSUME NEW c \in Calls, Release(c) PROVE Moves(s)
  BY <1>4, ReleaseLeaves
<1>5. ASSUME NEW c \in Calls, StepTurn(c) \/ StepBegins(c) \/ StepSettles(c) \/ ExecuteWithinLease(c)
      PROVE  Moves(s)
  BY <1>1, <1>5 DEF StepTurn, StepBegins, StepSettles, ExecuteWithinLease, queueVars, callVars
<1>6. ASSUME NEW S, CancelQueued(S), UNCHANGED sess PROVE Moves(s)
  BY <1>6, CancelFlushes
<1>7. ASSUME NEW f \in Fences, ReleaseSessionBlock(f) PROVE Moves(s)
  BY <1>7, UnblockingServes
<1>8. CASE \/ \E r \in Sessions, f \in Fences, kind \in {"pending", "never"} : BlockSessionUntil(r, f, kind)
           \/ \E r \in Sessions : CancelQueuedSession(r)
           \/ CancelAllQueued \/ Close
  BY <1>6, <1>8 DEF BlockSessionUntil, CancelQueuedSession, CancelAllQueued, Close
<1> QED BY <1>1, <1>2, <1>3, <1>4, <1>5, <1>7, <1>8 DEF Next, CallStep, vars, queueVars, callVars

-----------------------------------------------------------------------------
(* The theorem.                                                             *)

\* Seen from one session the limiter is a lane that serves one call at a time in the
\* order of arrival: neither the other sessions nor the limits, fences and close() let
\* a call overtake, run twice, or run beside another.
THEOREM LimiterKeepsLanes == Spec => EverySessionIsALane
<1>1. Init => Lanes!Init
  BY DEF Init, Lanes!Init, Lanes!Empty, PerSession, HoldsSlot, SlotPhases
<1>2. IndInv /\ [Next]_vars => [Lanes!Next]_(Lanes!lanes)
  BY EveryLaneMoves DEF Lanes!Next, Moves
<1> QED BY <1>1, <1>2, Invariance, PTL DEF Spec, EverySessionIsALane, Lanes!Spec
=============================================================================
