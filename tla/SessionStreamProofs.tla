-------------------------- MODULE SessionStreamProofs --------------------------
(* What a session hears is what the server sent: on every connection the messages    *)
(* handled are those of a FIFO channel (MessageChannel), whatever the messages, the  *)
(* reads, the segments and the moment compression begins.  The invariant accounts    *)
(* for every unit: what the layers hold, the wire carries and the encoder has not    *)
(* yet written is, in this order, exactly what is left of the messages not handled.  *)
(* What a session keeps is the current server's: a second invariant says what each   *)
(* message the server sent says, and what the session is once the first k of them    *)
(* have been handled one by one.  And the layers stay in step: a third says where    *)
(* frames end and segments begin in what has not been passed on.                     *)
EXTENDS SessionStream, FiniteSetTheorems, SequenceTheorems, TLAPS

----------------------------------------------------------------------------
(* Places in a sequence, and what is picked from it.                               *)

\* How many of the places are at most one of them.
Rank(S, i) == Cardinality({e \in S : e <= i})

\* The places of a finite set are numbered in their order.
LEMMA Ranks ==
    ASSUME NEW S \in SUBSET Int, IsFiniteSet(S)
    PROVE  /\ Cardinality(S) \in Nat
           /\ \A i \in S : Rank(S, i) \in 1..Cardinality(S)
           /\ \A i, j \in S : i < j => Rank(S, i) < Rank(S, j)
           /\ \A k \in 1..Cardinality(S) : \E i \in S : Rank(S, i) = k
<1> DEFINE U(i) == {e \in S : e <= i}
           c == Cardinality(S)
<1>1. \A i \in S : IsFiniteSet(U(i)) /\ Cardinality(U(i)) \in Nat /\ Cardinality(U(i)) <= c
      /\ U(i) # {} /\ c \in Nat
  BY FS_Subset, FS_CardinalityType
<1>2. c \in Nat
  BY FS_CardinalityType
<1>3. \A i \in S : Cardinality(U(i)) \in 1..c
  <2> SUFFICES ASSUME NEW i \in S PROVE Cardinality(U(i)) \in 1..c
    OBVIOUS
  <2>1. Cardinality(U(i)) # 0
    BY <1>1, FS_EmptySet
  <2> QED BY <1>1, <1>2, <2>1
<1>4. ASSUME NEW i \in S, NEW j \in S, i < j PROVE Cardinality(U(i)) < Cardinality(U(j))
  <2>1. U(i) \in SUBSET U(j) /\ U(i) # U(j)
    <3>1. j \in U(j) /\ j \notin U(i)
      BY <1>4
    <3>2. ASSUME NEW e \in S, e <= i PROVE e <= j
      <4>1. e \in Int /\ i \in Int /\ j \in Int
        OBVIOUS
      <4> QED BY <1>4, <3>2, <4>1
    <3> QED BY <3>1, <3>2
  <2>2. Cardinality(U(i)) <= Cardinality(U(j)) /\ Cardinality(U(i)) # Cardinality(U(j))
    BY <1>1, <2>1, FS_Subset
  <2> QED BY <1>1, <2>2
<1>5. \A k \in 1..c : \E i \in S : Cardinality(U(i)) = k
  <2> DEFINE f == [i \in S |-> Cardinality(U(i))]
  <2>1. f \in [S -> 1..c]
    BY <1>3
  <2>2. \A i, j \in S : f[i] = f[j] => i = j
    <3> SUFFICES ASSUME NEW i \in S, NEW j \in S, i # j PROVE f[i] # f[j]
      OBVIOUS
    <3>1. CASE i < j
      BY <1>1, <1>4, <3>1
    <3>2. CASE j < i
      BY <1>1, <1>4, <3>2
    <3> QED BY <3>1, <3>2
  <2>3. f \in Injection(S, 1..c)
    BY <2>1, <2>2 DEF Injection, IsInjective
  <2>4. IsFiniteSet(1..c) /\ Cardinality(1..c) = c
    BY <1>2, FS_Interval
  <2>5. f \in Surjection(S, 1..c)
    BY <2>3, <2>4, FS_Injection
  <2> QED BY <2>5 DEF Surjection
<1> QED BY <1>2, <1>3, <1>4, <1>5 DEF Rank

\* The greatest of the places is the last.
LEMMA LastPlace ==
    ASSUME NEW S \in SUBSET Int, IsFiniteSet(S), S # {}
    PROVE  Max(S) \in S /\ \A e \in S : e <= Max(S)
<1>1. Cardinality(S) \in Nat /\ Cardinality(S) # 0
  BY FS_EmptySet, FS_CardinalityType
<1>2. PICK i \in S : Rank(S, i) = Cardinality(S)
  BY <1>1, Ranks
<1>3. {e \in S : e <= i} = S
  BY <1>2, FS_Subset DEF Rank
<1>4. \A e \in S : i >= e
  BY <1>3
<1> QED BY <1>4 DEF Max

\* The least of the places is the first.
LEMMA FirstPlace ==
    ASSUME NEW S \in SUBSET Int, IsFiniteSet(S), S # {}
    PROVE  Min(S) \in S /\ \A e \in S : Min(S) <= e
<1>1. Cardinality(S) \in Nat /\ Cardinality(S) # 0
  BY FS_EmptySet, FS_CardinalityType
<1>2. PICK i \in S : Rank(S, i) = 1
  BY <1>1, Ranks
<1>3. \A e \in S : i <= e
  <2> SUFFICES ASSUME NEW e \in S, e < i PROVE FALSE
    OBVIOUS
  <2>1. Rank(S, e) < 1 /\ Rank(S, e) \in 1..Cardinality(S)
    BY <1>2, Ranks
  <2> QED BY <1>1, <2>1
<1> QED BY <1>3 DEF Min

\* The j-th of the places of S is f[j].
Numbers(f, S) ==
    /\ f \in [1..Cardinality(S) -> S]
    /\ \A j \in 1..Cardinality(S) : Rank(S, f[j]) = j
    /\ \A j, k \in 1..Cardinality(S) : j < k => f[j] < f[k]
    /\ \A i \in S : \E j \in 1..Cardinality(S) : f[j] = i

\* What is picked is those units, in their order.
LEMMA PickedAre ==
    ASSUME NEW units, NEW S \in SUBSET Int, IsFiniteSet(S)
    PROVE  /\ Cardinality(S) \in Nat
           /\ \E f : Numbers(f, S)
                    /\ Picked(units, S) = [j \in 1..Cardinality(S) |-> units[f[j]]]
<1> DEFINE c == Cardinality(S)
           f == [j \in 1..c |-> CHOOSE i \in S : Rank(S, i) = j]
<1>1. \A j \in 1..c : f[j] \in S /\ Rank(S, f[j]) = j
  BY Ranks
<1>2. f \in [1..c -> S]
  BY <1>1
<1>3. Picked(units, S) = [j \in 1..c |-> units[f[j]]]
  BY DEF Picked, Rank
<1>4. \A i, j \in S : Rank(S, i) = Rank(S, j) => i = j
  <2> SUFFICES ASSUME NEW i \in S, NEW j \in S, i # j PROVE Rank(S, i) # Rank(S, j)
    OBVIOUS
  <2>1. CASE i < j
    BY <2>1, Ranks
  <2>2. CASE j < i
    BY <2>2, Ranks
  <2> QED BY <2>1, <2>2
<1>5. \A j, k \in 1..c : j < k => f[j] < f[k]
  <2> SUFFICES ASSUME NEW j \in 1..c, NEW k \in 1..c, j < k PROVE f[j] < f[k]
    OBVIOUS
  <2> HIDE DEF f
  <2>1. f[j] \in S /\ f[k] \in S /\ Rank(S, f[j]) = j /\ Rank(S, f[k]) = k
    BY <1>1
  <2>2. \A x, y \in S : x < y => Rank(S, x) < Rank(S, y)
    BY Ranks
  <2>3. f[j] # f[k]
    BY <2>1
  <2>4. ~(f[k] < f[j])
    <3> SUFFICES ASSUME f[k] < f[j] PROVE FALSE
      OBVIOUS
    <3>1. Rank(S, f[k]) < Rank(S, f[j])
      BY <2>1, <2>2
    <3> QED BY <2>1, <3>1
  <2>5. f[j] \in Int /\ f[k] \in Int
    BY <2>1
  <2> QED BY <2>3, <2>4, <2>5
<1>6. \A i \in S : \E j \in 1..c : f[j] = i
  <2> SUFFICES ASSUME NEW i \in S PROVE \E j \in 1..c : f[j] = i
    OBVIOUS
  <2>1. Rank(S, i) \in 1..c
    BY Ranks
  <2>2. f[Rank(S, i)] = i
    BY <1>1, <1>4, <2>1
  <2> QED BY <2>1, <2>2
<1> HIDE DEF f
<1>7. Numbers(f, S)
  BY <1>1, <1>2, <1>5, <1>6 DEF Numbers
<1>8. c \in Nat
  BY Ranks
<1> QED BY <1>3, <1>7, <1>8

----------------------------------------------------------------------------
(* What a run of units carries.                                                    *)

\* The kinds of message, and the units of a stream.
Ops == {"init", "hello_ack", "palette", "resync", "state", "query", "garbled_query", "close"}
Unit == [op : Ops \cup Heads, n : Nat, k : Nat, of : Nat, ends : BOOLEAN]

\* The units of a run that are not a segment's own.
Carried(U) == {i \in DOMAIN U : ~IsHead(U[i])}
\* A unit is known by its message, its place in the frame and the frame's size.
Key(unit) == <<unit.n, unit.k, unit.of>>
Keys(U) == {Key(U[i]) : i \in Carried(U)}
\* The order of units: by message, then by place in the frame.
Less(p, q) == p[1] < q[1] \/ (p[1] = q[1] /\ p[2] < q[2])
\* All of some units come before all of some others.
Before(K, L) == \A p \in K, q \in L : Less(p, q)

\* The units of the messages from place a on.
Due(msgs, a) ==
    {p \in Nat \X Nat \X Nat :
        /\ a <= p[1] /\ p[1] <= Len(msgs)
        /\ p[3] = FrameSize(msgs[p[1]].op) /\ 1 <= p[2] /\ p[2] <= p[3]}

\* Units of the messages sent, in the order of the frames they are of.
Ordered(U) ==
    /\ U \in Seq(Unit)
    /\ \A i, j \in Carried(U) :
         i < j => Less(Key(U[i]), Key(U[j]))

\* A run of no units carries nothing.
LEMMA EmptyCarries == Ordered(<<>>) /\ Keys(<<>>) = {}
BY DEF Ordered, Keys, Carried

\* One run behind another.
LEMMA Joined ==
    ASSUME NEW A, NEW B, Ordered(A), Ordered(B), Before(Keys(A), Keys(B))
    PROVE  Ordered(A \o B) /\ Keys(A \o B) = Keys(A) \cup Keys(B)
<1> DEFINE U == A \o B
           m == Len(A)
<1>1. A \in Seq(Unit) /\ B \in Seq(Unit) /\ m \in Nat /\ Len(B) \in Nat
  BY DEF Ordered
<1>2. U \in Seq(Unit) /\ Len(U) = m + Len(B) /\ DOMAIN U = 1..m + Len(B)
      /\ DOMAIN A = 1..m /\ DOMAIN B = 1..Len(B)
  BY <1>1
<1>3. \A i \in DOMAIN U : U[i] = IF i <= m THEN A[i] ELSE B[i - m]
  BY <1>1
<1>4. \A i \in Carried(U) : (i \in Carried(A) /\ U[i] = A[i] /\ i <= m)
                            \/ (i - m \in Carried(B) /\ U[i] = B[i - m] /\ i > m)
  BY <1>1, <1>2, <1>3 DEF Carried
<1>5. \A i \in Carried(A) : i \in Carried(U) /\ U[i] = A[i]
  BY <1>1, <1>2, <1>3 DEF Carried
<1>6. \A i \in Carried(B) : i + m \in Carried(U) /\ U[i + m] = B[i]
  BY <1>1, <1>2, <1>3 DEF Carried
<1> HIDE DEF U
<1>7. Keys(U) = Keys(A) \cup Keys(B)
  <2>1. \A p \in Keys(U) : p \in Keys(A) \cup Keys(B)
    BY <1>4 DEF Keys
  <2>2. \A p \in Keys(A) : p \in Keys(U)
    BY <1>5 DEF Keys
  <2>3. \A p \in Keys(B) : p \in Keys(U)
    BY <1>6 DEF Keys
  <2> QED BY <2>1, <2>2, <2>3
<1>9. ASSUME NEW i \in Carried(U), NEW j \in Carried(U), i < j
      PROVE  Less(Key(U[i]), Key(U[j]))
  <2>0. i \in Int /\ j \in Int
    BY <1>2 DEF Carried
  <2>1. CASE j <= m
    <3>1. i \in Carried(A) /\ U[i] = A[i] /\ j \in Carried(A) /\ U[j] = A[j]
      BY <1>1, <1>4, <1>9, <2>0, <2>1
    <3> QED BY <1>9, <3>1 DEF Ordered
  <2>2. CASE i > m
    <3>1. i - m \in Carried(B) /\ U[i] = B[i - m] /\ j - m \in Carried(B) /\ U[j] = B[j - m]
      BY <1>1, <1>4, <1>9, <2>0, <2>2
    <3>2. i - m < j - m
      BY <1>1, <1>9, <2>0
    <3> QED BY <3>1, <3>2 DEF Ordered
  <2>3. CASE i <= m /\ j > m
    <3>1. i \in Carried(A) /\ U[i] = A[i] /\ j - m \in Carried(B) /\ U[j] = B[j - m]
      BY <1>1, <1>4, <2>0, <2>3
    <3>2. Key(U[i]) \in Keys(A) /\ Key(U[j]) \in Keys(B)
      BY <3>1 DEF Keys
    <3> QED BY <3>2 DEF Before, Less
  <2> QED BY <1>1, <2>0, <2>1, <2>2, <2>3
<1> QED BY <1>2, <1>7, <1>9 DEF Ordered, U

\* Some places of a run, in their order.
Chooses(f, V, U) ==
    /\ V \in Seq(Unit) /\ f \in [1..Len(V) -> DOMAIN U]
    /\ \A j \in 1..Len(V) : V[j] = U[f[j]]
    /\ \A j, k \in 1..Len(V) : j < k => f[j] < f[k]

\* Some of a run's units in their order are a run, and carry those units.
LEMMA Chosen ==
    ASSUME NEW U, Ordered(U), NEW V, NEW f, Chooses(f, V, U)
    PROVE  /\ Ordered(V) /\ Keys(V) \subseteq Keys(U)
           /\ \A p \in Keys(V) : \E j \in 1..Len(V) :
                f[j] \in Carried(U) /\ p = Key(U[f[j]])
           /\ \A j \in 1..Len(V) : f[j] \in Carried(U)
                                   => Key(U[f[j]]) \in Keys(V)
<1> USE DEF Chooses
<1>1. Len(V) \in Nat /\ DOMAIN V = 1..Len(V) /\ DOMAIN U = 1..Len(U) /\ Len(U) \in Nat
  BY DEF Ordered
<1>2. \A j \in 1..Len(V) : f[j] \in DOMAIN U
  OBVIOUS
<1>3. \A j \in 1..Len(V) : j \in Carried(V) <=> f[j] \in Carried(U)
  BY <1>1, <1>2 DEF Carried
<1>4. Carried(V) \subseteq 1..Len(V)
  BY <1>1 DEF Carried
<1>5. \A j \in Carried(V) : V[j] = U[f[j]] /\ f[j] \in Carried(U)
  BY <1>3, <1>4
<1>6. Ordered(V)
  <2>2. \A i, j \in Carried(V) : i < j => Less(Key(V[i]), Key(V[j]))
    BY <1>4, <1>5 DEF Ordered
  <2> QED BY <2>2 DEF Ordered
<1>7. \A p \in Keys(V) : \E j \in 1..Len(V) : f[j] \in Carried(U) /\ p = Key(U[f[j]])
  BY <1>4, <1>5 DEF Keys
<1>8. \A j \in 1..Len(V) : f[j] \in Carried(U) => Key(U[f[j]]) \in Keys(V)
  <2> SUFFICES ASSUME NEW j \in 1..Len(V), f[j] \in Carried(U)
               PROVE  Key(U[f[j]]) \in Keys(V)
    OBVIOUS
  <2>1. j \in Carried(V) /\ V[j] = U[f[j]]
    BY <1>3
  <2> QED BY <2>1 DEF Keys
<1>9. Keys(V) \subseteq Keys(U)
  <2> SUFFICES ASSUME NEW p \in Keys(V) PROVE p \in Keys(U)
    OBVIOUS
  <2>1. PICK j \in 1..Len(V) : f[j] \in Carried(U) /\ p = Key(U[f[j]])
    BY <1>7
  <2> QED BY <2>1 DEF Keys
<1> QED BY <1>6, <1>7, <1>8, <1>9

\* A run cut in two.
LEMMA Cut ==
    ASSUME NEW U, Ordered(U), NEW m \in 0..Len(U)
    PROVE  /\ Ordered(SubSeq(U, 1, m)) /\ Ordered(SubSeq(U, m + 1, Len(U)))
           /\ Before(Keys(SubSeq(U, 1, m)), Keys(SubSeq(U, m + 1, Len(U))))
           /\ Keys(SubSeq(U, 1, m)) \cup Keys(SubSeq(U, m + 1, Len(U))) = Keys(U)
           /\ \A p \in Keys(SubSeq(U, m + 1, Len(U))) :
                \E i \in Carried(U) : i > m /\ p = Key(U[i])
           /\ \A i \in Carried(U) :
                i > m => Key(U[i]) \in Keys(SubSeq(U, m + 1, Len(U)))
<1> DEFINE A == SubSeq(U, 1, m)
           B == SubSeq(U, m + 1, Len(U))
           f == [j \in 1..m |-> j]
           g == [j \in 1..Len(U) - m |-> j + m]
<1>0. U \in Seq(Unit) /\ Len(U) \in Nat /\ m \in Nat /\ m <= Len(U)
  BY DEF Ordered
<1>1. U \in Seq(Unit) /\ Len(U) \in Nat /\ DOMAIN U = 1..Len(U) /\ m \in Nat
  BY DEF Ordered
<1>2. A \in Seq(Unit) /\ Len(A) = m /\ \A j \in 1..m : A[j] = U[j]
  BY <1>1
<1>3. B \in Seq(Unit) /\ Len(B) = Len(U) - m /\ \A j \in 1..Len(U) - m : B[j] = U[j + m]
  <2>1. B \in Seq(Unit) /\ Len(B) = Len(U) - m
    <3>1. CASE m = Len(U)
      <4>1. B = <<>>
        BY <1>0, <3>1, SubSeqEmpty
      <4> QED BY <1>0, <3>1, <4>1
    <3>2. CASE m < Len(U)
      BY <1>0, <3>2
    <3> QED BY <1>0, <3>1, <3>2
  <2>2. ASSUME NEW j \in 1..Len(U) - m PROVE B[j] = U[j + m]
    <3>1. j \in 1..Len(U) - (m + 1) + 1 /\ m + 1 + j - 1 = j + m
      BY <1>1
    <3> QED BY <1>1, <3>1
  <2> QED BY <2>1, <2>2
<1>4. f \in [1..m -> DOMAIN U] /\ g \in [1..Len(U) - m -> DOMAIN U]
  BY <1>1
<1>5. \A j \in 1..m : f[j] = j
  OBVIOUS
<1>6. \A j \in 1..Len(U) - m : g[j] = j + m
  OBVIOUS
<1>7. /\ \A j, k \in 1..m : j < k => f[j] < f[k]
      /\ \A j, k \in 1..Len(U) - m : j < k => g[j] < g[k]
  BY <1>1
<1> HIDE DEF A, B, f, g
<1>8. /\ Ordered(A) /\ Keys(A) \subseteq Keys(U)
      /\ \A p \in Keys(A) : \E j \in 1..m :
           f[j] \in Carried(U) /\ p = Key(U[f[j]])
      /\ \A j \in 1..m : f[j] \in Carried(U) => Key(U[f[j]]) \in Keys(A)
  <2>1. \A j \in 1..m : A[j] = U[f[j]]
    BY <1>2, <1>5
  <2>2. f \in [1..Len(A) -> DOMAIN U] /\ (\A j \in 1..Len(A) : A[j] = U[f[j]])
        /\ \A j, k \in 1..Len(A) : j < k => f[j] < f[k]
    BY <1>2, <1>4, <1>7, <2>1
  <2>3. Chooses(f, A, U)
    BY <1>2, <2>2 DEF Chooses
  <2> QED BY <1>2, <2>3, Chosen
<1>9. /\ Ordered(B) /\ Keys(B) \subseteq Keys(U)
      /\ \A p \in Keys(B) : \E j \in 1..Len(U) - m :
           g[j] \in Carried(U) /\ p = Key(U[g[j]])
      /\ \A j \in 1..Len(U) - m : g[j] \in Carried(U) => Key(U[g[j]]) \in Keys(B)
  <2>1. \A j \in 1..Len(U) - m : B[j] = U[g[j]]
    BY <1>3, <1>6
  <2>2. g \in [1..Len(B) -> DOMAIN U] /\ (\A j \in 1..Len(B) : B[j] = U[g[j]])
        /\ \A j, k \in 1..Len(B) : j < k => g[j] < g[k]
    BY <1>3, <1>4, <1>7, <2>1
  <2>3. Chooses(g, B, U)
    BY <1>3, <2>2 DEF Chooses
  <2>4. /\ Ordered(B) /\ Keys(B) \subseteq Keys(U)
        /\ \A p \in Keys(B) : \E j \in 1..Len(B) :
             g[j] \in Carried(U) /\ p = Key(U[g[j]])
        /\ \A j \in 1..Len(B) : g[j] \in Carried(U) => Key(U[g[j]]) \in Keys(B)
    BY <2>3, Chosen
  <2>5. Len(B) = Len(U) - m
    BY <1>3
  <2> HIDE <1>3, <1>8
  <2> QED BY <2>4, <2>5
<1>10. \A p \in Keys(A) : \E i \in Carried(U) : i <= m /\ p = Key(U[i])
  BY <1>1, <1>5, <1>8
<1>11. \A p \in Keys(B) : \E i \in Carried(U) : i > m /\ p = Key(U[i])
  BY <1>1, <1>6, <1>9
<1>12. Before(Keys(A), Keys(B))
  <2> SUFFICES ASSUME NEW p \in Keys(A), NEW q \in Keys(B) PROVE Less(p, q)
    BY DEF Before
  <2>1. PICK i \in Carried(U) : i <= m /\ p = Key(U[i])
    BY <1>10
  <2>2. PICK j \in Carried(U) : j > m /\ q = Key(U[j])
    BY <1>11
  <2>3. i < j
    BY <1>1, <2>1, <2>2 DEF Carried
  <2>4. Less(Key(U[i]), Key(U[j]))
    BY <2>3 DEF Ordered
  <2> QED BY <2>1, <2>2, <2>4 DEF Less
<1>13. ASSUME NEW i \in Carried(U), i > m PROVE Key(U[i]) \in Keys(B)
  <2>1. i \in 1..Len(U)
    BY <1>1 DEF Carried
  <2>2. i - m \in 1..Len(U) - m /\ g[i - m] = i
    BY <1>1, <1>6, <1>13, <2>1
  <2> QED BY <1>9, <2>2
<1>14. Keys(U) \subseteq Keys(A) \cup Keys(B)
  <2> SUFFICES ASSUME NEW i \in Carried(U) PROVE Key(U[i]) \in Keys(A) \cup Keys(B)
    BY DEF Keys
  <2>0. i \in 1..Len(U)
    BY <1>1 DEF Carried
  <2>1. CASE i <= m
    BY <1>1, <1>5, <1>8, <2>0, <2>1
  <2> QED BY <1>0, <1>13, <2>0, <2>1
<1> QED BY <1>8, <1>9, <1>11, <1>12, <1>13, <1>14 DEF A, B

\* What is picked from a run is a run, and carries what was picked.
LEMMA PickedRun ==
    ASSUME NEW U, Ordered(U), NEW S \in SUBSET (1..Len(U))
    PROVE  /\ Ordered(Picked(U, S))
           /\ \A p \in Keys(Picked(U, S)) : \E i \in S :
                i \in Carried(U) /\ p = Key(U[i])
           /\ \A i \in S : i \in Carried(U) => Key(U[i]) \in Keys(Picked(U, S))
<1>1. U \in Seq(Unit) /\ Len(U) \in Nat
  BY DEF Ordered
<1>2. S \in SUBSET Int /\ IsFiniteSet(S)
  <2>1. IsFiniteSet(1..Len(U))
    BY <1>1, FS_Interval
  <2>2. IsFiniteSet(S)
    BY <2>1, FS_Subset
  <2> QED BY <1>1, <2>2
<1> DEFINE c == Cardinality(S)
           V == Picked(U, S)
<1>3. PICK f : Numbers(f, S) /\ V = [j \in 1..c |-> U[f[j]]]
  BY <1>2, PickedAre
<1>31. c \in Nat /\ f \in [1..c -> S] /\ (\A j, k \in 1..c : j < k => f[j] < f[k])
      /\ \A i \in S : \E j \in 1..c : f[j] = i
  BY <1>2, <1>3, PickedAre DEF Numbers
<1> HIDE DEF c, V
<1>4. \A i \in 1..Len(U) : U[i] \in Unit
  BY <1>1
<1>5. V \in Seq(Unit) /\ Len(V) = c /\ \A j \in 1..c : V[j] = U[f[j]]
  <2>1. \A j \in 1..c : f[j] \in 1..Len(U)
    BY <1>31
  <2>2. \A j \in 1..c : U[f[j]] \in Unit
    BY <1>4, <2>1
  <2> QED BY <1>3, <1>31, <2>2
<1>6. DOMAIN U = 1..Len(U)
  BY <1>1
<1>7. Chooses(f, V, U)
  <2>1. f \in [1..Len(V) -> DOMAIN U]
    BY <1>31, <1>5, <1>6
  <2> QED BY <1>31, <1>5, <2>1 DEF Chooses
<1>9. /\ Ordered(V)
      /\ \A p \in Keys(V) : \E j \in 1..Len(V) :
           f[j] \in Carried(U) /\ p = Key(U[f[j]])
      /\ \A j \in 1..Len(V) : f[j] \in Carried(U) => Key(U[f[j]]) \in Keys(V)
  BY <1>7, Chosen
<1>10. Len(V) = c
  BY <1>5
<1>11. \A p \in Keys(V) : \E i \in S : i \in Carried(U) /\ p = Key(U[i])
  BY <1>31, <1>9, <1>10
<1>12. \A i \in S : i \in Carried(U) => Key(U[i]) \in Keys(V)
  BY <1>31, <1>9, <1>10
<1> QED BY <1>9, <1>11, <1>12 DEF V

\* The complete segments' units leave, the rest stays.
LEMMA DecodeKeeps ==
    ASSUME NEW U, Ordered(U)
    PROVE  /\ Ordered(decode(U).units) /\ Ordered(decode(U).rest)
           /\ Before(Keys(decode(U).units), Keys(decode(U).rest))
           /\ Keys(decode(U).units) \cup Keys(decode(U).rest) = Keys(U)
<1>1. U \in Seq(Unit) /\ Len(U) \in Nat
  BY DEF Ordered
<1>2. DOMAIN U = 1..Len(U)
  BY <1>1
<1> DEFINE ends == {i \in DOMAIN U : U[i].ends}
           done == Max(ends \cup {0})
           S == {i \in 1..done : ~IsHead(U[i])}
<1>3. decode(U).units = Picked(U, S) /\ decode(U).rest = SubSeq(U, done + 1, Len(U))
  BY DEF decode
<1>4. ends \cup {0} \in SUBSET Int /\ IsFiniteSet(ends \cup {0}) /\ ends \cup {0} # {}
  <2>1. ends \cup {0} \in SUBSET (0..Len(U))
    BY <1>1, <1>2
  <2>2. IsFiniteSet(0..Len(U))
    BY <1>1, FS_Interval
  <2>3. IsFiniteSet(ends \cup {0})
    BY <2>1, <2>2, FS_Subset
  <2> QED BY <1>1, <2>1, <2>3
<1>5. done \in 0..Len(U)
  <2>1. done \in ends \cup {0}
    BY <1>4, LastPlace
  <2> HIDE DEF done
  <2> QED BY <1>1, <1>2, <2>1
<1> HIDE DEF ends, done
<1>6. S \in SUBSET (1..Len(U))
  BY <1>1, <1>5
<1> DEFINE A == SubSeq(U, 1, done)
           B == SubSeq(U, done + 1, Len(U))
           V == Picked(U, S)
<1>7. /\ Ordered(B) /\ Keys(A) \cup Keys(B) = Keys(U)
      /\ \A p \in Keys(B) : \E i \in Carried(U) : i > done /\ p = Key(U[i])
      /\ \A i \in Carried(U) : i > done => Key(U[i]) \in Keys(B)
  BY <1>5, Cut
<1>8. /\ Ordered(V)
      /\ \A p \in Keys(V) : \E i \in S : i \in Carried(U) /\ p = Key(U[i])
      /\ \A i \in S : i \in Carried(U) => Key(U[i]) \in Keys(V)
  BY <1>6, PickedRun
<1> HIDE DEF A, B, V
<1>9. Before(Keys(V), Keys(B))
  <2> SUFFICES ASSUME NEW p \in Keys(V), NEW q \in Keys(B) PROVE Less(p, q)
    BY DEF Before
  <2>1. PICK i \in S : i \in Carried(U) /\ p = Key(U[i])
    BY <1>8
  <2>2. PICK j \in Carried(U) : j > done /\ q = Key(U[j])
    BY <1>7
  <2>3. i < j
    BY <1>2, <1>5, <2>2 DEF Carried
  <2>4. Less(Key(U[i]), Key(U[j]))
    BY <2>1, <2>3 DEF Ordered
  <2> QED BY <2>1, <2>2, <2>4 DEF Less
<1>10. Keys(V) \subseteq Keys(U)
  BY <1>8 DEF Keys
<1>11. Keys(U) \subseteq Keys(V) \cup Keys(B)
  <2> SUFFICES ASSUME NEW i \in Carried(U) PROVE Key(U[i]) \in Keys(V) \cup Keys(B)
    BY DEF Keys
  <2>0. i \in 1..Len(U) /\ ~IsHead(U[i])
    BY <1>2 DEF Carried
  <2>1. CASE i <= done
    <3>1. i \in S
      BY <1>5, <2>0, <2>1
    <3> QED BY <1>8, <3>1
  <2> QED BY <1>5, <1>7, <2>0, <2>1
<1> QED BY <1>3, <1>7, <1>8, <1>9, <1>10, <1>11 DEF V, B

\* The messages delivered are those from place a on, one after another.
Delivers(msgs, messages, a) ==
    /\ messages \in Seq(Unit) /\ a + Len(messages) <= Len(msgs) + 1
    /\ \A j \in 1..Len(messages) : messages[j].n = a + j - 1

\* A run is what is left of the messages from place a on, but for the units of L behind it.
Left(msgs, U, L, a) ==
    /\ Len(msgs) \in Nat /\ a \in Nat /\ 1 <= a /\ a <= Len(msgs) + 1
    /\ Ordered(U) /\ Before(Keys(U), L) /\ Keys(U) \cup L = Due(msgs, a)

\* The frames that end up to place t.
Ends(U, t) == {i \in 1..t : IsLast(U[i])}

\* What a unit that is due looks like.
LEMMA DueParts ==
    ASSUME NEW msgs, NEW a, NEW p \in Due(msgs, a)
    PROVE  /\ p = <<p[1], p[2], p[3]>> /\ p[1] \in Nat /\ p[2] \in Nat
           /\ a <= p[1] /\ p[1] <= Len(msgs)
           /\ p[3] = FrameSize(msgs[p[1]].op) /\ 1 <= p[2] /\ p[2] <= p[3]
BY DEF Due

\* Every unit of a message that is due is due.
LEMMA DueHas ==
    ASSUME NEW msgs, NEW a, NEW n \in Nat, NEW k \in Nat, a <= n, n <= Len(msgs),
           1 <= k, k <= FrameSize(msgs[n].op)
    PROVE  <<n, k, FrameSize(msgs[n].op)>> \in Due(msgs, a)
BY DEF Due, FrameSize, Header

\* The parts of a unit's key.
LEMMA KeyParts ==
    \A u : Key(u)[1] = u.n /\ Key(u)[2] = u.k /\ Key(u)[3] = u.of
BY DEF Key

\* A unit that comes before another is of an earlier message or earlier in its frame.
LEMMA KeysInOrder ==
    ASSUME NEW u, NEW v, Less(Key(u), Key(v))
    PROVE  u.n < v.n \/ (u.n = v.n /\ u.k < v.k)
BY DEF Less, Key

\* A frame has a unit at least: its header.
LEMMA SizeOfFrame == \A op : FrameSize(op) \in Nat /\ 1 <= FrameSize(op)
BY DEF FrameSize, Header

\* The frames that end before a place are the next ones, one after the other.
LEMMA NextFrames ==
    ASSUME NEW msgs, NEW U, NEW L, NEW a, Left(msgs, U, L, a), NEW t \in 0..Len(U),
           \A i \in 1..t : ~IsHead(U[i])
    PROVE  /\ \A i \in Ends(U, t) : /\ i \in Carried(U) /\ U[i].n \in a..Len(msgs)
                                   /\ U[i].k = FrameSize(msgs[U[i].n].op)
           /\ \A i \in Ends(U, t) : Rank(Ends(U, t), i) = U[i].n - a + 1
<1> DEFINE P == Ends(U, t)
           Full(n) == FrameSize(msgs[n].op)
<1>1. U \in Seq(Unit) /\ Len(U) \in Nat /\ a \in Nat /\ t \in Nat /\ t <= Len(U)
      /\ Len(msgs) \in Nat
  BY DEF Ordered, Left
<1>2. DOMAIN U = 1..Len(U)
  BY <1>1
<1>3. \A i \in 1..t : i \in Carried(U) /\ U[i] \in Unit
  BY <1>1, <1>2 DEF Carried
<1>4. \A i \in Carried(U) : Key(U[i]) \in Due(msgs, a) 
  BY DEF Left, Keys
<1>5. ASSUME NEW i \in Carried(U)
      PROVE  U[i].n \in a..Len(msgs) /\ U[i].k \in Nat /\ U[i].of = Full(U[i].n)
  <2> DEFINE p == Key(U[i])
  <2>1. p \in Due(msgs, a)
    BY <1>4
  <2>2. p[1] = U[i].n /\ p[2] = U[i].k /\ p[3] = U[i].of
    BY KeyParts
  <2> HIDE DEF p
  <2>3. p[1] \in Nat /\ p[2] \in Nat /\ a <= p[1] /\ p[1] <= Len(msgs)
           /\ p[3] = FrameSize(msgs[p[1]].op)
    BY <2>1, DueParts
  <2> QED BY <1>1, <2>2, <2>3
<1>6. \A i \in P : i \in Carried(U) /\ i \in 1..t /\ U[i].k = Full(U[i].n)
  BY <1>3, <1>5 DEF Ends, IsLast
<1> HIDE DEF P
<1>7. \A i, j \in P : i < j => U[i].n < U[j].n
  <2> SUFFICES ASSUME NEW i \in P, NEW j \in P, i < j PROVE U[i].n < U[j].n
    OBVIOUS
  <2>1. U[i].n < U[j].n \/ (U[i].n = U[j].n /\ U[i].k < U[j].k)
    BY <1>6, KeysInOrder DEF Left, Ordered
  <2>2. U[i].k = Full(U[i].n) /\ U[j].k = Full(U[j].n)
    BY <1>6
  <2>3. Full(U[i].n) \in Nat
    BY SizeOfFrame
  <2> QED BY <2>1, <2>2, <2>3
<1>8. ASSUME NEW i \in P, NEW n \in a..U[i].n
      PROVE  \E e \in P : e <= i /\ U[e].n = n
  <2>0. i \in Carried(U) /\ i \in 1..t /\ U[i].k = Full(U[i].n) /\ U[i].n \in a..Len(msgs)
    BY <1>5, <1>6
  <2>1. Full(n) \in Nat /\ 1 <= Full(n) /\ Full(U[i].n) \in Nat
    BY SizeOfFrame
  <2>2. n \in Nat /\ a <= n /\ n <= Len(msgs) /\ n <= U[i].n /\ U[i].n \in Nat
    BY <1>1, <2>0
  <2> DEFINE key == <<n, Full(n), Full(n)>>
  <2>3. key \in Due(msgs, a)
    BY <2>1, <2>2 DEF Due
  <2>4. key \notin L
    <3> SUFFICES ASSUME key \in L PROVE FALSE
      OBVIOUS
    <3>1. Key(U[i]) \in Keys(U)
      BY <2>0 DEF Keys
    <3>2. Less(Key(U[i]), key)
      BY <3>1 DEF Left, Before
    <3>3. U[i].n < n \/ (U[i].n = n /\ U[i].k < Full(n))
      BY <3>2, KeyParts DEF Less
    <3> QED BY <2>0, <2>1, <2>2, <3>3
  <2>5. PICK e \in Carried(U) : Key(U[e]) = key
    BY <2>3, <2>4 DEF Left, Keys
  <2>6. U[e].n = n /\ U[e].k = Full(n) /\ U[e].of = Full(n) /\ e \in 1..Len(U)
    BY <1>2, <2>5 DEF Carried, Key
  <2>7. ~(i < e)
    <3> SUFFICES ASSUME i < e PROVE FALSE
      OBVIOUS
    <3>1. U[i].n < U[e].n \/ (U[i].n = U[e].n /\ U[i].k < U[e].k)
      BY <2>0, KeysInOrder DEF Left, Ordered
    <3> QED BY <2>0, <2>1, <2>2, <2>6, <3>1
  <2>8. e <= i /\ e \in 1..t
    BY <1>1, <2>0, <2>6, <2>7
  <2>9. IsLast(U[e])
    BY <1>4, <2>6 DEF IsLast, Carried
  <2> QED BY <2>6, <2>8, <2>9 DEF P, Ends
<1>9. ASSUME NEW i \in P PROVE Rank(P, i) = U[i].n - a + 1
  <2> DEFINE T == {e \in P : e <= i}
             g == [e \in T |-> U[e].n]
  <2>0. U[i].n \in a..Len(msgs) /\ i \in Int
    BY <1>5, <1>6
  <2>1. \A e \in T : e \in P /\ e \in Int /\ e <= i /\ U[e].n \in Nat /\ a <= U[e].n
    BY <1>1, <1>5, <1>6
  <2>2. \A e \in T : U[e].n \in a..U[i].n
    <3> SUFFICES ASSUME NEW e \in T PROVE U[e].n \in a..U[i].n
      OBVIOUS
    <3>1. e = i \/ e < i
      BY <2>0, <2>1
    <3>2. U[e].n = U[i].n \/ U[e].n < U[i].n
      BY <1>7, <2>1, <3>1
    <3>3. U[e].n \in Nat /\ a <= U[e].n /\ U[i].n \in Nat
      BY <1>1, <2>0, <2>1
    <3> HIDE DEF T
    <3> QED BY <1>1, <3>2, <3>3
  <2>3. g \in [T -> a..U[i].n]
    BY <2>2
  <2>4. \A d, e \in T : g[d] = g[e] => d = e
    <3> SUFFICES ASSUME NEW d \in T, NEW e \in T, d # e PROVE g[d] # g[e]
      OBVIOUS
    <3>1. d < e \/ e < d
      BY <2>1
    <3>2. U[d].n < U[e].n \/ U[e].n < U[d].n
      BY <1>7, <2>1, <3>1
    <3> QED BY <2>1, <3>2
  <2>5. \A n \in a..U[i].n : \E e \in T : g[e] = n
    BY <1>8
  <2>6. g \in Injection(T, a..U[i].n) /\ g \in Surjection(T, a..U[i].n)
    <3> HIDE DEF g, T
    <3>1. DOMAIN g = T
      BY <2>3
    <3> QED BY <2>3, <2>4, <2>5, <3>1 DEF Injection, IsInjective, Surjection
  <2>7. IsFiniteSet(a..U[i].n) /\ Cardinality(a..U[i].n) = U[i].n - a + 1
    <3>1. a \in Int /\ U[i].n \in Int /\ ~(a > U[i].n)
      BY <1>1, <2>0
    <3> QED BY <3>1, FS_Interval
  <2>8. Cardinality(T) = Cardinality(a..U[i].n)
    BY <2>6, <2>7, FS_Injection
  <2> QED BY <2>7, <2>8 DEF Rank
<1>10. \A i \in P : i \in Carried(U) /\ U[i].n \in a..Len(msgs) /\ U[i].k = Full(U[i].n)
  BY <1>5, <1>6
<1> QED BY <1>9, <1>10 DEF P

\* Cutting the frames up to a place delivers the next messages and leaves the others' units.
LEMMA MessagesCut ==
    ASSUME NEW msgs, NEW U, NEW L, NEW a, Left(msgs, U, L, a), NEW t \in 0..Len(U),
           \A i \in 1..t : ~IsHead(U[i]), t # 0 => IsLast(U[t])
    PROVE  /\ Delivers(msgs, Picked(U, Ends(U, t)), a)
           /\ Left(msgs, SubSeq(U, t + 1, Len(U)), L, a + Len(Picked(U, Ends(U, t))))
           /\ Keys(SubSeq(U, t + 1, Len(U))) \subseteq Keys(U)
<1> DEFINE P == Ends(U, t)
           c == Cardinality(P)
           V == Picked(U, P)
           B == SubSeq(U, t + 1, Len(U))
           Full(n) == FrameSize(msgs[n].op)
<1>1. U \in Seq(Unit) /\ Len(U) \in Nat /\ a \in Nat /\ 1 <= a /\ t \in Nat /\ t <= Len(U)
      /\ Len(msgs) \in Nat /\ a <= Len(msgs) + 1 /\ Ordered(U)
  BY DEF Ordered, Left
<1>2. DOMAIN U = 1..Len(U)
  BY <1>1
<1>3. P \in SUBSET (1..Len(U)) /\ P \in SUBSET Int
  BY <1>1 DEF Ends
<1>4. IsFiniteSet(P)
  <2>1. IsFiniteSet(1..Len(U))
    BY <1>1, FS_Interval
  <2> QED BY <1>3, <2>1, FS_Subset
<1>5. \A i \in P : i \in Carried(U) /\ U[i].n \in a..Len(msgs) /\ U[i].k = Full(U[i].n)
  BY NextFrames
<1>6. \A i \in P : Rank(P, i) = U[i].n - a + 1
  BY NextFrames
<1>7. c \in Nat
  BY <1>4, FS_CardinalityType
<1>8. PICK f : Numbers(f, P) /\ V = [j \in 1..c |-> U[f[j]]]
  BY <1>3, <1>4, PickedAre
<1> HIDE DEF V, c
<1>9. ASSUME NEW j \in 1..c
      PROVE  f[j] \in P /\ U[f[j]].n = a + j - 1 /\ U[f[j]].n \in a..Len(msgs)
             /\ U[f[j]] \in Unit
  <2>1. f[j] \in P /\ Rank(P, f[j]) = j
    BY <1>8 DEF Numbers, c
  <2> DEFINE n == U[f[j]].n
  <2>2. j = n - a + 1 /\ n \in a..Len(msgs)
    BY <1>5, <1>6, <2>1
  <2>3. U[f[j]] \in Unit
    BY <1>1, <1>3, <2>1
  <2> HIDE DEF P
  <2>4. n = a + j - 1
    <3> HIDE DEF n
    <3> QED BY <1>1, <2>2
  <2> QED BY <2>1, <2>2, <2>3, <2>4
<1>10. V \in Seq(Unit) /\ Len(V) = c /\ \A j \in 1..c : V[j].n = a + j - 1
  <2> HIDE DEF P
  <2>1. \A j \in 1..c : U[f[j]] \in Unit
    BY <1>9
  <2>2. V \in Seq(Unit) /\ Len(V) = c /\ \A j \in 1..c : V[j] = U[f[j]]
    BY <1>7, <1>8, <2>1
  <2> QED BY <1>9, <2>2
<1>11. a + c <= Len(msgs) + 1
  <2>1. CASE c = 0
    BY <1>1, <2>1
  <2>2. CASE c # 0
    <3>1. c \in 1..c
      BY <1>7, <2>2
    <3>2. a + c - 1 \in a..Len(msgs)
      BY <1>9, <3>1
    <3> QED BY <1>1, <1>7, <3>2
  <2> QED BY <2>1, <2>2
<1>12. Delivers(msgs, V, a)
  BY <1>10, <1>11 DEF Delivers
<1>13. CASE t = 0
  <2>1. P = {}
    BY <1>13 DEF Ends
  <2>2. c = 0
    BY <2>1, FS_EmptySet DEF c
  <2>3. t \in 0..Len(U)
    OBVIOUS
  <2>4. Ordered(B) /\ Keys(B) \subseteq Keys(U)
    BY <1>1, <2>3, Cut
  <2>5. \A i \in Carried(U) : i > 0
    BY <1>1, <1>2 DEF Carried
  <2>6. \A i \in Carried(U) : Key(U[i]) \in Keys(B)
    BY <1>1, <1>13, <2>3, <2>5, Cut
  <2>7. Keys(B) = Keys(U)
    BY <2>4, <2>6 DEF Keys
  <2>8. a + Len(V) = a
    BY <1>1, <1>10, <2>2
  <2> HIDE DEF B
  <2>9. Left(msgs, B, L, a)
    BY <2>4, <2>7 DEF Left
  <2> QED BY <1>12, <2>4, <2>8, <2>9 DEF V, B
<1>14. CASE t # 0
  <2>1. t \in P
    BY <1>1, <1>14 DEF Ends
  <2>2. Rank(P, t) = c
    <3>1. {e \in P : e <= t} = P
      BY <1>1 DEF Ends
    <3> QED BY <3>1 DEF Rank, c
  <2>3. t \in Carried(U) /\ U[t].n = a + c - 1 /\ U[t].k = Full(U[t].n) /\ U[t].n \in Nat
    <3>1. U[t].n - a + 1 = c /\ U[t].n \in a..Len(msgs)
      BY <1>6, <1>5, <2>1, <2>2
    <3> DEFINE n == U[t].n
    <3>2. n = a + c - 1 /\ n \in Nat
      <4> HIDE DEF n
      <4>1. n - a + 1 = c /\ n \in a..Len(msgs)
        BY <3>1 DEF n
      <4> HIDE DEF P
      <4> QED BY <1>1, <1>7, <4>1
    <3> QED BY <1>5, <2>1, <3>2
  <2>4. /\ Ordered(B) /\ Keys(B) \subseteq Keys(U)
        /\ \A p \in Keys(B) : \E i \in Carried(U) : i > t /\ p = Key(U[i])
        /\ \A i \in Carried(U) : i > t => Key(U[i]) \in Keys(B)
    <3>1. t \in 0..Len(U) /\ Ordered(U)
      BY <1>1
    <3>2. Ordered(B) /\ Keys(B) \subseteq Keys(U)
      BY <3>1, Cut
    <3>3. \A p \in Keys(B) : \E i \in Carried(U) : i > t /\ p = Key(U[i])
      BY <3>1, Cut
    <3>4. \A i \in Carried(U) : i > t => Key(U[i]) \in Keys(B)
      BY <3>1, Cut
    <3> QED BY <3>2, <3>3, <3>4
  <2> DEFINE last == Key(U[t])
  <2>5. last \in Keys(U)
    BY <2>3 DEF Keys
  <2> HIDE DEF B, P
  <2>6. ASSUME NEW p \in Due(msgs, a), Less(last, p) PROVE p \in Due(msgs, a + c)
    <3>1. p = <<p[1], p[2], p[3]>> /\ p[1] \in Nat /\ p[2] \in Nat
           /\ a <= p[1] /\ p[1] <= Len(msgs)
           /\ p[3] = Full(p[1]) /\ 1 <= p[2] /\ p[2] <= p[3]
      BY DueParts
    <3>2. U[t].n < p[1] \/ (U[t].n = p[1] /\ Full(p[1]) < p[2])
      <4>1. U[t].n < p[1] \/ (U[t].n = p[1] /\ U[t].k < p[2])
        BY <2>6, KeyParts DEF Less
      <4>2. U[t].n = p[1] => Full(U[t].n) = Full(p[1])
        OBVIOUS
      <4>3. U[t].k = Full(U[t].n)
        BY <2>3
      <4> HIDE DEF Full
      <4> QED BY <4>1, <4>2, <4>3
    <3>3. Full(p[1]) \in Nat
      BY SizeOfFrame
    <3>4. U[t].n < p[1]
      BY <3>1, <3>2, <3>3
    <3>5. a + c <= p[1]
      BY <1>1, <1>7, <2>3, <3>1, <3>4
    <3> QED BY <3>1, <3>5, DueHas
  <2>7. Keys(B) \cup L \subseteq Due(msgs, a + c)
    <3>1. ASSUME NEW p \in L PROVE p \in Due(msgs, a + c)
      <4>1. p \in Due(msgs, a) /\ Less(last, p)
        BY <2>5 DEF Left, Before
      <4> QED BY <2>6, <4>1
    <3>2. ASSUME NEW p \in Keys(B) PROVE p \in Due(msgs, a + c)
      <4>1. PICK i \in Carried(U) : i > t /\ p = Key(U[i])
        BY <2>4
      <4>2. t < i
        BY <1>1, <1>2, <4>1 DEF Carried
      <4>3. Less(Key(U[t]), Key(U[i]))
        BY <2>3, <4>2 DEF Left, Ordered
      <4>4. Less(last, p)
        BY <4>1, <4>3 DEF Less
      <4>5. p \in Due(msgs, a)
        BY <2>4 DEF Left
      <4> QED BY <2>6, <4>4, <4>5
    <3> QED BY <3>1, <3>2
  <2>8. ASSUME NEW p \in Due(msgs, a + c) PROVE p \in Keys(B) \cup L
    <3>1. p = <<p[1], p[2], p[3]>> /\ p[1] \in Nat /\ p[2] \in Nat
           /\ a + c <= p[1] /\ p[1] <= Len(msgs)
           /\ p[3] = Full(p[1]) /\ 1 <= p[2] /\ p[2] <= p[3]
      BY DueParts
    <3>2. a <= p[1]
      BY <1>1, <1>7, <3>1
    <3>3. p \in Due(msgs, a)
      BY <3>1, <3>2, DueHas
    <3>4. CASE p \in Keys(U)
      <4>1. PICK i \in Carried(U) : p = Key(U[i])
        BY <3>4 DEF Keys
      <4>2. i \in 1..Len(U) /\ U[i].n = p[1]
        BY <1>2, <4>1, KeyParts DEF Carried
      <4>3. i # t
        BY <1>1, <1>7, <2>3, <3>1, <4>2
      <4>4. ~(i < t)
        <5> SUFFICES ASSUME i < t PROVE FALSE
          OBVIOUS
        <5>1. U[i].n < U[t].n \/ (U[i].n = U[t].n /\ U[i].k < U[t].k)
          BY <2>3, <4>1, KeysInOrder DEF Left, Ordered
        <5> QED BY <1>1, <1>7, <2>3, <3>1, <4>2, <5>1
      <4>5. i > t
        BY <1>1, <4>2, <4>3, <4>4
      <4> QED BY <2>4, <4>1, <4>5
    <3> QED BY <3>3, <3>4 DEF Left
  <2>9. Before(Keys(B), L)
    BY <2>4 DEF Left, Before
  <2>10. a + Len(V) = a + c /\ a + c \in Nat /\ 1 <= a + c
    BY <1>1, <1>7, <1>10
  <2>11. Keys(B) \cup L = Due(msgs, a + c)
    BY <2>7, <2>8
  <2>12. Left(msgs, B, L, a + c)
    BY <1>1, <1>11, <2>4, <2>9, <2>10, <2>11 DEF Left
  <2> QED BY <1>12, <2>4, <2>10, <2>12 DEF V, B, P
<1> QED BY <1>13, <1>14

\* What a layer that was given a run does with it: it fails, or it delivers the next
\* messages and keeps the rest.
Forwards(msgs, f, L, a) ==
    /\ Delivers(msgs, f.messages, a)
    /\ ~f.failed => Left(msgs, f.rest, L, a + Len(f.messages))

\* Framer::feed() on what it has buffered: the frames that are all there are the next
\* messages, and the rest is kept.
LEMMA FramedForwards ==
    ASSUME NEW msgs, NEW U, NEW L, NEW a, Left(msgs, U, L, a), NEW awaiting
    PROVE  Forwards(msgs, Framed(U, awaiting), L, a)
<1> DEFINE heads == {i \in DOMAIN U : IsHead(U[i])}
           plain == IF heads = {} THEN Len(U) ELSE Min(heads) - 1
           lasts == {i \in 1..plain : IsLast(U[i])}
           ends == StopAfterAck(lasts, U, awaiting)
           taken == Max(ends \cup {0})
           rest == SubSeq(U, taken + 1, Len(U))
           cut == Picked(U, {i \in 1..taken : IsLast(U[i])})
<1>1. U \in Seq(Unit) /\ Len(U) \in Nat
  BY DEF Left, Ordered
<1>2. DOMAIN U = 1..Len(U)
  BY <1>1
<1>3. Framed(U, awaiting) \in {Desync, Framing(cut, rest, FALSE), Framing(cut, rest, TRUE)}
  <2> HIDE DEF rest, cut
  <2> QED BY DEF Framed, rest, cut
<1>4. plain \in 0..Len(U) /\ \A i \in 1..plain : i \in 1..Len(U) /\ ~IsHead(U[i])
  <2>1. CASE heads = {}
    BY <1>1, <1>2, <2>1
  <2>2. CASE heads # {}
    <3>1. heads \in SUBSET (1..Len(U)) /\ heads \in SUBSET Int
      BY <1>1, <1>2
    <3>2. IsFiniteSet(1..Len(U))
      BY <1>1, FS_Interval
    <3>3. IsFiniteSet(heads)
      BY <3>1, <3>2, FS_Subset
    <3>4. Min(heads) \in heads /\ \A e \in heads : Min(heads) <= e
      BY <2>2, <3>1, <3>3, FirstPlace
    <3> DEFINE m == Min(heads)
    <3> HIDE DEF m
    <3>5. m \in 1..Len(U) /\ \A e \in heads : m <= e
      BY <3>1, <3>4 DEF m
    <3>6. plain = m - 1
      BY <2>2 DEF m
    <3>7. ASSUME NEW i \in 1..m - 1 PROVE i \in 1..Len(U) /\ ~IsHead(U[i])
      <4>1. i \in 1..Len(U) /\ i < m
        BY <1>1, <3>5
      <4> QED BY <1>2, <3>5, <4>1
    <3>8. m - 1 \in 0..Len(U)
      BY <1>1, <3>5
    <3> QED BY <3>6, <3>7, <3>8
  <2> QED BY <2>1, <2>2
<1> HIDE DEF plain
<1>5. ends \subseteq lasts
  BY DEF StopAfterAck
<1>6. taken \in ends \cup {0}
  <2>1. lasts \cup {0} \in SUBSET (0..Len(U))
    BY <1>1, <1>4
  <2>2. ends \cup {0} \in SUBSET (0..Len(U))
    BY <1>5, <2>1
  <2>3. IsFiniteSet(0..Len(U))
    BY <1>1, FS_Interval
  <2>4. IsFiniteSet(ends \cup {0})
    BY <2>2, <2>3, FS_Subset
  <2>5. ends \cup {0} \in SUBSET Int
    BY <1>1, <2>2
  <2>6. ends \cup {0} # {}
    OBVIOUS
  <2> HIDE DEF ends
  <2> QED BY <2>4, <2>5, <2>6, LastPlace
<1> HIDE DEF taken
<1>7. taken # 0 => taken \in 1..plain /\ IsLast(U[taken])
  <2> HIDE DEF ends
  <2> QED BY <1>5, <1>6
<1>8. taken \in 0..Len(U) /\ \A i \in 1..taken : ~IsHead(U[i])
  <2>1. CASE taken = 0
    BY <1>1, <2>1
  <2>2. CASE taken # 0
    BY <1>1, <1>4, <1>7, <2>2
  <2> QED BY <2>1, <2>2
<1>9. taken # 0 => IsLast(U[taken])
  BY <1>7
<1>10. cut = Picked(U, Ends(U, taken))
  BY DEF Ends
<1>11. Delivers(msgs, cut, a) /\ Left(msgs, rest, L, a + Len(cut))
  BY <1>8, <1>9, <1>10, MessagesCut
<1> HIDE DEF cut, rest
<1>12. /\ Forwards(msgs, Framing(cut, rest, FALSE), L, a)
       /\ Forwards(msgs, Framing(cut, rest, TRUE), L, a)
  BY <1>11 DEF Forwards, Framing
<1>13. Forwards(msgs, Desync, L, a)
  <2>1. a + 0 <= Len(msgs) + 1
    BY DEF Left
  <2> QED BY <2>1 DEF Forwards, Desync, Delivers
<1> QED BY <1>3, <1>12, <1>13

\* A run behind which the units of L come.
Behind(U, L) == Ordered(U) /\ Before(Keys(U), L)

\* What is left may be two runs, one behind the other.
LEMMA LeftJoined ==
    ASSUME NEW msgs, NEW A, NEW B, NEW L, NEW a, Left(msgs, A, Keys(B) \cup L, a), Behind(B, L)
    PROVE  Left(msgs, A \o B, L, a)
<1>1. Ordered(A) /\ Ordered(B) /\ Before(Keys(A), Keys(B)) /\ Before(Keys(A), L)
      /\ Before(Keys(B), L)
  BY DEF Left, Behind, Before
<1>2. Ordered(A \o B) /\ Keys(A \o B) = Keys(A) \cup Keys(B)
  BY <1>1, Joined
<1>3. Before(Keys(A \o B), L)
  BY <1>1, <1>2 DEF Before
<1>4. Keys(A \o B) \cup L = Due(msgs, a)
  BY <1>2 DEF Left
<1> QED BY <1>2, <1>3, <1>4 DEF Left

\* So may what comes before something else.
LEMMA BehindJoined ==
    ASSUME NEW A, NEW B, NEW L, Behind(A, Keys(B) \cup L), Behind(B, L)
    PROVE  Behind(A \o B, L) /\ Keys(A \o B) = Keys(A) \cup Keys(B)
<1>1. Ordered(A) /\ Ordered(B) /\ Before(Keys(A), Keys(B)) /\ Before(Keys(A), L)
      /\ Before(Keys(B), L)
  BY DEF Behind, Before
<1>2. Ordered(A \o B) /\ Keys(A \o B) = Keys(A) \cup Keys(B)
  BY <1>1, Joined
<1> QED BY <1>1, <1>2 DEF Behind, Before

\* Framer::feed() with the bytes it is given.
LEMMA FeedForwards ==
    ASSUME NEW msgs, NEW A, NEW B, NEW L, NEW a,
           Left(msgs, A, Keys(B) \cup L, a), Behind(B, L), NEW awaiting
    PROVE  Forwards(msgs, feed(A, B, awaiting), L, a)
<1>1. Left(msgs, A \o B, L, a)
  BY LeftJoined
<1>2. Forwards(msgs, Framed(A \o B, awaiting), L, a)
  BY <1>1, FramedForwards
<1>3. Forwards(msgs, Desync, L, a)
  <2>1. a + 0 <= Len(msgs) + 1
    BY DEF Left
  <2> QED BY <2>1 DEF Forwards, Desync, Delivers
<1> QED BY <1>2, <1>3 DEF feed

\* The layers hold what is left of the messages from place a on, but for L.
Holds(msgs, l, L, a) ==
    /\ DOMAIN l = {"buffer", "segments", "awaiting", "compressed", "failed"}
    /\ ~l.compressed => l.segments = <<>>
    /\ ~l.failed => Left(msgs, l.buffer, Keys(l.segments) \cup L, a) /\ Behind(l.segments, L)

\* Bytes given to the layers: they deliver the next messages and hold what is left.
Passes(msgs, result, L, a) ==
    Delivers(msgs, result.messages, a) /\ Holds(msgs, result.layers, L, a + Len(result.messages))

\* Session::ingest() before and after compression begins: with the segment decoder between,
\* or without.
LEMMA FedPasses ==
    ASSUME NEW msgs, NEW l, NEW bytes, NEW L,
           NEW a, ~l.failed, Holds(msgs, l, Keys(bytes) \cup L, a),
           Behind(bytes, L)
    PROVE  Passes(msgs, Fed(l, bytes), L, a)
<1>0. DOMAIN l = {"buffer", "segments", "awaiting", "compressed", "failed"}
  BY DEF Holds
<1>1. CASE ~l.compressed
  <2> DEFINE f == feed(l.buffer, bytes, FALSE)
             after == [l EXCEPT !.buffer = f.rest, !.failed = f.failed]
  <2>1. Fed(l, bytes) = [messages |-> f.messages, layers |-> after]
    BY <1>1 DEF Fed
  <2>2. l.segments = <<>> /\ Keys(l.segments) = {}
    BY <1>1, EmptyCarries DEF Holds
  <2>3. Left(msgs, l.buffer, Keys(bytes) \cup L, a)
    BY <2>2 DEF Holds
  <2>4. Forwards(msgs, f, L, a)
    BY <2>3, FeedForwards
  <2> HIDE DEF f
  <2>5. DOMAIN after = {"buffer", "segments", "awaiting", "compressed", "failed"}
        /\ after.buffer = f.rest /\ after.failed = f.failed /\ after.segments = <<>>
    BY <1>0, <2>2
  <2> HIDE DEF after
  <2>6. Behind(<<>>, L)
    BY EmptyCarries DEF Behind, Before
  <2>7. Keys(after.segments) \cup L = L
    BY <2>5, EmptyCarries
  <2>8. Holds(msgs, after, L, a + Len(f.messages))
    BY <2>4, <2>5, <2>6, <2>7 DEF Holds, Forwards
  <2> QED BY <2>1, <2>4, <2>8 DEF Passes, Forwards
<1>2. CASE ~~l.compressed
  <2> DEFINE B == l.segments \o bytes
             d == decode(B)
             f == feed_decoded(l.buffer, d.units)
             after == [l EXCEPT !.segments = d.rest, !.buffer = f.rest,
                                !.failed = d.failed \/ f.failed]
  <2>1. Fed(l, bytes) = [messages |-> f.messages, layers |-> after]
    BY <1>2 DEF Fed
  <2>2. Left(msgs, l.buffer, Keys(l.segments) \cup (Keys(bytes) \cup L), a)
        /\ Behind(l.segments, Keys(bytes) \cup L)
    BY DEF Holds
  <2>3. Behind(B, L) /\ Keys(B) = Keys(l.segments) \cup Keys(bytes)
    BY <2>2, BehindJoined
  <2> HIDE DEF B
  <2>4. /\ Ordered(d.units) /\ Ordered(d.rest)
        /\ Before(Keys(d.units), Keys(d.rest))
        /\ Keys(d.units) \cup Keys(d.rest) = Keys(B)
    BY <2>3, DecodeKeeps DEF Behind
  <2> HIDE DEF d
  <2>5. Behind(d.rest, L) /\ Behind(d.units, Keys(d.rest) \cup L)
    BY <2>3, <2>4 DEF Behind, Before
  <2>6. Keys(l.segments) \cup (Keys(bytes) \cup L) = Keys(d.units) \cup (Keys(d.rest) \cup L)
    BY <2>3, <2>4
  <2>7. Left(msgs, l.buffer, Keys(d.units) \cup (Keys(d.rest) \cup L), a)
    BY <2>2, <2>6
  <2>8. Left(msgs, l.buffer \o d.units, Keys(d.rest) \cup L, a)
    BY <2>5, <2>7, LeftJoined
  <2>9. Forwards(msgs, f, Keys(d.rest) \cup L, a)
    BY <2>8, FramedForwards DEF feed_decoded
  <2> HIDE DEF f
  <2>10. DOMAIN after = {"buffer", "segments", "awaiting", "compressed", "failed"}
    BY <1>0
  <2>11. after.buffer = f.rest /\ after.segments = d.rest /\ after.compressed = l.compressed
    BY <1>0
  <2>12. ~after.failed => ~f.failed
    BY <1>0
  <2> HIDE DEF after
  <2>13. Holds(msgs, after, L, a + Len(f.messages))
    BY <1>2, <2>5, <2>9, <2>10, <2>11, <2>12 DEF Holds, Forwards
  <2> QED BY <2>1, <2>9, <2>13 DEF Passes, Forwards
<1> QED BY <1>1, <1>2

\* What is delivered next follows what was delivered.
LEMMA DeliversMore ==
    ASSUME NEW msgs, NEW m, NEW n, NEW a \in Nat, NEW b, b = a + Len(m),
           Delivers(msgs, m, a), Delivers(msgs, n, b)
    PROVE  Delivers(msgs, m \o n, a) /\ a + Len(m \o n) = b + Len(n)
<1>1. m \in Seq(Unit) /\ n \in Seq(Unit) /\ Len(m) \in Nat /\ Len(n) \in Nat
  BY DEF Delivers
<1>2. m \o n \in Seq(Unit) /\ Len(m \o n) = Len(m) + Len(n)
  BY <1>1
<1>3. a + Len(m \o n) = a + Len(m) + Len(n)
  BY <1>1, <1>2
<1>4. ASSUME NEW j \in 1..Len(m \o n) PROVE (m \o n)[j].n = a + j - 1
  <2>1. CASE j <= Len(m)
    <3>1. j \in 1..Len(m) /\ (m \o n)[j] = m[j]
      BY <1>1, <1>2, <2>1
    <3> QED BY <3>1 DEF Delivers
  <2>2. CASE j > Len(m)
    <3>1. j - Len(m) \in 1..Len(n) /\ (m \o n)[j] = n[j - Len(m)]
      BY <1>1, <1>2, <2>2
    <3>2. n[j - Len(m)].n = a + Len(m) + (j - Len(m)) - 1
      BY <3>1 DEF Delivers
    <3>3. a + Len(m) + (j - Len(m)) - 1 = a + j - 1
      BY <1>1, <1>2
    <3> QED BY <3>1, <3>2, <3>3
  <2> QED BY <1>1, <1>2, <2>1, <2>2
<1> QED BY <1>2, <1>3, <1>4 DEF Delivers

\* The handler of the capability answer: what came behind it in the same read goes through
\* the layers as they are from then on.
LEMMA ReroutedPasses ==
    ASSUME NEW msgs, NEW l, NEW messages, NEW pending, NEW compressed, NEW L, NEW a,
           a \in Nat, ~l.failed, l.segments = <<>>,
           DOMAIN l = {"buffer", "segments", "awaiting", "compressed", "failed"},
           Delivers(msgs, messages, a), Left(msgs, pending, L, a + Len(messages))
    PROVE  Passes(msgs, Rerouted(l, messages, pending, compressed), L, a)
<1> DEFINE k == [l EXCEPT !.buffer = <<>>, !.awaiting = FALSE, !.compressed = compressed]
           after == Fed(k, pending)
           b == a + Len(messages)
<1>1. DOMAIN k = {"buffer", "segments", "awaiting", "compressed", "failed"}
      /\ k.buffer = <<>> /\ k.segments = <<>> /\ ~k.failed
  OBVIOUS
<1>2. Rerouted(l, messages, pending, compressed) = [after EXCEPT !.messages = messages \o @]
  BY DEF Rerouted
<1> HIDE DEF k
<1>3. Behind(pending, L)
  BY DEF Left, Behind
<1>4. Left(msgs, <<>>, Keys(pending) \cup L, b)
  BY EmptyCarries DEF Left, Before
<1>5. Holds(msgs, k, Keys(pending) \cup L, b)
  <2>1. Behind(<<>>, Keys(pending) \cup L)
    BY EmptyCarries DEF Behind, Before
  <2>2. Keys(<<>>) \cup (Keys(pending) \cup L) = Keys(pending) \cup L
    BY EmptyCarries
  <2> QED BY <1>1, <1>4, <2>1, <2>2 DEF Holds
<1> HIDE DEF b
<1>6. Passes(msgs, after, L, b)
  BY <1>1, <1>3, <1>5, FedPasses
<1>7. DOMAIN after = {"messages", "layers"}
  BY DEF Fed
<1> HIDE DEF after
<1> DEFINE r == [after EXCEPT !.messages = messages \o @]
<1>8. r.messages = messages \o after.messages /\ r.layers = after.layers
  BY <1>7
<1> HIDE DEF r
<1>9. Delivers(msgs, messages \o after.messages, a)
      /\ a + Len(messages \o after.messages) = b + Len(after.messages)
  <2>1. Delivers(msgs, after.messages, b)
    BY <1>6 DEF Passes
  <2>2. b = a + Len(messages)
    BY DEF b
  <2> DEFINE n == after.messages
  <2>3. Delivers(msgs, n, b) /\ Delivers(msgs, messages, a) /\ a \in Nat
    BY <2>1
  <2> HIDE DEF n
  <2>4. Delivers(msgs, messages \o n, a) /\ a + Len(messages \o n) = b + Len(n)
    BY <2>2, <2>3, DeliversMore
  <2> QED BY <2>4 DEF n
<1>10. Holds(msgs, r.layers, L, a + Len(r.messages))
  BY <1>6, <1>8, <1>9 DEF Passes
<1>11. Passes(msgs, r, L, a)
  BY <1>8, <1>9, <1>10 DEF Passes
<1> QED BY <1>2, <1>11 DEF r

\* Whatever arrives, and however the layers are set up.
LEMMA IngestPasses ==
    ASSUME NEW msgs, NEW l, NEW bytes, NEW L, NEW a, a \in Nat, ~l.failed,
           Holds(msgs, l, Keys(bytes) \cup L, a), Behind(bytes, L)
    PROVE  Passes(msgs, ingest(l, bytes), L, a)
<1>1. CASE l.compressed \/ ~l.awaiting
  <2>1. ingest(l, bytes) = Fed(l, bytes)
    BY <1>1 DEF ingest
  <2> QED BY <2>1, FedPasses
<1>2. CASE ~(l.compressed \/ ~l.awaiting)
  <2> DEFINE f == feed(l.buffer, bytes, TRUE)
             n == Len(f.messages)
             acked == n > 0 /\ f.messages[n].op = "hello_ack"
             zstd == sent[f.messages[n].n].about.capabilities.zstd
             lost == [messages |-> <<>>, layers |-> [l EXCEPT !.buffer = <<>>, !.failed = TRUE]]
             kept == [messages |-> f.messages, layers |-> [l EXCEPT !.buffer = f.rest]]
  <2>1. ingest(l, bytes) =
          IF f.failed THEN lost
          ELSE IF acked THEN Rerouted(l, f.messages, f.rest, zstd)
          ELSE IF f.start THEN Rerouted(l, f.messages, f.rest, TRUE)
          ELSE kept
    <3> HIDE DEF f
    <3> QED BY <1>2 DEF ingest, FollowEarlySwitch, f
  <2>2. DOMAIN l = {"buffer", "segments", "awaiting", "compressed", "failed"}
        /\ l.segments = <<>>
    BY <1>2 DEF Holds
  <2>3. Left(msgs, l.buffer, Keys(bytes) \cup L, a)
    <3>1. Keys(l.segments) \cup (Keys(bytes) \cup L) = Keys(bytes) \cup L
      BY <2>2, EmptyCarries
    <3> QED BY <3>1 DEF Holds
  <2>4. Forwards(msgs, f, L, a)
    BY <2>3, FeedForwards
  <2> HIDE DEF f, acked, zstd
  <2>5. CASE f.failed
    <3>1. Delivers(msgs, <<>>, a)
      <4>1. a + 0 <= Len(msgs) + 1
        BY <2>3 DEF Left
      <4> QED BY <4>1 DEF Delivers
    <3> DEFINE k == [l EXCEPT !.buffer = <<>>, !.failed = TRUE]
    <3>2. DOMAIN k = {"buffer", "segments", "awaiting", "compressed", "failed"}
          /\ k.segments = <<>> /\ k.failed
      BY <2>2
    <3>3. lost.messages = <<>> /\ lost.layers = k
      OBVIOUS
    <3> HIDE DEF k, lost
    <3>4. Passes(msgs, lost, L, a)
      BY <3>1, <3>2, <3>3 DEF Passes, Holds
    <3> QED BY <2>1, <2>5, <3>4
  <2>6. CASE ~f.failed
    <3>1. Delivers(msgs, f.messages, a) /\ Left(msgs, f.rest, L, a + Len(f.messages))
      BY <2>4, <2>6 DEF Forwards
    <3>2. \A c : Passes(msgs, Rerouted(l, f.messages, f.rest, c), L, a)
      BY <2>2, <3>1, ReroutedPasses
    <3> DEFINE k == [l EXCEPT !.buffer = f.rest]
    <3>3. DOMAIN k = {"buffer", "segments", "awaiting", "compressed", "failed"}
          /\ k.segments = <<>> /\ k.buffer = f.rest
      BY <2>2
    <3>4. kept.messages = f.messages /\ kept.layers = k
      OBVIOUS
    <3> HIDE DEF k, kept
    <3>5. Behind(<<>>, L) /\ Keys(<<>>) \cup L = L
      BY EmptyCarries DEF Behind, Before
    <3>6. Holds(msgs, k, L, a + Len(f.messages))
      BY <3>1, <3>3, <3>5 DEF Holds
    <3>7. Passes(msgs, kept, L, a)
      BY <3>1, <3>4, <3>6 DEF Passes
    <3> QED BY <2>1, <2>6, <3>2, <3>7
  <2> QED BY <2>5, <2>6
<1> QED BY <1>1, <1>2

\* A segment carries what it was cut from.
LEMMA SegmentCarries ==
    ASSUME NEW U, Ordered(U), NEW heads \in Nat, NEW opens
    PROVE  Ordered(Segment(U, heads, opens)) /\ Keys(Segment(U, heads, opens)) = Keys(U)
<1> DEFINE H == [k \in 1..heads |-> [op |-> IF opens THEN "opening" ELSE "segment", n |-> 0,
                                    k |-> k, of |-> heads, ends |-> FALSE]]
           V == [k \in DOMAIN U |-> [U[k] EXCEPT !.ends = (k = Len(U))]]
<1>0. U \in Seq(Unit) /\ Len(U) \in Nat
  BY DEF Ordered
<1>1. DOMAIN U = 1..Len(U)
  BY <1>0
<1>2. Segment(U, heads, opens) = H \o V
  BY DEF Segment
<1>3. H \in Seq(Unit) /\ \A k \in DOMAIN H : IsHead(H[k])
  <2>1. \A k \in 1..heads : H[k] \in Unit /\ IsHead(H[k])
    BY DEF Unit, IsHead, Heads
  <2>2. H \in [1..heads -> Unit]
    BY <2>1
  <2>3. DOMAIN H = 1..heads
    OBVIOUS
  <2> HIDE DEF H
  <2> QED BY <2>1, <2>2, <2>3
<1> HIDE DEF H
<1>4. Carried(H) = {}
  BY <1>3 DEF Carried
<1>5. Ordered(H) /\ Keys(H) = {}
  BY <1>3, <1>4 DEF Ordered, Keys
<1>6. \A k \in 1..Len(U) : /\ V[k] \in Unit /\ V[k].op = U[k].op /\ V[k].n = U[k].n
                           /\ V[k].k = U[k].k /\ V[k].of = U[k].of
  <2> SUFFICES ASSUME NEW k \in 1..Len(U)
               PROVE  /\ V[k] \in Unit /\ V[k].op = U[k].op /\ V[k].n = U[k].n
                      /\ V[k].k = U[k].k /\ V[k].of = U[k].of
    OBVIOUS
  <2> DEFINE last == (k = Len(U))
             v == [U[k] EXCEPT !.ends = last]
  <2>1. V[k] = v
    BY <1>1
  <2>2. U[k] \in Unit /\ last \in BOOLEAN
    BY <1>0
  <2> HIDE DEF V, last
  <2>3. v \in Unit /\ v.op = U[k].op /\ v.n = U[k].n /\ v.k = U[k].k /\ v.of = U[k].of
    BY <2>2 DEF Unit
  <2> QED BY <2>1, <2>3
<1>7. V \in Seq(Unit) /\ DOMAIN V = 1..Len(U)
  <2>1. DOMAIN V = 1..Len(U)
    BY <1>1
  <2>2. V \in [1..Len(U) -> Unit]
    BY <1>1, <1>6
  <2> HIDE DEF V
  <2> QED BY <1>0, <2>1, <2>2
<1> HIDE DEF V
<1>8. Carried(V) = Carried(U) /\ Carried(U) \subseteq 1..Len(U)
  BY <1>1, <1>6, <1>7 DEF Carried, IsHead
<1>9. \A k \in Carried(U) : Key(V[k]) = Key(U[k])
  BY <1>6, <1>8 DEF Key
<1>10. Ordered(V) /\ Keys(V) = Keys(U)
  BY <1>7, <1>8, <1>9 DEF Ordered, Keys
<1>11. Before(Keys(H), Keys(V))
  BY <1>5 DEF Before
<1>12. Ordered(H \o V) /\ Keys(H \o V) = Keys(H) \cup Keys(V)
  BY <1>5, <1>10, <1>11, Joined
<1> QED BY <1>2, <1>5, <1>10, <1>12

\* A frame is what a message adds to what is due.
LEMMA FrameCarries ==
    ASSUME NEW msgs, NEW S, msgs \in Seq(S), NEW m, m.op \in Ops
    PROVE  LET n == Len(Append(msgs, m))
               F == Frame(m.op, n)
           IN  /\ n = Len(msgs) + 1 /\ n \in Nat /\ Len(msgs) \in Nat
               /\ Ordered(F) /\ \A p \in Keys(F) : p[1] = n
               /\ \A a \in Nat :
                    1 <= a /\ a <= n => Due(Append(msgs, m), a) = Due(msgs, a) \cup Keys(F)
<1> DEFINE n == Len(Append(msgs, m))
           size == FrameSize(m.op)
           F == Frame(m.op, n)
           more == Append(msgs, m)
<1>1. n = Len(msgs) + 1 /\ n \in Nat /\ Len(msgs) \in Nat /\ Len(more) = n
  OBVIOUS
<1>2. more[n] = m /\ \A i \in 1..Len(msgs) : more[i] = msgs[i]
  OBVIOUS
<1> HIDE DEF n, more
<1>3. size \in Nat /\ 1 <= size
  BY SizeOfFrame
<1>4. F = [k \in 1..size |-> [op |-> m.op, n |-> n, k |-> k, of |-> size, ends |-> FALSE]]
  BY DEF Frame
<1> HIDE DEF F, size
<1>5. DOMAIN F = 1..size /\ \A k \in 1..size :
        F[k] \in Unit /\ ~IsHead(F[k]) /\ Key(F[k]) = <<n, k, size>>
  BY <1>1, <1>3, <1>4 DEF Unit, IsHead, Heads, Ops, Key
<1>6. F \in Seq(Unit)
  <2>1. F \in [1..size -> Unit]
    BY <1>4, <1>5
  <2> QED BY <1>3, <2>1
<1>7. Carried(F) = 1..size
  BY <1>5 DEF Carried
<1>8. Keys(F) = {<<n, k, size>> : k \in 1..size}
  BY <1>5, <1>7 DEF Keys
<1>9. Ordered(F)
  <2>1. \A i, j \in 1..size : i < j => Less(<<n, i, size>>, <<n, j, size>>)
    BY DEF Less
  <2> QED BY <1>5, <1>6, <1>7, <2>1 DEF Ordered
<1>10. \A p \in Keys(F) : p[1] = n
  BY <1>8
<1>11. ASSUME NEW a \in Nat, 1 <= a, a <= n PROVE Due(more, a) = Due(msgs, a) \cup Keys(F)
  <2>1. ASSUME NEW p \in Due(more, a) PROVE p \in Due(msgs, a) \cup Keys(F)
    <3>1. p = <<p[1], p[2], p[3]>> /\ p[1] \in Nat /\ p[2] \in Nat
           /\ a <= p[1] /\ p[1] <= n
           /\ p[3] = FrameSize(more[p[1]].op) /\ 1 <= p[2] /\ p[2] <= p[3]
      BY <1>1, DueParts
    <3>2. CASE p[1] = n
      <4>1. p[3] = size
        BY <1>2, <3>1, <3>2 DEF size
      <4>2. p[2] \in 1..size
        BY <1>3, <3>1, <4>1
      <4> QED BY <1>8, <3>1, <3>2, <4>1, <4>2
    <3>3. CASE p[1] # n
      <4>1. p[1] <= Len(msgs) /\ p[1] \in 1..Len(msgs)
        BY <1>1, <1>11, <3>1, <3>3
      <4>2. more[p[1]] = msgs[p[1]]
        BY <1>2, <4>1
      <4> DEFINE x == p[1]
                 y == p[2]
      <4>3. p = <<x, y, FrameSize(msgs[x].op)>> /\ x \in Nat /\ y \in Nat /\ a <= x
            /\ x <= Len(msgs) /\ 1 <= y /\ y <= FrameSize(msgs[x].op)
        BY <3>1, <4>1, <4>2
      <4> HIDE DEF x, y
      <4> QED BY <4>3, DueHas
    <3> QED BY <3>2, <3>3
  <2>2. ASSUME NEW p \in Due(msgs, a) PROVE p \in Due(more, a)
    <3> DEFINE x == p[1]
               y == p[2]
    <3>1. p = <<x, y, FrameSize(msgs[x].op)>> /\ x \in Nat /\ y \in Nat /\ a <= x
          /\ x <= Len(msgs) /\ 1 <= y /\ y <= FrameSize(msgs[x].op)
      BY DueParts
    <3> HIDE DEF x, y
    <3>2. x \in 1..Len(msgs) /\ x <= Len(more)
      BY <1>1, <1>11, <3>1
    <3>3. more[x] = msgs[x]
      BY <1>2, <3>2
    <3> QED BY <3>1, <3>2, <3>3, DueHas
  <2>3. ASSUME NEW k \in 1..size PROVE <<n, k, size>> \in Due(more, a)
    <3>1. k \in Nat /\ 1 <= k /\ k <= size /\ n <= Len(more)
      BY <1>1, <1>3
    <3>2. size = FrameSize(more[n].op)
      BY <1>2 DEF size
    <3> QED BY <1>1, <1>11, <3>1, <3>2, DueHas
  <2> QED BY <1>8, <2>1, <2>2, <2>3
<1> QED BY <1>1, <1>9, <1>10, <1>11 DEF n, F, more

----------------------------------------------------------------------------
(* The stream.                                                                     *)

\* The messages handled: 1, 2, 3, ...
Counting(n) == [k \in 1..n |-> k]

\* What is on its way, in the layers, on the wire or in the encoder, is what was not
\* handled yet.
NothingLost ==
    up /\ ~layers.failed =>
      /\ Holds(sent, layers, Keys(wire) \cup Keys(server.queue), Len(handled) + 1)
      /\ Behind(wire, Keys(server.queue)) /\ Behind(server.queue, {})

\* The invariant: the messages handled are the first that were sent, in their order; what
\* the encoder holds is there only while it cuts segments; and nothing is lost between.
StreamInv ==
    /\ \E S : sent \in Seq(S)
    /\ Len(handled) \in Nat /\ Len(handled) <= Len(sent) /\ handled = Counting(Len(handled))
    /\ {"queue", "segmenting", "acked", "opened", "closing"} \subseteq DOMAIN server
    /\ ~server.segmenting => server.queue = <<>>
    /\ NothingLost

\* The messages handled are behind those sent (MessageChannel).
LEMMA Counted ==
    ASSUME NEW n \in Nat
    PROVE  Counting(n) \in Seq(Nat) /\ Len(Counting(n)) = n
           /\ \A m \in 0..n : C!IsBehind(Counting(m), Counting(n))
<1>1. \A m \in Nat : /\ Counting(m) \in Seq(Nat) /\ Len(Counting(m)) = m
                     /\ \A k \in 1..m : Counting(m)[k] = k
  BY DEF Counting
<1>2. ASSUME NEW m \in 0..n PROVE C!IsBehind(Counting(m), Counting(n))
  <2> DEFINE A == Counting(m)
             B == Counting(n)
  <2>0. m \in Nat /\ m <= n
    OBVIOUS
  <2>1. A \in Seq(Nat) /\ Len(A) = m /\ B \in Seq(Nat) /\ Len(B) = n
        /\ (\A k \in 1..m : A[k] = k) /\ \A k \in 1..n : B[k] = k
    BY <1>1, <2>0
  <2> HIDE DEF A, B
  <2>2. A = SubSeq(B, 1, m)
    <3>1. SubSeq(B, 1, m) \in Seq(Nat) /\ Len(SubSeq(B, 1, m)) = m
      BY <2>0, <2>1
    <3>2. \A k \in 1..m : SubSeq(B, 1, m)[k] = B[k]
      BY <2>0, <2>1
    <3>3. \A k \in 1..m : k \in 1..n
      BY <2>0
    <3> QED BY <2>1, <3>1, <3>2, <3>3
  <2> QED BY <2>0, <2>1, <2>2 DEF C!IsBehind, A, B
<1> QED BY <1>1, <1>2

\* Units of what was sent before come before those of a message sent now.
LEMMA NewestLast ==
    ASSUME NEW msgs, NEW S, msgs \in Seq(S), NEW m, m.op \in Ops, NEW a,
           NEW K, K \subseteq Due(msgs, a)
    PROVE  Before(K, Keys(Frame(m.op, Len(Append(msgs, m)))))
<1> DEFINE n == Len(Append(msgs, m))
           F == Frame(m.op, n)
<1>1. n = Len(msgs) + 1 /\ Len(msgs) \in Nat /\ \A p \in Keys(F) : p[1] = n
  BY FrameCarries
<1>2. \A p \in K : p[1] \in Nat /\ p[1] <= Len(msgs)
  BY DueParts
<1> HIDE DEF n, F
<1>3. \A p \in K, q \in Keys(F) : p[1] < q[1]
  BY <1>1, <1>2
<1> QED BY <1>3 DEF Before, Less, n, F

\* A message that is sent is due, and the layers still hold their part.
LEMMA HoldsMore ==
    ASSUME NEW msgs, NEW S, msgs \in Seq(S), NEW m, m.op \in Ops, NEW l, NEW L, NEW a,
           ~l.failed, Holds(msgs, l, L, a)
    PROVE  Holds(Append(msgs, m), l, L \cup Keys(Frame(m.op, Len(Append(msgs, m)))), a)
<1> DEFINE more == Append(msgs, m)
           n == Len(more)
           F == Frame(m.op, n)
<1>1. n = Len(msgs) + 1 /\ n \in Nat /\ Len(msgs) \in Nat
      /\ \A b \in Nat : 1 <= b /\ b <= n => Due(more, b) = Due(msgs, b) \cup Keys(F)
  BY FrameCarries
<1>2. Left(msgs, l.buffer, Keys(l.segments) \cup L, a) /\ Behind(l.segments, L)
  BY DEF Holds
<1>3. a \in Nat /\ 1 <= a /\ a <= n
  BY <1>1, <1>2 DEF Left
<1>4. Due(more, a) = Due(msgs, a) \cup Keys(F)
  BY <1>1, <1>3
<1>5. Keys(l.buffer) \cup (Keys(l.segments) \cup L) = Due(msgs, a)
  BY <1>2 DEF Left
<1>6. Before(Keys(l.buffer), Keys(F)) /\ Before(Keys(l.segments), Keys(F))
  BY <1>5, NewestLast
<1> HIDE DEF more, n, F
<1>7. Behind(l.segments, L \cup Keys(F))
  BY <1>2, <1>6 DEF Behind, Before
<1>8. Left(more, l.buffer, Keys(l.segments) \cup (L \cup Keys(F)), a)
  <2>1. Len(more) \in Nat /\ a \in Nat /\ 1 <= a /\ a <= Len(more) + 1
    BY <1>1, <1>3 DEF n
  <2>2. Before(Keys(l.buffer), Keys(l.segments) \cup (L \cup Keys(F)))
    BY <1>2, <1>6 DEF Left, Before
  <2>3. Keys(l.buffer) \cup (Keys(l.segments) \cup (L \cup Keys(F))) = Due(more, a)
    BY <1>4, <1>5
  <2> QED BY <1>2, <2>1, <2>2, <2>3 DEF Left
<1> QED BY <1>7, <1>8 DEF Holds, more, n, F

\* A message is sent: its frame goes onto the wire behind what is there, or behind what
\* the encoder has.
LEMMA SendKeeps ==
    ASSUME StreamInv, up, up' = up, layers' = layers, handled' = handled,
           NEW m, m.op \in Ops, sent' = Append(sent, m),
           DOMAIN server' = DOMAIN server,
           ~server'.segmenting => server'.queue = <<>>,
           \/ /\ wire' = wire \o Frame(m.op, Len(sent'))
              /\ server.queue = <<>> /\ server'.queue = <<>>
           \/ /\ wire' = wire
              /\ server'.queue = server.queue \o Frame(m.op, Len(sent'))
    PROVE  StreamInv' /\ C!Send
<1>1. PICK S : sent \in Seq(S)
  BY DEF StreamInv
<1> DEFINE more == Append(sent, m)
           F == Frame(m.op, Len(more))
           a == Len(handled) + 1
<1>2. Len(sent) \in Nat /\ Len(more) = Len(sent) + 1 /\ more \in Seq(S \cup {m})
      /\ DOMAIN sent = 1..Len(sent)
  BY <1>1
<1>3. DOMAIN more = 1..Len(more)
  BY <1>2
<1>4. Ordered(F)
  BY <1>1, FrameCarries
<1>5. Len(handled) \in Nat /\ Len(handled) <= Len(sent) /\ handled = Counting(Len(handled))
  BY DEF StreamInv
<1> HIDE DEF more
<1>6. ASSUME ~layers.failed
      PROVE  /\ Holds(more, layers, Keys(wire') \cup Keys(server'.queue), a)
             /\ Behind(wire', Keys(server'.queue)) /\ Behind(server'.queue, {})
  <2>1. /\ Holds(sent, layers, Keys(wire) \cup Keys(server.queue), a)
        /\ Behind(wire, Keys(server.queue)) /\ Behind(server.queue, {})
    BY <1>6 DEF StreamInv, NothingLost
  <2>2. Holds(more, layers, (Keys(wire) \cup Keys(server.queue)) \cup Keys(F), a)
    BY <1>1, <1>6, <2>1, HoldsMore DEF more
  <2>3. Keys(wire) \subseteq Due(sent, a) /\ Keys(server.queue) \subseteq Due(sent, a)
    BY <1>6, <2>1 DEF Holds, Left
  <2>4. Before(Keys(wire), Keys(F)) /\ Before(Keys(server.queue), Keys(F))
    BY <1>1, <2>3, NewestLast DEF more
  <2>5. Behind(F, {})
    BY <1>4 DEF Behind, Before
  <2> HIDE DEF F
  <2>6. CASE wire' = wire \o F /\ server.queue = <<>> /\ server'.queue = <<>>
    <3>1. Behind(wire, Keys(F) \cup {})
      BY <2>1, <2>4 DEF Behind
    <3>2. Behind(wire \o F, {}) /\ Keys(wire \o F) = Keys(wire) \cup Keys(F)
      BY <2>5, <3>1, BehindJoined
    <3>3. Keys(server.queue) = {} /\ Keys(server'.queue) = {} /\ Behind(<<>>, {})
      BY <2>6, EmptyCarries DEF Behind, Before
    <3>4. Keys(wire') \cup Keys(server'.queue) = (Keys(wire) \cup Keys(server.queue)) \cup Keys(F)
      BY <2>6, <3>2, <3>3
    <3> QED BY <2>2, <2>6, <3>2, <3>3, <3>4
  <2>7. CASE wire' = wire /\ server'.queue = server.queue \o F
    <3>1. Behind(server.queue, Keys(F) \cup {})
      BY <2>1, <2>4 DEF Behind
    <3>2. Behind(server.queue \o F, {})
          /\ Keys(server.queue \o F) = Keys(server.queue) \cup Keys(F)
      BY <2>5, <3>1, BehindJoined
    <3>3. Keys(wire') \cup Keys(server'.queue) = (Keys(wire) \cup Keys(server.queue)) \cup Keys(F)
      BY <2>7, <3>2
    <3>4. Behind(wire, Keys(server.queue) \cup Keys(F))
      BY <2>1, <2>4 DEF Behind, Before
    <3> QED BY <2>2, <2>7, <3>2, <3>3, <3>4
  <2> QED BY <2>6, <2>7 DEF F, more
<1>7. sent' = more
  BY DEF more
<1>8. NothingLost'
  BY <1>6, <1>7 DEF NothingLost
<1>9. StreamInv'
  <2>1. \E T : sent' \in Seq(T)
    BY <1>2, <1>7
  <2>2. Len(handled') \in Nat /\ Len(handled') <= Len(sent') /\ handled' = Counting(Len(handled'))
    BY <1>2, <1>5, <1>7
  <2>3. {"queue", "segmenting", "acked", "opened", "closing"} \subseteq DOMAIN server'
    BY DEF StreamInv
  <2> QED BY <1>8, <2>1, <2>2, <2>3 DEF StreamInv
<1>10. C!Send
  <2> DEFINE N == Len(sent)
  <2>1. [n \in DOMAIN sent |-> n] = Counting(N) /\ [n \in DOMAIN sent' |-> n] = Counting(N + 1)
    BY <1>2, <1>3, <1>7 DEF Counting
  <2>2. N \in Nat /\ N + 1 \in Nat /\ N \in 0..N + 1
    BY <1>2
  <2> HIDE DEF N
  <2>3. C!IsBehind(Counting(N), Counting(N + 1)) /\ Len(Counting(N + 1)) = N + 1
        /\ Len(Counting(N)) = N
    BY <2>2, Counted
  <2> QED BY <2>1, <2>2, <2>3 DEF C!Send
<1> QED BY <1>9, <1>10

\* On a new connection nothing was sent.
LEMMA NothingSent == [n \in DOMAIN <<>> |-> n] = <<>> /\ <<>> = Counting(Len(<<>>))
BY DEF Counting

\* The client starts without a connection.
LEMMA StreamInit == Init => StreamInv /\ C!Init
<1> SUFFICES ASSUME Init PROVE StreamInv /\ C!Init
  OBVIOUS
<1>1. sent = <<>> /\ handled = <<>> /\ up = FALSE /\ server.queue = <<>>
      /\ {"queue", "segmenting", "acked", "opened", "closing"} \subseteq DOMAIN server
  BY DEF Init
<1>2. StreamInv
  <2>1. sent \in Seq({}) /\ Len(handled) = 0 /\ Len(sent) = 0
    BY <1>1
  <2> QED BY <1>1, <2>1, NothingSent DEF StreamInv, NothingLost
<1>3. C!Init
  BY <1>1, NothingSent DEF C!Init
<1> QED BY <1>2, <1>3

\* A new connection: the layers are reset (Session::reset_stream), nothing was sent.
LEMMA ConnectKeeps == ASSUME StreamInv, Connect PROVE StreamInv' /\ C!Reconnect
<1>1. sent' = <<>> /\ handled' = <<>> /\ wire' = <<>>
  BY DEF Connect
<1>2. PICK offer : layers' = reset_layers(layers, offer)
  BY DEF Connect
<1>3. {"queue", "segmenting", "acked", "opened", "closing"} \subseteq DOMAIN server'
      /\ server'.queue = <<>>
  BY DEF Connect
<1>4. DOMAIN layers' = {"buffer", "segments", "awaiting", "compressed", "failed"}
      /\ layers'.buffer = <<>> /\ layers'.segments = <<>>
  BY <1>2 DEF reset_layers, NoLayers
<1>5. Len(handled') = 0 /\ Len(sent') = 0 /\ sent' \in Seq({}) /\ Len(<<>>) = 0
  BY <1>1
<1>6. Due(<<>>, 0 + 1) = {}
  BY <1>5 DEF Due
<1>7. Left(<<>>, <<>>, {}, 0 + 1)
  <2>1. Len(<<>>) \in Nat /\ 0 + 1 \in Nat /\ 1 <= 0 + 1 /\ 0 + 1 <= Len(<<>>) + 1
    BY <1>5
  <2>2. Ordered(<<>>) /\ Before(Keys(<<>>), {}) /\ Keys(<<>>) \cup {} = Due(<<>>, 0 + 1)
    BY <1>6, EmptyCarries DEF Before
  <2> QED BY <2>1, <2>2 DEF Left
<1>8. NothingLost'
  <2>1. Keys(wire') \cup Keys(server'.queue) = {} /\ Keys(layers'.segments) \cup {} = {}
    BY <1>1, <1>3, <1>4, EmptyCarries
  <2>2. Behind(<<>>, {})
    BY EmptyCarries DEF Behind, Before
  <2>3. Holds(sent', layers', {}, Len(handled') + 1)
    BY <1>1, <1>4, <1>5, <1>7, <2>1, <2>2 DEF Holds
  <2>4. Keys(server'.queue) = {}
    BY <1>3, EmptyCarries
  <2> QED BY <1>1, <1>3, <2>1, <2>2, <2>3, <2>4 DEF NothingLost
<1>9. StreamInv'
  BY <1>1, <1>3, <1>5, <1>8, NothingSent DEF StreamInv
<1> QED BY <1>1, <1>9, NothingSent DEF C!Reconnect

\* A read hands the next m messages to handle(), one after the other.
Hands(m) ==
    LET h == Len(handled)
        messages == [k \in 1..m |-> sent[h + k]]
        end == HandledInTurn([session |-> session, upstream |-> upstream], messages)
    IN  /\ h + m <= Len(sent) /\ handled' = Counting(h + m)
        /\ session' = end.session /\ upstream' = end.upstream
        /\ met' = met \o [k \in 1..Count(messages, "hello_ack") |->
                             IF session'.capabilities.resync THEN server.id ELSE 0]

\* A read of any size: what the layers deliver are the next messages, the rest is held.
LEMMA ReadKeeps ==
    ASSUME StreamInv, Read
    PROVE  StreamInv' /\ C!Handle /\ \E m \in Nat : Hands(m)
<1>1. up /\ ~layers.failed /\ UNCHANGED <<up, server, sent>>
  BY DEF Read, serverVars
<1>2. PICK n \in 1..Len(wire) :
        LET result == ingest(layers, SubSeq(wire, 1, n))
            messages == [k \in 1..Len(result.messages) |-> sent[result.messages[k].n]]
            end == HandledInTurn([session |-> session, upstream |-> upstream], messages)
        IN  /\ wire' = SubSeq(wire, n + 1, Len(wire))
            /\ layers' = result.layers
            /\ handled' = handled \o [k \in 1..Len(result.messages) |-> result.messages[k].n]
            /\ session' = end.session /\ upstream' = end.upstream
            /\ met' = met \o [k \in 1..Count(messages, "hello_ack") |->
                                 IF session'.capabilities.resync THEN server.id ELSE 0]
  BY DEF Read
<1> DEFINE bytes == SubSeq(wire, 1, n)
           rest == SubSeq(wire, n + 1, Len(wire))
           result == ingest(layers, bytes)
           h == Len(handled)
           m == Len(result.messages)
           K == Keys(server.queue)
           numbers == [k \in 1..Len(result.messages) |-> result.messages[k].n]
           messages == [k \in 1..Len(result.messages) |-> sent[result.messages[k].n]]
           end == HandledInTurn([session |-> session, upstream |-> upstream], messages)
<1>3. wire' = rest /\ layers' = result.layers /\ handled' = handled \o numbers
  <2> HIDE DEF result
  <2> QED BY <1>2 DEF result
<1>30. /\ session' = end.session /\ upstream' = end.upstream
       /\ met' = met \o [k \in 1..Count(messages, "hello_ack") |->
                            IF session'.capabilities.resync THEN server.id ELSE 0]
  <2> HIDE DEF result
  <2> QED BY <1>2 DEF result
<1>4. h \in Nat /\ h <= Len(sent) /\ handled = Counting(h)
  BY DEF StreamInv
<1>5. PICK S : sent \in Seq(S)
  BY DEF StreamInv
<1>6. /\ Holds(sent, layers, Keys(wire) \cup K, h + 1)
      /\ Behind(wire, K) /\ Behind(server.queue, {})
  BY <1>1 DEF StreamInv, NothingLost
<1>7. /\ Ordered(bytes) /\ Ordered(rest) /\ Before(Keys(bytes), Keys(rest))
      /\ Keys(bytes) \cup Keys(rest) = Keys(wire)
  <2>1. Ordered(wire) /\ Len(wire) \in Nat
    BY <1>6 DEF Behind, Ordered
  <2>2. n \in 0..Len(wire)
    BY <2>1
  <2> QED BY <2>1, <2>2, Cut
<1> HIDE DEF bytes, rest, K
<1>8. Behind(bytes, Keys(rest) \cup K) /\ Behind(rest, K)
  BY <1>6, <1>7 DEF Behind, Before
<1>9. Holds(sent, layers, Keys(bytes) \cup (Keys(rest) \cup K), h + 1)
  <2>1. Keys(bytes) \cup (Keys(rest) \cup K) = Keys(wire) \cup K
    BY <1>7
  <2> QED BY <1>6, <2>1
<1>10. Passes(sent, result, Keys(rest) \cup K, h + 1)
  <2>1. h + 1 \in Nat
    BY <1>4
  <2> QED BY <1>1, <1>8, <1>9, <2>1, IngestPasses
<1> HIDE DEF result, h
<1>11. /\ result.messages \in Seq(Unit) /\ m \in Nat /\ h + 1 + m <= Len(sent) + 1
       /\ \A k \in 1..m : result.messages[k].n = h + 1 + k - 1
       /\ Len(sent) \in Nat
  BY <1>5, <1>10 DEF Passes, Delivers
<1>12. numbers \in Seq(Nat) /\ Len(numbers) = m /\ \A k \in 1..m : numbers[k] = h + k
  <2>1. DOMAIN result.messages = 1..m
    BY <1>11
  <2>2. \A k \in 1..m : h + 1 + k - 1 = h + k /\ h + k \in Nat
    BY <1>4, <1>11
  <2>3. \A k \in 1..m : numbers[k] = h + k /\ numbers[k] \in Nat
    BY <1>11, <2>1, <2>2
  <2>4. numbers \in [1..m -> Nat]
    BY <2>1, <2>3
  <2> HIDE DEF numbers, m
  <2> QED BY <1>11, <2>3, <2>4 DEF m
<1> HIDE DEF numbers, m
<1>13. handled' = Counting(h + m)
  <2> DEFINE A == Counting(h)
  <2>1. A \in Seq(Nat) /\ Len(A) = h /\ \A k \in 1..h : A[k] = k
    <3>1. \A k \in 1..h : A[k] = k
      BY DEF Counting
    <3> QED BY <1>4, <3>1, Counted
  <2> HIDE DEF A
  <2>2. A \o numbers \in Seq(Nat) /\ Len(A \o numbers) = h + m
    BY <1>12, <2>1
  <2>3. \A k \in 1..h + m : (A \o numbers)[k] = k
    <3> SUFFICES ASSUME NEW k \in 1..h + m PROVE (A \o numbers)[k] = k
      OBVIOUS
    <3>1. CASE k <= h
      BY <1>4, <1>11, <1>12, <2>1, <3>1
    <3>2. CASE k > h
      <4>1. k - h \in 1..m
        BY <1>4, <1>11, <3>2
      <4>2. numbers[k - h] = h + (k - h)
        BY <1>12, <4>1
      <4>3. h + (k - h) = k
        BY <1>4, <1>11
      <4>4. (A \o numbers)[k] = numbers[k - h]
        BY <1>4, <1>11, <1>12, <2>1, <3>2
      <4> QED BY <4>2, <4>3, <4>4
    <3>3. k <= h \/ k > h
      BY <1>4, <1>11
    <3> QED BY <3>1, <3>2, <3>3
  <2>4. A \o numbers = [k \in 1..h + m |-> k]
    <3> DEFINE B == A \o numbers
               D == Counting(h + m)
    <3>1. h + m \in Nat
      BY <1>4, <1>11
    <3>2. D \in Seq(Nat) /\ Len(D) = h + m /\ \A k \in 1..h + m : D[k] = k
      <4>1. \A k \in 1..h + m : D[k] = k
        BY DEF Counting
      <4> QED BY <3>1, <4>1, Counted
    <3>3. B \in Seq(Nat) /\ Len(B) = h + m /\ \A k \in 1..h + m : B[k] = k
      BY <2>2, <2>3
    <3> HIDE DEF B, D
    <3>4. B = D
      BY <3>2, <3>3
    <3> QED BY <3>4 DEF B, D, Counting
  <2> QED BY <1>3, <1>4, <2>4 DEF Counting, A
<1>14. h + m \in Nat /\ h \in 0..h + m /\ h + m <= Len(sent) /\ h + m \in 0..Len(sent)
  BY <1>4, <1>11
<1>15. Len(handled') = h + m
  BY <1>13, <1>14, Counted
<1>16. NothingLost'
  <2>1. server'.queue = server.queue /\ sent' = sent
    BY <1>1
  <2>2. Holds(sent, layers', Keys(rest) \cup K, h + 1 + m)
    BY <1>3, <1>10 DEF Passes, m
  <2>3. h + 1 + m = (h + m) + 1
    BY <1>4, <1>11
  <2>4. Holds(sent', layers', Keys(wire') \cup Keys(server'.queue), Len(handled') + 1)
    BY <1>3, <1>15, <2>1, <2>2, <2>3 DEF K
  <2>5. Behind(wire', Keys(server'.queue)) /\ Behind(server'.queue, {})
    BY <1>3, <1>6, <1>8, <2>1 DEF K
  <2> QED BY <2>4, <2>5 DEF NothingLost
<1>17. StreamInv'
  <2>1. Len(handled') \in Nat /\ Len(handled') <= Len(sent') /\ handled' = Counting(Len(handled'))
    BY <1>1, <1>13, <1>14, <1>15
  <2>2. server' = server /\ sent' = sent
    BY <1>1
  <2> QED BY <1>16, <2>1, <2>2 DEF StreamInv
<1>18. C!Handle
  <2>1. C!IsBehind(handled, handled')
    BY <1>4, <1>13, <1>14, Counted
  <2>2. C!IsBehind(handled', Counting(Len(sent)))
    BY <1>11, <1>13, <1>14, Counted
  <2>3. [i \in DOMAIN sent |-> i] = Counting(Len(sent))
    <3>1. DOMAIN sent = 1..Len(sent)
      BY <1>5
    <3> QED BY <3>1 DEF Counting
  <2>4. sent' = sent
    BY <1>1
  <2> QED BY <2>1, <2>2, <2>3, <2>4 DEF C!Handle
<1>19. messages = [k \in 1..m |-> sent[h + k]]
  <2>1. \A k \in 1..m : result.messages[k].n = h + k
    BY <1>4, <1>11
  <2> HIDE DEF h
  <2> QED BY <2>1 DEF m
<1>20. Hands(m)
  <2> HIDE DEF messages, end
  <2>1. end = HandledInTurn([session |-> session, upstream |-> upstream], messages)
    BY DEF end
  <2> QED BY <1>13, <1>14, <1>19, <1>30, <2>1 DEF Hands, h
<1> QED BY <1>11, <1>17, <1>18, <1>20

\* Nothing of the stream moves.
LEMMA StillKeeps ==
    ASSUME StreamInv, UNCHANGED <<layers, handled, sent>>, up' => up /\ wire' = wire,
           DOMAIN server' = DOMAIN server, ~server'.segmenting => ~server.segmenting,
           server'.queue \in {server.queue, <<>>}, up' => server'.queue = server.queue
    PROVE  StreamInv' /\ UNCHANGED C!vars
<1>1. NothingLost'
  BY DEF StreamInv, NothingLost
<1>2. StreamInv'
  BY <1>1 DEF StreamInv
<1> QED BY <1>2 DEF C!vars

\* The server writes a message.
LEMMA WrittenKeeps ==
    ASSUME StreamInv, up, up' = up, layers' = layers, handled' = handled,
           NEW s, DOMAIN s = DOMAIN server, s.queue = server.queue,
           s.segmenting = server.segmenting,
           NEW m, m.op \in Ops, Written(s, m)
    PROVE  StreamInv' /\ C!Send
<1>1. {"queue", "segmenting", "acked", "opened", "closing"} \subseteq DOMAIN s
      /\ (~s.segmenting => s.queue = <<>>)
  BY DEF StreamInv
<1>2. sent' = Append(sent, m)
  BY DEF Written
<1> DEFINE F == Frame(m.op, Len(sent'))
<1>3. CASE s.segmenting
  <2>1. server' = [s EXCEPT !.queue = @ \o F] /\ wire' = wire
    BY <1>3 DEF Written
  <2> HIDE DEF F
  <2>2. DOMAIN server' = DOMAIN server /\ server'.queue = server.queue \o F
        /\ server'.segmenting = s.segmenting
    BY <1>1, <2>1
  <2> QED BY <1>2, <1>3, <2>1, <2>2, SendKeeps DEF F
<1>4. CASE ~s.segmenting
  <2>1. server' = s /\ wire' = wire \o F
    BY <1>4 DEF Written
  <2>2. server.queue = <<>> /\ server'.queue = <<>>
    BY <1>1, <1>4, <2>1
  <2> QED BY <1>2, <2>1, <2>2, SendKeeps
<1> QED BY <1>3, <1>4

\* The server answers the capabilities, and compresses from there on if it was agreed.
LEMMA AcknowledgesKeeps ==
    ASSUME StreamInv, up, up' = up, layers' = layers, handled' = handled, Acknowledges
    PROVE  StreamInv' /\ C!Send
<1> DEFINE ack == Message("hello_ack",
                   [capabilities |-> [version |-> 1, zstd |-> server.zstd,
                                      resync |-> server.kind.resync],
                    id |-> server.id, generation |-> server.generation])
           F == Frame("hello_ack", Len(sent'))
<1>1. ack.op = "hello_ack" /\ ack.op \in Ops
  BY DEF Message, Ops
<1>2. sent' = Append(sent, ack)
  BY DEF Acknowledges
<1> HIDE DEF ack
<1>3. F = Frame(ack.op, Len(sent'))
  BY <1>1
<1>4. {"queue", "segmenting", "acked", "opened", "closing"} \subseteq DOMAIN server
      /\ (~server.segmenting => server.queue = <<>>)
  BY DEF StreamInv
<1>5. CASE server.segmenting
  <2>1. server' = [server EXCEPT !.queue = @ \o F, !.acked = TRUE] /\ wire' = wire
    BY <1>5 DEF Acknowledges
  <2> HIDE DEF F
  <2>2. DOMAIN server' = DOMAIN server /\ server'.queue = server.queue \o F
        /\ server'.segmenting = server.segmenting
    BY <1>4, <2>1
  <2> QED BY <1>1, <1>2, <1>3, <1>5, <2>1, <2>2, SendKeeps
<1>6. CASE ~server.segmenting
  <2>1. server' = [server EXCEPT !.segmenting = server.zstd, !.acked = TRUE]
        /\ wire' = wire \o F
    BY <1>6 DEF Acknowledges
  <2> HIDE DEF F
  <2>2. DOMAIN server' = DOMAIN server /\ server'.queue = server.queue
    BY <1>4, <2>1
  <2> QED BY <1>1, <1>2, <1>3, <1>4, <1>6, <2>1, <2>2, SendKeeps
<1> QED BY <1>5, <1>6

\* The kind of a message.
LEMMA MessageOps == \A op, about : Message(op, about).op = op
BY DEF Message

\* The server hears the client, and may answer.
LEMMA HearsKeeps ==
    ASSUME StreamInv, ServerHears PROVE StreamInv' /\ (C!Send \/ UNCHANGED C!vars)
<1> DEFINE message == Head(upstream)
<1>1. up /\ up' = up /\ layers' = layers /\ handled' = handled
  BY DEF ServerHears, clientVars
<1>2. CASE \E m : m.op \in Ops /\ Written(server, m)
  BY <1>1, <1>2, WrittenKeeps
<1>3. CASE Acknowledges
  BY <1>1, <1>3, AcknowledgesKeeps
<1>4. CASE UNCHANGED <<server, wire, sent>>
  BY <1>1, <1>4, StillKeeps
<1>5. \/ Written(server, Message("init", 0))
      \/ Written(server, Message("palette", server.id))
      \/ Written(server, Message("resync", server.generation))
      \/ Acknowledges
      \/ UNCHANGED <<server, wire, sent>>
  BY DEF ServerHears
<1>6. \A op, about : op \in Ops /\ Written(server, Message(op, about))
         => \E m : m.op \in Ops /\ Written(server, m)
  BY MessageOps
<1>7. "init" \in Ops /\ "palette" \in Ops /\ "resync" \in Ops
  BY DEF Ops
<1> QED BY <1>2, <1>3, <1>4, <1>5, <1>6, <1>7

\* The server draws or asks.
LEMMA DrawsKeeps == ASSUME StreamInv, ServerDraws PROVE StreamInv' /\ C!Send
<1>1. up /\ up' = up /\ layers' = layers /\ handled' = handled
  BY DEF ServerDraws, clientVars
<1>2. \E op \in {"state", "query", "garbled_query"} : \E about : Written(server, Message(op, about))
  BY DEF ServerDraws
<1>3. \E m : m.op \in Ops /\ Written(server, m)
  BY <1>2, MessageOps DEF Ops
<1> QED BY <1>1, <1>3, WrittenKeeps

\* The server says that the session ends.
LEMMA ClosesKeeps == ASSUME StreamInv, ServerCloses PROVE StreamInv' /\ C!Send
<1>1. up /\ up' = up /\ layers' = layers /\ handled' = handled
  BY DEF ServerCloses, clientVars
<1> DEFINE s == [server EXCEPT !.closing = TRUE]
<1>2. Written(s, Message("close", 0))
  BY DEF ServerCloses
<1>3. DOMAIN s = DOMAIN server /\ s.queue = server.queue /\ s.segmenting = server.segmenting
  BY DEF StreamInv
<1>4. Message("close", 0).op \in Ops
  BY MessageOps DEF Ops
<1> HIDE DEF s
<1> QED BY <1>1, <1>2, <1>3, <1>4, WrittenKeeps

\* The encoder's buffer goes out in segments: it leaves the encoder and is on the wire.
LEMMA FlushKeeps == ASSUME StreamInv, ServerFlushes PROVE StreamInv' /\ UNCHANGED C!vars
<1>1. up /\ server.segmenting /\ UNCHANGED <<up, layers, handled, sent>>
  BY DEF ServerFlushes, clientVars
<1>2. PICK n \in 1..Len(server.queue), heads \in {1, 2, 3} :
        /\ wire' = wire \o Segment(SubSeq(server.queue, 1, n), heads, ~server.opened)
        /\ server' = [server EXCEPT !.queue = SubSeq(@, n + 1, Len(@)), !.opened = TRUE]
  BY DEF ServerFlushes
<1> DEFINE out == SubSeq(server.queue, 1, n)
           kept == SubSeq(server.queue, n + 1, Len(server.queue))
           segment == Segment(out, heads, ~server.opened)
<1>3. {"queue", "segmenting", "acked", "opened", "closing"} \subseteq DOMAIN server
  BY DEF StreamInv
<1>4. DOMAIN server' = DOMAIN server /\ server'.queue = kept
      /\ server'.segmenting = server.segmenting
  <2> HIDE DEF kept
  <2>1. server' = [server EXCEPT !.queue = kept, !.opened = TRUE]
    BY <1>2 DEF kept
  <2> QED BY <1>3, <2>1
<1>5. wire' = wire \o segment
  BY <1>2
<1>6. ASSUME ~layers.failed
      PROVE  /\ Holds(sent, layers, Keys(wire') \cup Keys(server'.queue), Len(handled) + 1)
             /\ Behind(wire', Keys(server'.queue)) /\ Behind(server'.queue, {})
  <2>1. /\ Holds(sent, layers, Keys(wire) \cup Keys(server.queue), Len(handled) + 1)
        /\ Behind(wire, Keys(server.queue)) /\ Behind(server.queue, {})
    BY <1>1, <1>6 DEF StreamInv, NothingLost
  <2>2. Ordered(server.queue) /\ n \in 0..Len(server.queue)
    BY <2>1 DEF Behind, Ordered
  <2>3. /\ Ordered(out) /\ Ordered(kept) /\ Before(Keys(out), Keys(kept))
        /\ Keys(out) \cup Keys(kept) = Keys(server.queue)
    BY <2>2, Cut
  <2> HIDE DEF out, kept
  <2>4. Ordered(segment) /\ Keys(segment) = Keys(out)
    BY <2>3, SegmentCarries
  <2> HIDE DEF segment
  <2>5. Behind(segment, Keys(kept)) /\ Behind(wire, Keys(segment) \cup Keys(kept))
    BY <2>1, <2>3, <2>4 DEF Behind, Before
  <2>6. Behind(wire \o segment, Keys(kept)) /\ Keys(wire \o segment) = Keys(wire) \cup Keys(segment)
    BY <2>5, BehindJoined
  <2>7. Keys(wire') \cup Keys(server'.queue) = Keys(wire) \cup Keys(server.queue)
    BY <1>4, <1>5, <2>3, <2>4, <2>6
  <2>8. Behind(kept, {})
    BY <2>3 DEF Behind, Before
  <2> QED BY <1>4, <1>5, <2>1, <2>6, <2>7, <2>8
<1>7. NothingLost'
  BY <1>1, <1>6 DEF NothingLost
<1>8. StreamInv'
  BY <1>1, <1>4, <1>7 DEF StreamInv
<1> QED BY <1>1, <1>8 DEF C!vars

\* Every step keeps the invariant, and is a step of the channel or none.
LEMMA StreamStep == StreamInv /\ [Next]_vars => StreamInv' /\ [C!Next]_(C!vars)
<1> SUFFICES ASSUME StreamInv, [Next]_vars PROVE StreamInv' /\ [C!Next]_(C!vars)
  OBVIOUS
<1>0. {"queue", "segmenting", "acked", "opened", "closing"} \subseteq DOMAIN server
  BY DEF StreamInv
<1>1. CASE Connect
  BY <1>1, ConnectKeeps DEF C!Next
<1>2. CASE Drop
  <2>1. up' = FALSE /\ UNCHANGED <<layers, handled, sent>>
        /\ server' = [server EXCEPT !.queue = <<>>]
    BY <1>2 DEF Drop, clientVars
  <2>2. DOMAIN server' = DOMAIN server /\ server'.queue = <<>>
        /\ server'.segmenting = server.segmenting
    BY <1>0, <2>1
  <2> QED BY <2>1, <2>2, StillKeeps
<1>3. CASE Read
  BY <1>3, ReadKeeps DEF C!Next
<1>4. CASE Repaint
  <2>1. UNCHANGED <<up, layers, handled, sent, wire, server>>
    BY <1>4 DEF Repaint, clientVars, serverVars
  <2> QED BY <2>1, StillKeeps
<1>5. CASE ServerHears
  BY <1>5, HearsKeeps DEF C!Next
<1>6. CASE ServerDraws
  BY <1>6, DrawsKeeps DEF C!Next
<1>7. CASE ServerCloses
  BY <1>7, ClosesKeeps DEF C!Next
<1>8. CASE RingFills
  <2>1. UNCHANGED <<up, layers, handled, sent, wire>>
        /\ server' = [server EXCEPT !.segmenting = TRUE]
    BY <1>8 DEF RingFills, clientVars
  <2>2. DOMAIN server' = DOMAIN server /\ server'.queue = server.queue /\ server'.segmenting
    BY <1>0, <2>1
  <2> QED BY <2>1, <2>2, StillKeeps
<1>9. CASE ServerFlushes
  BY <1>9, FlushKeeps
<1>10. CASE UNCHANGED vars
  <2>1. UNCHANGED <<up, layers, handled, sent, wire, server>>
    BY <1>10 DEF vars, clientVars, serverVars
  <2> QED BY <2>1, StillKeeps
<1> QED BY <1>1, <1>2, <1>3, <1>4, <1>5, <1>6, <1>7, <1>8, <1>9, <1>10 DEF Next

\* On every connection the client's messages are those of a FIFO channel, whatever the
\* server, the reads and the segments, and whenever compression begins.
THEOREM SessionIsChannel == Spec => ChannelPromise
BY StreamInit, StreamStep, PTL DEF Spec, ChannelPromise, C!Spec

\* On a connection whose stream is in step, every message that was sent and not handled is
\* in the layers, on the wire or in the server's encoder: whole, in order and once.
THEOREM NoMessageLost == Spec => []NothingLost
<1>1. StreamInv => NothingLost
  BY DEF StreamInv
<1> QED BY <1>1, StreamInit, StreamStep, PTL DEF Spec
----------------------------------------------------------------------------
(* What the session keeps.                                                         *)

\* The places of the first k messages that are of some kind.
At(k, op) == {i \in 1..k : sent[i].op = op}

\* What the i-th message says: a state is stated in the era of its place, a barrier is
\* behind the acknowledgement, and there is one acknowledgement.
Says(i) ==
    LET message == sent[i] IN
    /\ message.op \in Ops
    /\ message.op = "state" =>
         /\ message.about.token \in Tokens
         /\ message.about.era = <<connection, Cardinality(At(i - 1, "resync"))>>
    /\ message.op = "palette" => message.about = server.id
    /\ message.op = "resync" =>
         /\ message.about = server.generation
         /\ server.kind.resync /\ At(i - 1, "hello_ack") # {}
    /\ message.op = "hello_ack" =>
         /\ message.about.capabilities.resync = server.kind.resync
         /\ message.about.id = server.id /\ message.about.generation = server.generation
         /\ At(i - 1, "hello_ack") = {}

\* What a server keeps.
ServerFields == {"kind", "zstd", "segmenting", "opened", "closing", "acked", "id",
                 "generation", "queue"}

\* Every message says what is so, and the server is one that exists.
SaysSo ==
    /\ DOMAIN server = ServerFields
    /\ server.kind.resync \in BOOLEAN
    /\ server.id \in Nat /\ server.id # 0 /\ server.generation \in Nat
    /\ connection \in Nat
    /\ \A i \in 1..Len(sent) : Says(i)

\* The session id met last, if any.
MetLast(seen, id) ==
    \/ id = 0 /\ \A i \in 1..Len(seen) : seen[i] = 0
    \/ /\ id # 0
       /\ \E i \in 1..Len(seen) : seen[i] = id /\ \A j \in 1..Len(seen) : j > i => seen[j] = 0

\* The session that was met last is met again.
MetAgain(seen) ==
    \E i \in 2..Len(seen) : LET earlier == {j \in 1..i - 1 : seen[j] # 0}
                            IN  /\ seen[i] # 0 /\ earlier # {}
                                /\ seen[i] = seen[Max(earlier)]

\* The session id and the generation, from one connection to the next.
Identity(s, known, seen) ==
    /\ s.id \in Nat /\ s.generation \in Nat /\ s.id <= server.id
    /\ known => s.id = server.id /\ s.generation = server.generation
    /\ ~known /\ s.id = server.id => s.generation < server.generation
    /\ seen \in Seq(Nat) /\ MetLast(seen, s.id)
    /\ s.changed \in BOOLEAN /\ (s.changed <=> MetAgain(seen))

\* This connection's server told who it is: its acknowledgement carries a session id.
Known(k) == At(k, "hello_ack") # {} /\ server.kind.resync

\* What the session is when the first k messages have been handled.
SessionFields == {"states", "palette", "id", "generation", "changed", "capabilities", "closed"}
\* The states are this era's, the palette and the capabilities this server's.
KeptAt(s, k, seen) ==
    /\ DOMAIN s = SessionFields
    /\ s.states \in [Tokens -> {NoEra, <<connection, Cardinality(At(k, "resync"))>>}]
    /\ s.palette = IF At(k, "palette") # {} THEN server.id ELSE 0
    /\ s.capabilities.resync \in BOOLEAN /\ (s.capabilities.resync <=> Known(k))
    /\ Identity(s, Known(k), seen)
    /\ s.closed \in BOOLEAN

\* Every engine that waits is owed an answer, of a message not handled or on its way.
OwedAt(k, u) ==
    \A t \in waiting :
        \/ \E i \in k + 1..Len(sent) :
             sent[i].op \in {"query", "garbled_query"} /\ sent[i].about = t
        \/ \E i \in 1..Len(u) : u[i].op = "reply" /\ u[i].about = t

\* The client says hello once, and asks for a barrier where it can be given.
HeardOf ==
    /\ \E S : upstream \in Seq(S)
    /\ \A i \in 1..Len(upstream) :
         /\ upstream[i].op = "hello" =>
              /\ At(Len(sent), "hello_ack") = {}
              /\ \A j \in 1..Len(upstream) : upstream[j].op = "hello" => j = i
         /\ upstream[i].op = "resync" => Known(Len(handled))

\* What is left of the bounds.
BudgetTyped ==
    budget \in [servers : SUBSET Kinds, offers : SUBSET BOOLEAN, connections : Nat,
                draws : Nat, repaints : Nat, cuts : Nat]

\* The invariant of what the session keeps and owes.
SessionInv ==
    /\ BudgetTyped /\ SaysSo /\ HeardOf /\ waiting \subseteq Tokens
    /\ KeptAt(session, Len(handled), met) /\ OwedAt(Len(handled), upstream)

\* The messages of a read are handled one after the other.
RunsTo(f, end, messages, n) ==
    f = [k \in 0..n |-> IF k = 0 THEN end ELSE handle(f[k - 1], messages[k])]

\* There is such a run, of any length: the shortest without one would extend the one before.
LEMMA Runs ==
    ASSUME NEW end, NEW messages, NEW n \in Nat
    PROVE  \E f : RunsTo(f, end, messages, n)
<1> DEFINE Bad == {k \in 0..n : ~\E f : RunsTo(f, end, messages, k)}
<1> SUFFICES ASSUME Bad # {} PROVE FALSE
  <2>1. n \in 0..n
    OBVIOUS
  <2> QED BY <2>1
<1>1. IsFiniteSet(Bad) /\ Bad \in SUBSET Int
  <2>1. IsFiniteSet(0..n) /\ Bad \subseteq 0..n
    BY FS_Interval
  <2> QED BY <2>1, FS_Subset
<1> DEFINE k == Min(Bad)
<1>2. k \in Bad /\ \A e \in Bad : k <= e
  BY <1>1, FirstPlace
<1> HIDE DEF k
<1>3. k \in 0..n /\ ~\E f : RunsTo(f, end, messages, k)
  BY <1>2
<1>4. k # 0
  <2>1. RunsTo([i \in 0..0 |-> end], end, messages, 0)
    BY DEF RunsTo
  <2> QED BY <1>3, <2>1
<1>5. k - 1 \in 0..n /\ k - 1 \notin Bad
  BY <1>2, <1>3, <1>4
<1>6. PICK g : RunsTo(g, end, messages, k - 1)
  BY <1>5
<1> DEFINE f == [i \in 0..k |-> IF i = k THEN handle(g[k - 1], messages[k]) ELSE g[i]]
<1>7. RunsTo(f, end, messages, k)
  <2>1. \A i \in 0..k - 1 : g[i] = IF i = 0 THEN end ELSE handle(g[i - 1], messages[i])
    BY <1>6 DEF RunsTo
  <2>2. \A i \in 0..k : f[i] = IF i = 0 THEN end ELSE handle(f[i - 1], messages[i])
    <3> SUFFICES ASSUME NEW i \in 0..k
                 PROVE  f[i] = IF i = 0 THEN end ELSE handle(f[i - 1], messages[i])
      OBVIOUS
    <3>1. CASE i = 0
      <4>1. i \in 0..k - 1 /\ i # k
        BY <1>3, <1>4, <3>1
      <4> QED BY <2>1, <3>1, <4>1
    <3>2. CASE i # 0 /\ i # k
      <4>1. i \in 0..k - 1 /\ i - 1 \in 0..k /\ i - 1 # k
        BY <1>3, <3>2
      <4>2. f[i] = g[i] /\ f[i - 1] = g[i - 1]
        BY <3>2, <4>1
      <4> QED BY <2>1, <3>2, <4>1, <4>2
    <3>3. CASE i = k
      <4>1. k - 1 \in 0..k /\ k - 1 # k /\ k \in 0..k
        BY <1>3, <1>4
      <4>2. f[k - 1] = g[k - 1]
        BY <4>1
      <4>3. f[k] = handle(g[k - 1], messages[k])
        BY <4>1
      <4> QED BY <1>4, <3>3, <4>2, <4>3
    <3> QED BY <3>1, <3>2, <3>3
  <2>3. f = [i \in 0..k |-> f[i]]
    OBVIOUS
  <2> HIDE DEF f
  <2> QED BY <2>2, <2>3 DEF RunsTo
<1> HIDE DEF f
<1> QED BY <1>3, <1>7

\* The ends of a read's messages, one by one.
InTurnTo(f, end, messages, n) ==
    /\ f[0] = end /\ HandledInTurn(end, messages) = f[n]
    /\ \A k \in 1..n : f[k] = handle(f[k - 1], messages[k])

\* What HandledInTurn computes is the end of such a run.
LEMMA InTurn ==
    ASSUME NEW end, NEW messages, NEW n \in Nat, Len(messages) = n
    PROVE  \E f : InTurnTo(f, end, messages, n)
<1>1. \E f : RunsTo(f, end, messages, Len(messages))
  BY Runs
<1>2. PICK f : RunsTo(f, end, messages, Len(messages))
               /\ HandledInTurn(end, messages) = f[Len(messages)]
  BY <1>1 DEF HandledInTurn, RunsTo
<1>3. \A k \in 0..n : f[k] = IF k = 0 THEN end ELSE handle(f[k - 1], messages[k])
  BY <1>2 DEF RunsTo
<1>4. 0 \in 0..n /\ \A k \in 1..n : k \in 0..n /\ k # 0
  OBVIOUS
<1>5. f[0] = end /\ \A k \in 1..n : f[k] = handle(f[k - 1], messages[k])
  BY <1>3, <1>4
<1> QED BY <1>2, <1>5 DEF InTurnTo

\* Who was met, with one more met.
LEMMA MetOneMore ==
    ASSUME NEW seen \in Seq(Nat), NEW id \in Nat, MetLast(seen, id), NEW x \in Nat
    PROVE  /\ Append(seen, x) \in Seq(Nat)
           /\ MetLast(Append(seen, x), IF x = 0 THEN id ELSE x)
           /\ MetAgain(Append(seen, x)) <=> MetAgain(seen) \/ (x # 0 /\ id = x)
<1> DEFINE more == Append(seen, x)
           n == Len(seen)
           Earlier(m, i) == {j \in 1..i - 1 : m[j] # 0}
           At2(m, i) == /\ m[i] # 0 /\ Earlier(m, i) # {} /\ m[i] = m[Max(Earlier(m, i))]
<1>1. /\ more \in Seq(Nat) /\ Len(more) = n + 1 /\ n \in Nat /\ more[n + 1] = x
      /\ \A i \in 1..n : more[i] = seen[i]
  OBVIOUS
<1> HIDE DEF more, n
<1>2. MetLast(more, IF x = 0 THEN id ELSE x)
  <2>1. CASE x = 0
    <3>1. \A i \in 1..n + 1 : i \in 1..n \/ i = n + 1
      BY <1>1
    <3>2. CASE id = 0 /\ \A i \in 1..n : seen[i] = 0
      BY <1>1, <2>1, <3>1, <3>2 DEF MetLast
    <3>3. CASE id # 0 /\ \E i \in 1..n : seen[i] = id /\ \A j \in 1..n : j > i => seen[j] = 0
      <4>1. PICK i \in 1..n : seen[i] = id /\ \A j \in 1..n : j > i => seen[j] = 0
        BY <3>3
      <4>2. i \in 1..n + 1 /\ more[i] = id
        BY <1>1, <4>1
      <4>3. \A j \in 1..n + 1 : j > i => more[j] = 0
        BY <1>1, <2>1, <3>1, <4>1
      <4> QED BY <1>1, <2>1, <3>3, <4>2, <4>3 DEF MetLast
    <3> QED BY <3>2, <3>3 DEF MetLast, n
  <2>2. CASE x # 0
    <3>1. n + 1 \in 1..n + 1 /\ \A j \in 1..n + 1 : ~(j > n + 1)
      BY <1>1
    <3> QED BY <1>1, <2>2, <3>1 DEF MetLast
  <2> QED BY <2>1, <2>2
<1>3. \A i \in 1..n : i \in 2..n => /\ Earlier(more, i) = Earlier(seen, i)
                                  /\ (At2(more, i) <=> At2(seen, i))
  <2> SUFFICES ASSUME NEW i \in 2..n
               PROVE  Earlier(more, i) = Earlier(seen, i) /\ (At2(more, i) <=> At2(seen, i))
    OBVIOUS
  <2>1. i \in 1..n /\ \A j \in 1..i - 1 : j \in 1..n
    BY <1>1
  <2>2. Earlier(more, i) = Earlier(seen, i)
    BY <1>1, <2>1
  <2>3. IsFiniteSet(Earlier(seen, i)) /\ Earlier(seen, i) \in SUBSET Int
    <3>1. 1 \in Int /\ i - 1 \in Int
      BY <1>1
    <3>2. IsFiniteSet(1..i - 1)
      BY <3>1, FS_Interval
    <3>3. Earlier(seen, i) \subseteq 1..i - 1
      OBVIOUS
    <3> QED BY <3>2, <3>3, FS_Subset
  <2>4. Earlier(seen, i) # {} => Max(Earlier(seen, i)) \in Earlier(seen, i)
    BY <2>3, LastPlace
  <2>5. Earlier(seen, i) # {} => more[Max(Earlier(seen, i))] = seen[Max(Earlier(seen, i))]
    BY <1>1, <2>1, <2>4
  <2> HIDE DEF Earlier
  <2> QED BY <1>1, <2>1, <2>2, <2>5
<1>4. MetAgain(seen) <=> \E i \in 2..n : At2(seen, i)
  BY DEF MetAgain, n
<1>5. MetAgain(more) <=> \E i \in 2..n + 1 : At2(more, i)
  BY <1>1 DEF MetAgain
<1>6. n >= 1 => (At2(more, n + 1) <=> x # 0 /\ id = x)
  <2> SUFFICES ASSUME n >= 1 PROVE At2(more, n + 1) <=> x # 0 /\ id = x
    OBVIOUS
  <2> DEFINE E == Earlier(more, n + 1)
  <2>1. E = {j \in 1..n : seen[j] # 0}
    <3>1. n + 1 - 1 = n
      BY <1>1
    <3> QED BY <1>1, <3>1
  <2>2. IsFiniteSet(E) /\ E \in SUBSET Int
    <3>1. IsFiniteSet(1..n)
      BY <1>1, FS_Interval
    <3> HIDE DEF E
    <3>2. E \in SUBSET (1..n)
      BY <2>1
    <3>3. E \in SUBSET Int
      BY <3>2
    <3>4. IsFiniteSet(E)
      BY <3>1, <3>2, FS_Subset
    <3> QED BY <3>3, <3>4
  <2>3. E # {} => Max(E) \in E /\ \A e \in E : e <= Max(E)
    BY <2>2, LastPlace
  <2>4. At2(more, n + 1) <=> x # 0 /\ E # {} /\ x = more[Max(E)]
    BY <1>1
  <2> HIDE DEF E, At2
  <2>5. CASE id = 0 /\ \A i \in 1..n : seen[i] = 0
    BY <2>1, <2>4, <2>5
  <2>6. CASE id # 0 /\ \E i \in 1..n : seen[i] = id /\ \A j \in 1..n : j > i => seen[j] = 0
    <3>1. PICK i \in 1..n : seen[i] = id /\ \A j \in 1..n : j > i => seen[j] = 0
      BY <2>6
    <3>2. i \in E
      BY <2>1, <2>6, <3>1
    <3>3. Max(E) \in E /\ i <= Max(E)
      BY <2>3, <3>2
    <3>4. Max(E) \in 1..n /\ seen[Max(E)] # 0
      BY <2>1, <3>3
    <3>5. Max(E) = i
      BY <3>1, <3>3, <3>4
    <3>6. more[Max(E)] = id
      BY <1>1, <3>1, <3>5
    <3> QED BY <2>4, <3>2, <3>6
  <2> QED BY <2>5, <2>6 DEF MetLast, n
<1>7. n = 0 => ~(x # 0 /\ id = x)
  BY DEF MetLast, n
<1> HIDE DEF At2
<1>8. MetAgain(more) <=> MetAgain(seen) \/ (x # 0 /\ id = x)
  <2>1. CASE n = 0
    <3>1. 2..n + 1 = {} /\ 2..n = {}
      BY <2>1
    <3> QED BY <1>4, <1>5, <1>7, <2>1, <3>1
  <2>2. CASE n >= 1
    <3>1. \A i \in 2..n + 1 : i \in 2..n \/ i = n + 1
      BY <1>1
    <3>2. n + 1 \in 2..n + 1 /\ \A i \in 2..n : i \in 2..n + 1 /\ i \in 1..n
      BY <1>1, <2>2
    <3> QED BY <1>3, <1>4, <1>5, <1>6, <2>2, <3>1, <3>2
  <2> QED BY <1>1, <2>1, <2>2
<1> QED BY <1>1, <1>2, <1>8 DEF more

\* One message more.
LEMMA OneMore ==
    ASSUME NEW k \in Nat, NEW op
    PROVE  At(k + 1, op) = IF sent[k + 1].op = op THEN At(k, op) \cup {k + 1} ELSE At(k, op)
<1>1. 1..k + 1 = (1..k) \cup {k + 1}
  OBVIOUS
<1> QED BY <1>1 DEF At

\* How many messages of a kind there are is a number.
LEMMA AtFinite == ASSUME NEW k \in Nat, NEW op PROVE Cardinality(At(k, op)) \in Nat
<1>1. IsFiniteSet(1..k)
  BY FS_Interval
<1>2. At(k, op) \subseteq 1..k
  BY DEF At
<1> QED BY <1>1, <1>2, FS_Subset, FS_CardinalityType

\* The session id and the generation, when an acknowledgement is handled.
LEMMA IdentityAcked ==
    ASSUME SaysSo, NEW s, DOMAIN s = SessionFields, NEW seen, Identity(s, FALSE, seen),
           server.kind.resync,
           NEW id, id = server.id, NEW generation, generation = server.generation
    PROVE  Identity(observe_generation(s, id, generation), TRUE, Append(seen, id))
<1> DEFINE o == observe_generation(s, id, generation)
           again == s.id # 0 /\ id = s.id /\ generation > s.generation
<1>1. o.id = id /\ o.generation = generation /\ (o.changed = (s.changed \/ again))
  BY DEF observe_generation, SessionFields
<1>2. id \in Nat /\ id # 0 /\ generation \in Nat /\ s.id \in Nat /\ s.generation \in Nat
  BY DEF SaysSo, Identity
<1>3. again <=> (id # 0 /\ s.id = id)
  BY <1>2 DEF Identity
<1>4. seen \in Seq(Nat) /\ MetLast(seen, s.id)
  BY DEF Identity
<1>5. /\ Append(seen, id) \in Seq(Nat)
      /\ MetLast(Append(seen, id), id)
      /\ MetAgain(Append(seen, id)) <=> MetAgain(seen) \/ (id # 0 /\ s.id = id)
  BY <1>2, <1>4, MetOneMore
<1>6. s.changed \in BOOLEAN /\ (s.changed <=> MetAgain(seen))
  BY DEF Identity
<1>7. o.changed \in BOOLEAN /\ (o.changed <=> MetAgain(Append(seen, id)))
  <2> HIDE DEF o, again
  <2> QED BY <1>1, <1>3, <1>5, <1>6
<1> HIDE DEF o, again
<1>8. o.id = server.id /\ o.generation = server.generation /\ o.id \in Nat /\ o.generation \in Nat
      /\ o.id <= server.id
  BY <1>1, <1>2
<1>9. MetLast(Append(seen, id), o.id)
  BY <1>1, <1>5
<1> QED BY <1>5, <1>7, <1>8, <1>9 DEF Identity, o

\* A message is handled.
LEMMA HandledKept ==
    ASSUME SaysSo, NEW k \in Nat, k < Len(sent), Len(sent) \in Nat,
           NEW s, NEW seen, KeptAt(s, k, seen)
    PROVE  KeptAt(Handled(s, sent[k + 1]), k + 1,
                  IF sent[k + 1].op = "hello_ack"
                  THEN Append(seen, IF server.kind.resync THEN server.id ELSE 0) ELSE seen)
<1> DEFINE message == sent[k + 1]
           end == Handled(s, message)
           era(j) == <<connection, Cardinality(At(j, "resync"))>>
<1>1. Says(k + 1) /\ k + 1 - 1 = k
  BY DEF SaysSo
<1>2. \A op : At(k + 1, op) = IF message.op = op THEN At(k, op) \cup {k + 1} ELSE At(k, op)
  BY OneMore
<1>3. DOMAIN s = SessionFields
  BY DEF KeptAt
<1> HIDE DEF message
<1>4. CASE message.op = "hello_ack"
  <2> DEFINE told == [s EXCEPT !.capabilities = message.about.capabilities]
  <2>1. /\ message.about.capabilities.resync = server.kind.resync
        /\ message.about.id = server.id /\ message.about.generation = server.generation
        /\ At(k, "hello_ack") = {}
    BY <1>1, <1>4 DEF Says, message
  <2>2. At(k + 1, "hello_ack") # {} /\ At(k + 1, "palette") = At(k, "palette")
        /\ At(k + 1, "resync") = At(k, "resync")
    BY <1>2, <1>4
  <2>3. ~Known(k) /\ (Known(k + 1) <=> server.kind.resync)
    BY <2>1, <2>2 DEF Known
  <2>4. /\ DOMAIN told = SessionFields /\ told.states = s.states /\ told.palette = s.palette
        /\ told.id = s.id /\ told.generation = s.generation /\ told.changed = s.changed
        /\ told.closed = s.closed /\ told.capabilities = message.about.capabilities
    BY <1>3 DEF SessionFields
  <2> HIDE DEF told
  <2>5. Identity(told, FALSE, seen)
    BY <2>3, <2>4 DEF KeptAt, Identity
  <2>6. server.kind.resync \in BOOLEAN
    BY DEF SaysSo
  <2>7. CASE server.kind.resync
    <3> DEFINE o == observe_generation(told, message.about.id, message.about.generation)
    <3>1. end = o
      BY <1>4, <2>1, <2>7 DEF Handled, told
    <3>2. Identity(o, TRUE, Append(seen, server.id))
      BY <2>1, <2>4, <2>5, <2>7, IdentityAcked
    <3>3. /\ DOMAIN o = SessionFields /\ o.states = told.states /\ o.palette = told.palette
          /\ o.closed = told.closed /\ o.capabilities = told.capabilities
      BY <2>4 DEF observe_generation, SessionFields
    <3> HIDE DEF o
    <3>4. KeptAt(o, k + 1, Append(seen, server.id))
      BY <2>1, <2>2, <2>3, <2>4, <2>7, <3>2, <3>3 DEF KeptAt
    <3> QED BY <1>4, <2>7, <3>1, <3>4 DEF message
  <2>8. CASE ~server.kind.resync
    <3>1. end = told
      BY <1>4, <2>1, <2>8 DEF Handled, told
    <3>2. /\ Append(seen, 0) \in Seq(Nat) /\ MetLast(Append(seen, 0), s.id)
          /\ (MetAgain(Append(seen, 0)) <=> MetAgain(seen))
      BY MetOneMore DEF KeptAt, Identity
    <3>3. Identity(told, FALSE, Append(seen, 0))
      BY <2>4, <2>5, <3>2 DEF Identity
    <3>4. KeptAt(told, k + 1, Append(seen, 0))
      <4>1. ~Known(k + 1)
        BY <2>3, <2>8
      <4>2. Identity(told, Known(k + 1), Append(seen, 0))
        BY <3>3, <4>1 DEF Identity
      <4>3. told.capabilities.resync \in BOOLEAN /\ (told.capabilities.resync <=> Known(k + 1))
        BY <2>1, <2>4, <2>6, <2>8, <4>1
      <4> QED BY <2>2, <2>4, <4>2, <4>3 DEF KeptAt
    <3> QED BY <1>4, <2>8, <3>1, <3>4 DEF message
  <2> QED BY <2>6, <2>7, <2>8
<1>5. CASE message.op = "resync"
  <2> DEFINE o == observe_generation(s, s.id, message.about)
  <2>1. message.about = server.generation /\ Known(k)
    BY <1>1, <1>5 DEF Says, message, Known
  <2>2. Known(k + 1) /\ At(k + 1, "palette") = At(k, "palette")
    BY <1>2, <1>5, <2>1 DEF Known
  <2>3. s.id = server.id /\ s.generation = server.generation /\ server.generation \in Nat
        /\ s.changed \in BOOLEAN
    BY <2>1 DEF KeptAt, Identity
  <2>4. ~(message.about > s.generation)
    BY <2>1, <2>3
  <2>5. /\ DOMAIN o = SessionFields /\ o.palette = s.palette /\ o.states = s.states
        /\ o.id = s.id /\ o.generation = s.generation
        /\ o.closed = s.closed /\ o.capabilities = s.capabilities
    BY <1>3, <2>1, <2>3 DEF observe_generation, SessionFields
  <2>6. o.changed = s.changed
    <3>1. o.changed = (s.changed \/ (s.id # 0 /\ s.id = s.id /\ message.about > s.generation))
      BY <1>3 DEF observe_generation, SessionFields
    <3> QED BY <2>3, <2>4, <3>1
  <2> HIDE DEF o
  <2>7. end = [o EXCEPT !.states = [t \in Tokens |-> NoEra]]
    BY <1>5 DEF Handled, discard_drawing_state, o
  <2>8. /\ DOMAIN end = SessionFields /\ end.palette = s.palette
        /\ end.states = [t \in Tokens |-> NoEra]
        /\ end.id = s.id /\ end.generation = s.generation /\ end.changed = s.changed
        /\ end.closed = s.closed /\ end.capabilities = s.capabilities
    BY <2>5, <2>6, <2>7 DEF SessionFields
  <2> HIDE DEF end
  <2>9. Identity(end, Known(k + 1), seen)
    BY <2>1, <2>2, <2>8 DEF KeptAt, Identity
  <2>10. end.states \in [Tokens -> {NoEra, era(k + 1)}]
    BY <2>8
  <2>11. KeptAt(end, k + 1, seen)
    BY <2>1, <2>2, <2>8, <2>9, <2>10 DEF KeptAt
  <2> QED BY <1>5, <2>11 DEF end, message
<1>6. CASE message.op = "palette"
  <2>1. message.about = server.id
    BY <1>1, <1>6 DEF Says, message
  <2>2. At(k + 1, "palette") # {} /\ At(k + 1, "resync") = At(k, "resync")
        /\ At(k + 1, "hello_ack") = At(k, "hello_ack")
    BY <1>2, <1>6
  <2>3. end = [s EXCEPT !.palette = server.id]
    BY <1>6, <2>1 DEF Handled
  <2>4. /\ DOMAIN end = SessionFields /\ end.palette = server.id /\ end.states = s.states
        /\ end.id = s.id /\ end.generation = s.generation /\ end.changed = s.changed
        /\ end.closed = s.closed /\ end.capabilities = s.capabilities
    BY <1>3, <2>3 DEF SessionFields
  <2> HIDE DEF end
  <2>5. Identity(end, Known(k + 1), seen) /\ (Known(k + 1) <=> Known(k))
    BY <2>2, <2>4 DEF KeptAt, Identity, Known
  <2>6. KeptAt(end, k + 1, seen)
    BY <2>2, <2>4, <2>5 DEF KeptAt
  <2> QED BY <1>6, <2>6 DEF end, message
<1>7. CASE message.op \notin {"hello_ack", "resync", "palette"}
  <2>1. /\ At(k + 1, "palette") = At(k, "palette") /\ At(k + 1, "resync") = At(k, "resync")
        /\ At(k + 1, "hello_ack") = At(k, "hello_ack")
    BY <1>2, <1>7
  <2>2. Known(k + 1) <=> Known(k)
    BY <2>1 DEF Known
  <2>3. KeptAt(s, k + 1, seen)
    BY <2>1, <2>2 DEF KeptAt, Identity
  <2>4. CASE message.op = "state"
    <3> DEFINE t == message.about.token
    <3>1. t \in Tokens /\ message.about.era = era(k + 1)
      BY <1>1, <2>1, <2>4 DEF Says, message
    <3>2. end = [s EXCEPT !.states = [s.states EXCEPT ![t] = era(k + 1)]]
      BY <2>4, <3>1 DEF Handled
    <3>3. /\ DOMAIN end = SessionFields /\ end.palette = s.palette
          /\ end.states = [s.states EXCEPT ![t] = era(k + 1)]
          /\ end.id = s.id /\ end.generation = s.generation /\ end.changed = s.changed
          /\ end.closed = s.closed /\ end.capabilities = s.capabilities
      BY <1>3, <3>2 DEF SessionFields
    <3> HIDE DEF end
    <3>4. Identity(end, Known(k + 1), seen)
      BY <2>3, <3>3 DEF KeptAt, Identity
    <3>5. end.states \in [Tokens -> {NoEra, era(k + 1)}]
      <4>1. s.states \in [Tokens -> {NoEra, era(k + 1)}]
        BY <2>3 DEF KeptAt
      <4> HIDE DEF era, t
      <4> QED BY <3>1, <3>3, <4>1
    <3>6. KeptAt(end, k + 1, seen)
      BY <2>3, <3>3, <3>4, <3>5 DEF KeptAt
    <3> QED BY <1>7, <3>6 DEF end, message
  <2>5. CASE message.op = "close"
    <3>1. end = [s EXCEPT !.closed = TRUE]
      BY <2>5 DEF Handled
    <3>2. /\ DOMAIN end = SessionFields /\ end.palette = s.palette /\ end.states = s.states
          /\ end.id = s.id /\ end.generation = s.generation /\ end.changed = s.changed
          /\ end.closed = TRUE /\ end.capabilities = s.capabilities
      BY <1>3, <3>1 DEF SessionFields
    <3> HIDE DEF end
    <3>3. Identity(end, Known(k + 1), seen)
      BY <2>3, <3>2 DEF KeptAt, Identity
    <3>4. KeptAt(end, k + 1, seen)
      BY <2>3, <3>2, <3>3 DEF KeptAt
    <3> QED BY <1>7, <3>4 DEF end, message
  <2>6. CASE message.op \notin {"state", "close"}
    <3>1. end = s
      BY <1>7, <2>6 DEF Handled
    <3> QED BY <1>7, <2>3, <3>1 DEF message
  <2> QED BY <2>4, <2>5, <2>6
<1> QED BY <1>4, <1>5, <1>6, <1>7

\* What a message makes the client send: one message at most, and a reply to who waits.
LEMMA SendsAre ==
    ASSUME NEW message
    PROVE  /\ \/ Sends(message) = <<>>
              \/ \E x : Sends(message) = <<x>> /\ x.op \in {"get_palette", "reply"}
           /\ message.op \in {"query", "garbled_query"} =>
                \E x : Sends(message) = <<x>> /\ x.op = "reply" /\ x.about = message.about
<1>1. /\ Message("get_palette", 0).op = "get_palette"
      /\ Message("reply", message.about).op = "reply"
      /\ Message("reply", message.about).about = message.about
  BY DEF Message
<1> QED BY <1>1 DEF Sends, Reply, answer_after_failure

\* What is on its way to the server: what was, and what the handlers sent.
UpAt(u) ==
    /\ \E S : u \in Seq(S)
    /\ \A i \in 1..Len(u) : \/ u[i].op \in {"get_palette", "reply"}
                            \/ i \in 1..Len(upstream) /\ u[i] = upstream[i]

\* A message is handled: what is owed stays owed.
LEMMA HandledOwed ==
    ASSUME NEW k \in Nat, k < Len(sent), Len(sent) \in Nat, NEW u, UpAt(u), OwedAt(k, u)
    PROVE  UpAt(u \o Sends(sent[k + 1])) /\ OwedAt(k + 1, u \o Sends(sent[k + 1]))
<1> DEFINE message == sent[k + 1]
           more == u \o Sends(message)
<1>1. PICK S : u \in Seq(S)
  BY DEF UpAt
<1>2. Len(u) \in Nat
  BY <1>1
<1>3. CASE Sends(message) = <<>>
  <2>1. more = u
    BY <1>1, <1>3
  <2>2. message.op \notin {"query", "garbled_query"}
    <3>1. \A x : <<>> # <<x>>
      OBVIOUS
    <3> HIDE DEF message
    <3> QED BY <1>3, <3>1, SendsAre
  <2>3. \A i \in k + 1..Len(sent) : i = k + 1 \/ i \in k + 1 + 1..Len(sent)
    OBVIOUS
  <2> QED BY <2>1, <2>2, <2>3 DEF OwedAt
<1>4. ASSUME NEW x, Sends(message) = <<x>>, x.op \in {"get_palette", "reply"},
             message.op \in {"query", "garbled_query"} => x.op = "reply" /\ x.about = message.about
      PROVE  UpAt(more) /\ OwedAt(k + 1, more)
  <2>1. /\ more \in Seq(S \cup {x}) /\ Len(more) = Len(u) + 1 /\ more[Len(u) + 1] = x
        /\ \A i \in 1..Len(u) : more[i] = u[i]
    <3>1. u \in Seq(S \cup {x}) /\ <<x>> \in Seq(S \cup {x})
      BY <1>1
    <3>2. Len(<<x>>) = 1 /\ <<x>>[1] = x
      OBVIOUS
    <3> QED BY <1>2, <1>4, <3>1, <3>2
  <2>2. \A i \in 1..Len(u) + 1 : i \in 1..Len(u) \/ i = Len(u) + 1
    BY <1>2
  <2>3. Len(u) + 1 \in 1..Len(u) + 1 /\ \A i \in 1..Len(u) : i \in 1..Len(u) + 1
    BY <1>2
  <2> HIDE DEF more
  <2>4. UpAt(more)
    BY <1>4, <2>1, <2>2 DEF UpAt
  <2>5. \A i \in k + 1..Len(sent) : i = k + 1 \/ i \in k + 1 + 1..Len(sent)
    OBVIOUS
  <2>6. OwedAt(k + 1, more)
    <3> SUFFICES ASSUME NEW t \in waiting
                 PROVE  \/ \E i \in k + 1 + 1..Len(sent) :
                             sent[i].op \in {"query", "garbled_query"} /\ sent[i].about = t
                        \/ \E i \in 1..Len(more) : more[i].op = "reply" /\ more[i].about = t
      BY DEF OwedAt
    <3>1. CASE \E i \in 1..Len(u) : u[i].op = "reply" /\ u[i].about = t
      BY <2>1, <2>3, <3>1
    <3>2. CASE \E i \in k + 1..Len(sent) :
                 sent[i].op \in {"query", "garbled_query"} /\ sent[i].about = t
      <4>1. PICK i \in k + 1..Len(sent) :
                 sent[i].op \in {"query", "garbled_query"} /\ sent[i].about = t
        BY <3>2
      <4>2. CASE i = k + 1
        BY <1>4, <2>1, <2>3, <4>1, <4>2
      <4>3. CASE i \in k + 1 + 1..Len(sent)
        BY <4>1, <4>3
      <4> QED BY <2>5, <4>2, <4>3
    <3> QED BY <3>1, <3>2 DEF OwedAt
  <2> QED BY <2>4, <2>6
<1>5. \E x : /\ Sends(message) = <<x>> /\ x.op \in {"get_palette", "reply"}
             /\ message.op \in {"query", "garbled_query"} =>
                  x.op = "reply" /\ x.about = message.about
      \/ Sends(message) = <<>>
  <2>1. \A x, y : <<x>> = <<y>> => x = y
    OBVIOUS
  <2> HIDE DEF message
  <2> QED BY <2>1, SendsAre
<1> QED BY <1>3, <1>4, <1>5

\* The acknowledgements met, when k messages of this read have been handled.
SeenAt(k) ==
    IF At(k, "hello_ack") # {} /\ At(Len(handled), "hello_ack") = {}
    THEN Append(met, IF server.kind.resync THEN server.id ELSE 0) ELSE met

\* The end of a read's messages so far.
EndAt(end, k) ==
    KeptAt(end.session, k, SeenAt(k)) /\ OwedAt(k, end.upstream) /\ UpAt(end.upstream)

\* handle() of the next message keeps all of it.
LEMMA EndOneMore ==
    ASSUME SaysSo, NEW k \in Nat, k < Len(sent), Len(sent) \in Nat, Len(handled) \in Nat,
           Len(handled) <= k, NEW end, EndAt(end, k)
    PROVE  EndAt(handle(end, sent[k + 1]), k + 1)
<1> DEFINE message == sent[k + 1]
           next == handle(end, message)
<1>1. next.session = Handled(end.session, message)
      /\ next.upstream = end.upstream \o Sends(message)
  BY DEF handle
<1>2. UpAt(next.upstream) /\ OwedAt(k + 1, next.upstream)
  BY <1>1, HandledOwed DEF EndAt
<1>3. At(k + 1, "hello_ack") = IF message.op = "hello_ack" THEN At(k, "hello_ack") \cup {k + 1}
                               ELSE At(k, "hello_ack")
  BY OneMore
<1>4. message.op = "hello_ack" => At(k, "hello_ack") = {}
  <2>1. Says(k + 1) /\ k + 1 - 1 = k
    BY DEF SaysSo
  <2> QED BY <2>1 DEF Says
<1>5. At(Len(handled), "hello_ack") \subseteq At(k, "hello_ack")
  <2>1. \A i \in 1..Len(handled) : i \in 1..k
    OBVIOUS
  <2> QED BY <2>1 DEF At
<1>6. SeenAt(k + 1) = IF message.op = "hello_ack"
                      THEN Append(SeenAt(k), IF server.kind.resync THEN server.id ELSE 0)
                      ELSE SeenAt(k)
  <2> HIDE DEF message
  <2>1. CASE message.op = "hello_ack"
    <3>1. At(k, "hello_ack") = {} /\ At(Len(handled), "hello_ack") = {}
          /\ At(k + 1, "hello_ack") # {}
      BY <1>3, <1>4, <1>5, <2>1
    <3> QED BY <2>1, <3>1 DEF SeenAt
  <2>2. CASE message.op # "hello_ack"
    BY <1>3, <2>2 DEF SeenAt
  <2> QED BY <2>1, <2>2
<1>7. KeptAt(next.session, k + 1, SeenAt(k + 1))
  <2>1. KeptAt(end.session, k, SeenAt(k))
    BY DEF EndAt
  <2> QED BY <1>1, <1>6, <2>1, HandledKept
<1> HIDE DEF next
<1> QED BY <1>2, <1>7 DEF EndAt, next

\* A read's m messages, behind the h handled before; what each acknowledgement tells.
ReadFrom(messages, h, m) == messages = [k \in 1..m |-> sent[h + k]]
AckOf(k, x) ==
    At(k, "hello_ack") # {} => x = IF server.kind.resync THEN server.id ELSE 0
Acks(messages, x) == [k \in 1..Count(messages, "hello_ack") |-> x]

\* The acknowledgements among the messages of a read: one, if it is the first.
LEMMA AcksRead ==
    ASSUME SaysSo, NEW h \in Nat, h = Len(handled), NEW m \in Nat, Len(sent) \in Nat,
           h + m <= Len(sent), NEW messages, ReadFrom(messages, h, m),
           met \in Seq(Nat), NEW x, AckOf(h + m, x)
    PROVE  met \o Acks(messages, x) = SeenAt(h + m)
<1> DEFINE A == {i \in 1..m : messages[i].op = "hello_ack"}
<1>1. Count(messages, "hello_ack") = Cardinality(A)
  BY DEF Count, ReadFrom
<1>2. (\A i \in 1..m : messages[i].op = sent[h + i].op) /\ DOMAIN messages = 1..m
  BY DEF ReadFrom
<1>3. \A i \in 1..m : h + i \in 1..h + m /\ h + i \in 1..Len(sent)
  OBVIOUS
<1>4. \A i \in 1..h : i \in 1..h + m
  OBVIOUS
<1>5. CASE A = {}
  <2>1. Count(messages, "hello_ack") = 0
    BY <1>1, <1>5, FS_EmptySet
  <2>2. [k \in 1..0 |-> x] = <<>>
    OBVIOUS
  <2>3. met \o <<>> = met
    OBVIOUS
  <2>4. \A i \in 1..h + m : i \in 1..h \/ (i - h \in 1..m /\ h + (i - h) = i)
    OBVIOUS
  <2>5. At(h + m, "hello_ack") \subseteq At(h, "hello_ack")
    <3> SUFFICES ASSUME NEW i \in At(h + m, "hello_ack") PROVE i \in At(h, "hello_ack")
      OBVIOUS
    <3>1. i \in 1..h + m /\ sent[i].op = "hello_ack"
      BY DEF At
    <3>2. i \notin 1..h => FALSE
      <4> SUFFICES ASSUME i \notin 1..h PROVE FALSE
        OBVIOUS
      <4>1. i - h \in 1..m /\ h + (i - h) = i
        BY <2>4, <3>1
      <4>2. messages[i - h].op = "hello_ack"
        BY <1>2, <3>1, <4>1
      <4> QED BY <1>5, <4>1, <4>2
    <3> QED BY <3>1, <3>2 DEF At
  <2>6. SeenAt(h + m) = met
    BY <2>5 DEF SeenAt
  <2> QED BY <2>1, <2>2, <2>3, <2>6 DEF Acks
<1>6. CASE A # {}
  <2>1. PICK i \in A : TRUE
    BY <1>6
  <2>2. i \in 1..m /\ sent[h + i].op = "hello_ack" /\ h + i \in 1..Len(sent)
    BY <1>2, <1>3, <2>1
  <2>3. At(h + i - 1, "hello_ack") = {}
    BY <2>2 DEF SaysSo, Says
  <2>4. \A j \in 1..m : sent[h + j].op = "hello_ack" => ~(j < i)
    <3> SUFFICES ASSUME NEW j \in 1..m, sent[h + j].op = "hello_ack", j < i PROVE FALSE
      OBVIOUS
    <3>1. h + j \in 1..h + i - 1
      BY <2>2
    <3> QED BY <2>3, <3>1 DEF At
  <2>5. \A j \in 1..m : sent[h + j].op = "hello_ack" => ~(i < j)
    <3> SUFFICES ASSUME NEW j \in 1..m, sent[h + j].op = "hello_ack", i < j PROVE FALSE
      OBVIOUS
    <3>0. Says(h + j) /\ sent[h + j].op = "hello_ack"
      BY <1>3 DEF SaysSo
    <3>1. At(h + j - 1, "hello_ack") = {}
      BY <3>0 DEF Says
    <3>2. h + i \in 1..h + j - 1
      BY <2>2
    <3> QED BY <2>2, <3>1, <3>2 DEF At
  <2>6. A = {i}
    <3> SUFFICES ASSUME NEW j \in A PROVE j = i
      BY <2>1
    <3>1. j \in 1..m /\ sent[h + j].op = "hello_ack"
      BY <1>2
    <3>2. ~(j < i) /\ ~(i < j)
      BY <2>4, <2>5, <3>1
    <3> QED BY <2>2, <3>1, <3>2
  <2>7. Count(messages, "hello_ack") = 1
    BY <1>1, <2>6, FS_Singleton
  <2>8. h + i \in At(h + m, "hello_ack")
    BY <1>3, <2>2 DEF At
  <2>9. At(h, "hello_ack") = {}
    <3>1. \A j \in 1..h : j \in 1..h + i - 1
      BY <2>2
    <3> QED BY <2>3, <3>1 DEF At
  <2>10. SeenAt(h + m) = Append(met, x)
    BY <2>8, <2>9 DEF SeenAt, AckOf
  <2>11. [k \in 1..1 |-> x] = <<x>>
    OBVIOUS
  <2>12. met \o <<x>> = Append(met, x)
    OBVIOUS
  <2> QED BY <2>7, <2>10, <2>11, <2>12 DEF Acks
<1> QED BY <1>5, <1>6

\* A read leaves the session as the messages handled say.
LEMMA ReadsSession ==
    ASSUME SessionInv, StreamInv, Read, NEW m \in Nat, Hands(m)
    PROVE  SessionInv'
<1> DEFINE h == Len(handled)
           messages == [k \in 1..m |-> sent[h + k]]
           start == [session |-> session, upstream |-> upstream]
<1>1. /\ h \in Nat /\ Len(sent) \in Nat /\ h + m <= Len(sent) /\ handled' = Counting(h + m)
      /\ h + m \in Nat
  BY DEF StreamInv, Hands
<1>2. UNCHANGED <<connection, up, server, waiting, sent, budget>>
  BY DEF Read, serverVars
<1>3. /\ session' = HandledInTurn(start, messages).session
      /\ upstream' = HandledInTurn(start, messages).upstream
      /\ met' = met \o [k \in 1..Count(messages, "hello_ack") |->
                           IF session'.capabilities.resync THEN server.id ELSE 0]
  BY DEF Hands
<1>4. Len(messages) = m /\ \A k \in 1..m : messages[k] = sent[h + k]
  OBVIOUS
<1> HIDE DEF messages, start
<1>21. PICK f : InTurnTo(f, start, messages, m)
  BY <1>4, InTurn
<1>5. /\ f[0] = start /\ HandledInTurn(start, messages) = f[m]
      /\ \A k \in 1..m : f[k] = handle(f[k - 1], messages[k])
  BY <1>21 DEF InTurnTo
<1> HIDE DEF h
<1>6. EndAt(f[0], h + 0)
  <2>1. start.session = session /\ start.upstream = upstream /\ h + 0 = h
    BY <1>1 DEF start
  <2>2. SeenAt(h) = met
    BY DEF SeenAt, h
  <2>3. KeptAt(session, h, met) /\ OwedAt(h, upstream)
    BY DEF SessionInv, h
  <2>4. UpAt(upstream)
    BY DEF SessionInv, HeardOf, UpAt
  <2> QED BY <1>5, <2>1, <2>2, <2>3, <2>4 DEF EndAt
<1>7. ASSUME NEW k \in 1..m, EndAt(f[k - 1], h + (k - 1)) PROVE EndAt(f[k], h + k)
  <2>1. /\ h + (k - 1) \in Nat /\ h + (k - 1) < Len(sent) /\ h <= h + (k - 1)
        /\ h + (k - 1) + 1 = h + k
    BY <1>1
  <2>2. f[k] = handle(f[k - 1], sent[h + (k - 1) + 1])
    BY <1>4, <1>5, <2>1
  <2>3. SaysSo
    BY DEF SessionInv
  <2> QED BY <1>1, <1>7, <2>1, <2>2, <2>3, EndOneMore DEF h
<1>8. EndAt(f[m], h + m)
  <2> DEFINE Bad == {k \in 0..m : ~EndAt(f[k], h + k)}
  <2>1. Bad = {}
    <3> SUFFICES ASSUME Bad # {} PROVE FALSE
      OBVIOUS
    <3> DEFINE k == Min(Bad)
    <3>1. IsFiniteSet(Bad) /\ Bad \in SUBSET Int
      <4>1. IsFiniteSet(0..m) /\ Bad \subseteq 0..m
        BY FS_Interval
      <4> QED BY <4>1, FS_Subset
    <3>2. k \in Bad /\ \A e \in Bad : k <= e
      BY <3>1, FirstPlace
    <3> HIDE DEF k
    <3>3. k \in 0..m /\ ~EndAt(f[k], h + k)
      BY <3>2
    <3>4. k # 0
      BY <1>6, <3>3
    <3>5. k \in 1..m /\ k - 1 \in 0..m /\ ~(k <= k - 1)
      BY <3>3, <3>4
    <3>6. k - 1 \notin Bad
      BY <3>2, <3>5
    <3>7. EndAt(f[k - 1], h + (k - 1))
      BY <3>5, <3>6
    <3> QED BY <1>7, <3>3, <3>5, <3>7
  <2>2. m \in 0..m
    OBVIOUS
  <2> QED BY <2>1, <2>2
<1>9. session' = f[m].session /\ upstream' = f[m].upstream
  BY <1>3, <1>5
<1>10. KeptAt(session', h + m, SeenAt(h + m)) /\ OwedAt(h + m, upstream') /\ UpAt(upstream')
  BY <1>8, <1>9 DEF EndAt
<1>11. met' = SeenAt(h + m)
  <2> DEFINE x == IF session'.capabilities.resync THEN server.id ELSE 0
  <2>1. met' = met \o Acks(messages, x)
    BY <1>3 DEF Acks
  <2>2. met \in Seq(Nat)
    BY DEF SessionInv, KeptAt, Identity
  <2>3. AckOf(h + m, x)
    BY <1>10 DEF KeptAt, Known, AckOf
  <2>4. ReadFrom(messages, h, m)
    BY DEF messages, ReadFrom
  <2>5. SaysSo
    BY DEF SessionInv
  <2>6. h = Len(handled)
    BY DEF h
  <2>7. h \in Nat /\ Len(sent) \in Nat /\ h + m <= Len(sent)
    BY <1>1
  <2> HIDE DEF x
  <2>8. met \o Acks(messages, x) = SeenAt(h + m)
    BY <2>2, <2>3, <2>4, <2>5, <2>6, <2>7, AcksRead
  <2> QED BY <2>1, <2>8
<1>12. Len(handled') = h + m
  BY <1>1, Counted
<1>13. \A k \in Nat : \A op : At(k, op)' = At(k, op)
  BY <1>2 DEF At
<1>14. SaysSo'
  <2>1. \A i \in 1..Len(sent) : i - 1 \in Nat
    BY <1>1
  <2>2. \A i \in 1..Len(sent) : Says(i)'
    BY <1>2, <1>13, <2>1 DEF SessionInv, SaysSo, Says
  <2> QED BY <1>2, <2>2 DEF SessionInv, SaysSo
<1>15. KeptAt(session, Len(handled), met)'
  <2>1. KeptAt(session', h + m, met')
    BY <1>10, <1>11
  <2>2. \A op : At(Len(handled), op)' = At(h + m, op)
    BY <1>2, <1>12 DEF At
  <2>3. Known(Len(handled))' <=> Known(h + m)
    BY <1>2, <2>2 DEF Known
  <2> HIDE DEF Known
  <2>4. Identity(session, Known(Len(handled)), met)'
    BY <1>2, <2>1, <2>3 DEF KeptAt, Identity
  <2> QED BY <1>2, <2>1, <2>2, <2>3, <2>4 DEF KeptAt
<1>16. OwedAt(Len(handled), upstream)'
  BY <1>2, <1>10, <1>12 DEF OwedAt
<1>17. HeardOf'
  <2>1. \E S : upstream' \in Seq(S)
    BY <1>10 DEF UpAt
  <2>2. \A i \in 1..Len(upstream') : \/ upstream'[i].op \in {"get_palette", "reply"}
                                     \/ i \in 1..Len(upstream) /\ upstream'[i] = upstream[i]
    BY <1>10 DEF UpAt
  <2>3. At(Len(sent), "hello_ack")' = At(Len(sent), "hello_ack")
    BY <1>1, <1>2, <1>13
  <2>4. Known(h) => Known(Len(handled))'
    <3>1. At(h, "hello_ack") \subseteq At(h + m, "hello_ack")
      <4>1. \A i \in 1..h : i \in 1..h + m
        BY <1>1
      <4> QED BY <4>1 DEF At
    <3> QED BY <1>1, <1>2, <1>12, <1>13, <3>1 DEF Known
  <2>5. ASSUME NEW i \in 1..Len(upstream'), upstream'[i].op = "hello"
        PROVE  /\ At(Len(sent), "hello_ack")' = {}
               /\ \A j \in 1..Len(upstream') : upstream'[j].op = "hello" => j = i
    BY <2>2, <2>3, <2>5 DEF SessionInv, HeardOf
  <2>6. ASSUME NEW i \in 1..Len(upstream'), upstream'[i].op = "resync"
        PROVE  Known(Len(handled))'
    BY <2>2, <2>4, <2>6 DEF SessionInv, HeardOf, h
  <2> QED BY <2>1, <2>5, <2>6 DEF HeardOf
<1> QED
  BY <1>2, <1>14, <1>15, <1>16, <1>17 DEF SessionInv, BudgetTyped

\* The server stays who it is, and says one thing more, or nothing.
SameServer ==
    /\ connection' = connection /\ DOMAIN server' = ServerFields
    /\ server'.kind = server.kind /\ server'.id = server.id
    /\ server'.generation = server.generation
\* Nothing is said, or one thing that is so.
Said ==
    \/ sent' = sent
    \/ /\ \E message : sent' = Append(sent, message)
       /\ Says(Len(sent))'

\* What was said before is still so.
LEMMA SaysStill ==
    ASSUME SaysSo, SameServer, Said, \E S : sent \in Seq(S)
    PROVE  /\ SaysSo'
           /\ \A k \in 0..Len(sent) : \A op : At(k, op)' = At(k, op)
           /\ Len(sent') >= Len(sent) /\ Len(sent') \in Nat
           /\ \A i \in 1..Len(sent) : i \in 1..Len(sent') /\ sent'[i] = sent[i]
<1>1. PICK S : sent \in Seq(S)
  OBVIOUS
<1>2. Len(sent) \in Nat /\ Len(sent') >= Len(sent) /\ Len(sent') \in Nat
      /\ (\A i \in 1..Len(sent) : sent'[i] = sent[i])
      /\ (Len(sent') = Len(sent) \/ (Len(sent') = Len(sent) + 1 /\ Says(Len(sent))'))
  <2>1. CASE sent' = sent
    BY <1>1, <2>1
  <2>2. CASE \E message : sent' = Append(sent, message) /\ Says(Len(sent))'
    <3>1. PICK message : sent' = Append(sent, message)
      BY <2>2
    <3>2. sent \in Seq(S \cup {message})
      BY <1>1
    <3> QED BY <2>2, <3>1, <3>2
  <2> QED BY <2>1, <2>2 DEF Said
<1>3. \A k \in 0..Len(sent) : \A i \in 1..k : i \in 1..Len(sent)
  BY <1>2
<1>4. \A k \in 0..Len(sent) : \A op : At(k, op)' = At(k, op)
  BY <1>2, <1>3 DEF At
<1>5. \A i \in 1..Len(sent) : Says(i)'
  <2> SUFFICES ASSUME NEW i \in 1..Len(sent) PROVE Says(i)'
    OBVIOUS
  <2>1. Says(i) /\ sent'[i] = sent[i] /\ i - 1 \in 0..Len(sent)
    BY <1>2 DEF SaysSo
  <2>2. \A op : At(i - 1, op)' = At(i - 1, op)
    BY <1>4, <2>1
  <2> QED BY <2>1, <2>2 DEF SameServer, Says
<1>6. \A i \in 1..Len(sent') : i \in 1..Len(sent) \/ (i = Len(sent') /\ Says(i)')
  <2> SUFFICES ASSUME NEW i \in 1..Len(sent'), i \notin 1..Len(sent)
               PROVE  i = Len(sent') /\ Says(i)'
    OBVIOUS
  <2>1. i = Len(sent') /\ Says(Len(sent))'
    BY <1>2
  <2> QED BY <2>1 DEF Says, At
<1>7. \A i \in 1..Len(sent') : Says(i)'
  BY <1>5, <1>6
<1>8. SaysSo'
  BY <1>7 DEF SaysSo, SameServer
<1>9. \A i \in 1..Len(sent) : i \in 1..Len(sent')
  BY <1>2
<1> QED BY <1>2, <1>4, <1>8, <1>9

\* Nobody hears anything.
Unheard == UNCHANGED <<session, handled, met>>

\* The session stays as it is while the server goes on.
LEMMA KeptStill ==
    ASSUME SessionInv, StreamInv, SameServer, Said, Unheard
    PROVE  /\ SaysSo' /\ KeptAt(session, Len(handled), met)'
           /\ (Known(Len(handled))' <=> Known(Len(handled)))
<1>1. \E S : sent \in Seq(S)
  BY DEF StreamInv
<1>2. SaysSo' /\ \A k \in 0..Len(sent) : \A op : At(k, op)' = At(k, op)
  BY <1>1, SaysStill DEF SessionInv
<1>3. Len(handled) \in 0..Len(sent)
  <2>1. Len(sent) \in Nat
    BY <1>1
  <2> QED BY <2>1 DEF StreamInv
<1>4. \A op : At(Len(handled), op)' = At(Len(handled), op)
  <2>1. \A op : {i \in 1..Len(handled) : sent'[i].op = op} = At(Len(handled), op)
    <3>1. PICK n \in 0..Len(sent) : n = Len(handled)
      BY <1>3
    <3>2. \A op : At(n, op)' = At(n, op)
      BY <1>2
    <3> QED BY <3>1, <3>2 DEF At
  <2> QED BY <2>1 DEF At, Unheard
<1>5. Known(Len(handled))' <=> Known(Len(handled))
  BY <1>4 DEF Known, SameServer
<1>6. KeptAt(session, Len(handled), met)'
  <2>1. KeptAt(session, Len(handled), met)
    BY DEF SessionInv
  <2>2. Identity(session, Known(Len(handled)), met)'
    <3> HIDE DEF Known
    <3> QED BY <1>5, <2>1 DEF KeptAt, Identity, SameServer, Unheard
  <2> HIDE DEF Known
  <2> QED BY <1>4, <1>5, <2>1, <2>2 DEF KeptAt, SameServer, Unheard
<1> QED BY <1>2, <1>5, <1>6

\* Nothing is said.
LEMMA StillHeard ==
    ASSUME SessionInv, StreamInv, SameServer, UNCHANGED sent, Unheard,
           budget' = budget \/ BudgetTyped',
           \/ UNCHANGED <<upstream, waiting>>
           \/ upstream' = <<>> /\ waiting' = {}
    PROVE  SessionInv'
<1>1. /\ SaysSo' /\ KeptAt(session, Len(handled), met)'
      /\ (Known(Len(handled))' <=> Known(Len(handled)))
  BY KeptStill DEF Said
<1>2. At(Len(sent), "hello_ack")' = At(Len(sent), "hello_ack")
  BY DEF At
<1>3. CASE UNCHANGED <<upstream, waiting>>
  <2>1. HeardOf'
    BY <1>1, <1>2, <1>3 DEF SessionInv, HeardOf
  <2>2. OwedAt(Len(handled), upstream)'
    BY <1>3 DEF SessionInv, OwedAt, Unheard
  <2> QED BY <1>1, <1>3, <2>1, <2>2 DEF SessionInv, BudgetTyped
<1>4. CASE upstream' = <<>> /\ waiting' = {}
  <2>1. HeardOf'
    <3>1. <<>> \in Seq({}) /\ 1..Len(<<>>) = {}
      OBVIOUS
    <3> QED BY <1>4, <3>1 DEF HeardOf
  <2>2. OwedAt(Len(handled), upstream)'
    BY <1>4 DEF OwedAt
  <2> QED BY <1>1, <1>4, <2>1, <2>2 DEF SessionInv, BudgetTyped
<1> QED BY <1>3, <1>4

\* A message is said of which nobody knows yet.
LEMMA SaidKeeps ==
    ASSUME SessionInv, StreamInv, SameServer, Unheard, UNCHANGED budget,
           NEW message, sent' = Append(sent, message), Says(Len(sent))',
           \/ message.op # "hello_ack"
           \/ \A i \in 1..Len(upstream') : upstream'[i].op # "hello",
           \/ upstream' = upstream
           \/ upstream # <<>> /\ upstream' = Tail(upstream) /\ upstream[1].op # "reply",
           waiting' \subseteq Tokens,
           \A t \in waiting' : t \in waiting \/ (/\ message.op \in {"query", "garbled_query"}
                                                 /\ message.about = t)
    PROVE  SessionInv'
<1>1. /\ SaysSo' /\ KeptAt(session, Len(handled), met)'
      /\ (Known(Len(handled))' <=> Known(Len(handled)))
  BY KeptStill DEF Said
<1>2. PICK S : sent \in Seq(S)
  BY DEF StreamInv
<1>3. PICK U : upstream \in Seq(U)
  BY DEF SessionInv, HeardOf
<1>4. /\ Len(sent') = Len(sent) + 1 /\ Len(sent) \in Nat /\ sent'[Len(sent) + 1] = message
      /\ \A i \in 1..Len(sent) : sent'[i] = sent[i]
  <2>1. sent \in Seq(S \cup {message})
    BY <1>2
  <2> QED BY <2>1
<1>5. Len(handled) \in Nat /\ Len(handled) <= Len(sent) /\ handled' = handled
  BY DEF StreamInv, Unheard
<1>6. \A i \in 1..Len(upstream') : \E j \in 1..Len(upstream) : upstream'[i] = upstream[j]
  BY <1>3
<1>7. upstream' \in Seq(U)
  <2>1. CASE upstream # <<>> /\ upstream' = Tail(upstream)
    BY <1>3, <2>1
  <2> QED BY <1>3, <2>1
<1>8. message.op # "hello_ack" => At(Len(sent), "hello_ack")' = At(Len(sent), "hello_ack")
  <2>1. 1..Len(sent') = (1..Len(sent)) \cup {Len(sent) + 1}
    BY <1>4
  <2> QED BY <1>4, <2>1 DEF At
<1>9. HeardOf'
  <2>1. ASSUME NEW i \in 1..Len(upstream'), upstream'[i].op = "hello"
        PROVE  /\ At(Len(sent), "hello_ack")' = {}
               /\ \A j \in 1..Len(upstream') : upstream'[j].op = "hello" => j = i
    <3>1. message.op # "hello_ack"
      BY <2>1
    <3>2. CASE upstream' = upstream
      BY <1>8, <2>1, <3>1, <3>2 DEF SessionInv, HeardOf
    <3>3. CASE upstream # <<>> /\ upstream' = Tail(upstream)
      <4>1. /\ Len(upstream') = Len(upstream) - 1 /\ Len(upstream) \in Nat
            /\ \A j \in 1..Len(upstream') : upstream'[j] = upstream[j + 1]
        BY <1>3, <3>3
      <4>2. \A j \in 1..Len(upstream') : j + 1 \in 1..Len(upstream)
        BY <4>1
      <4>3. At(Len(sent), "hello_ack") = {}
        BY <2>1, <4>1, <4>2 DEF SessionInv, HeardOf
      <4>4. \A j \in 1..Len(upstream') : upstream'[j].op = "hello" => j + 1 = i + 1
        BY <2>1, <4>1, <4>2 DEF SessionInv, HeardOf
      <4> QED BY <1>8, <3>1, <4>1, <4>3, <4>4
    <3> QED BY <3>2, <3>3
  <2>2. ASSUME NEW i \in 1..Len(upstream'), upstream'[i].op = "resync"
        PROVE  Known(Len(handled))'
    BY <1>1, <1>6, <2>2 DEF SessionInv, HeardOf
  <2> QED BY <1>7, <2>1, <2>2 DEF HeardOf
<1>10. OwedAt(Len(handled), upstream)'
  <2> SUFFICES ASSUME NEW t \in waiting'
               PROVE  \/ \E i \in Len(handled) + 1..Len(sent') :
                           sent'[i].op \in {"query", "garbled_query"} /\ sent'[i].about = t
                      \/ \E i \in 1..Len(upstream') :
                           upstream'[i].op = "reply" /\ upstream'[i].about = t
    BY <1>5 DEF OwedAt
  <2>1. CASE message.op \in {"query", "garbled_query"} /\ message.about = t
    <3>1. Len(sent) + 1 \in Len(handled) + 1..Len(sent')
      BY <1>4, <1>5
    <3> QED BY <1>4, <2>1, <3>1
  <2>2. CASE \E i \in Len(handled) + 1..Len(sent) :
               sent[i].op \in {"query", "garbled_query"} /\ sent[i].about = t
    <3>1. PICK i \in Len(handled) + 1..Len(sent) :
               sent[i].op \in {"query", "garbled_query"} /\ sent[i].about = t
      BY <2>2
    <3>2. i \in 1..Len(sent) /\ i \in Len(handled) + 1..Len(sent')
      BY <1>4, <1>5
    <3> QED BY <1>4, <3>1, <3>2
  <2>3. CASE \E i \in 1..Len(upstream) : upstream[i].op = "reply" /\ upstream[i].about = t
    <3>1. PICK i \in 1..Len(upstream) : upstream[i].op = "reply" /\ upstream[i].about = t
      BY <2>3
    <3>2. CASE upstream' = upstream
      BY <3>1, <3>2
    <3>3. CASE upstream # <<>> /\ upstream' = Tail(upstream) /\ upstream[1].op # "reply"
      <4>1. i # 1 /\ i \in Nat /\ Len(upstream) \in Nat
        BY <1>3, <3>1, <3>3
      <4>2. i - 1 \in 1..Len(upstream) - 1 /\ (i - 1) + 1 = i
        BY <4>1
      <4>3. /\ Len(upstream') = Len(upstream) - 1
            /\ \A j \in 1..Len(upstream) - 1 : upstream'[j] = upstream[j + 1]
        BY <1>3, <3>3
      <4> QED BY <3>1, <4>2, <4>3
    <3> QED BY <3>2, <3>3
  <2>4. t \in waiting => OwedAt(Len(handled), upstream)
    BY DEF SessionInv
  <2> QED BY <2>1, <2>2, <2>3, <2>4 DEF OwedAt
<1> QED BY <1>1, <1>9, <1>10 DEF SessionInv, BudgetTyped

\* What the server writes is said.
LEMMA WritesSay ==
    ASSUME SessionInv, StreamInv, UNCHANGED connection,
           NEW s, DOMAIN s = ServerFields, s.kind = server.kind, s.id = server.id,
           s.generation = server.generation, NEW message, Written(s, message)
    PROVE  SameServer /\ sent' = Append(sent, message)
<1>1. server' = s \/ server' = [s EXCEPT !.queue = s.queue \o Frame(message.op, Len(sent'))]
  BY DEF Written
<1>2. DOMAIN server' = ServerFields /\ server'.kind = s.kind /\ server'.id = s.id
      /\ server'.generation = s.generation
  BY <1>1 DEF ServerFields
<1>3. sent' = Append(sent, message)
  BY DEF Written
<1> QED BY <1>2, <1>3 DEF SameServer

\* The place of a message that is said.
LEMMA SaidLast ==
    ASSUME StreamInv, NEW message, sent' = Append(sent, message)
    PROVE  /\ Len(sent') = Len(sent) + 1 /\ Len(sent) \in Nat /\ sent'[Len(sent')] = message
           /\ \A op : At(Len(sent) - 1, op)' = At(Len(sent), op)
<1>1. PICK S : sent \in Seq(S)
  BY DEF StreamInv
<1>2. sent \in Seq(S \cup {message})
  BY <1>1
<1>3. /\ Len(sent') = Len(sent) + 1 /\ Len(sent) \in Nat /\ sent'[Len(sent')] = message
      /\ \A i \in 1..Len(sent) : sent'[i] = sent[i]
  BY <1>2
<1>4. \A op : At(Len(sent) - 1, op)' = At(Len(sent), op)
  <2>1. Len(sent') - 1 = Len(sent)
    BY <1>3
  <2> QED BY <1>3, <2>1 DEF At
<1> QED BY <1>3, <1>4

\* A message of the client's is heard, and nothing is said.
LEMMA JustHeard ==
    ASSUME SessionInv, StreamInv, SameServer, UNCHANGED <<sent, budget>>, Unheard,
           upstream # <<>>, upstream' = Tail(upstream), waiting' \subseteq waiting,
           upstream[1].op = "reply" => upstream[1].about \notin waiting'
    PROVE  SessionInv'
<1>1. /\ SaysSo' /\ KeptAt(session, Len(handled), met)'
      /\ (Known(Len(handled))' <=> Known(Len(handled)))
  BY KeptStill DEF Said
<1>2. At(Len(sent), "hello_ack")' = At(Len(sent), "hello_ack")
  BY DEF At
<1>3. PICK U : upstream \in Seq(U)
  BY DEF SessionInv, HeardOf
<1>4. /\ upstream' \in Seq(U) /\ Len(upstream') = Len(upstream) - 1 /\ Len(upstream) \in Nat
      /\ \A j \in 1..Len(upstream') : upstream'[j] = upstream[j + 1]
  BY <1>3
<1>5. \A j \in 1..Len(upstream') : j + 1 \in 1..Len(upstream)
  BY <1>4
<1>6. HeardOf'
  <2>1. ASSUME NEW i \in 1..Len(upstream'), upstream'[i].op = "hello"
        PROVE  /\ At(Len(sent), "hello_ack")' = {}
               /\ \A j \in 1..Len(upstream') : upstream'[j].op = "hello" => j = i
    <3>1. At(Len(sent), "hello_ack") = {}
      BY <1>4, <1>5, <2>1 DEF SessionInv, HeardOf
    <3>2. \A j \in 1..Len(upstream') : upstream'[j].op = "hello" => j + 1 = i + 1
      BY <1>4, <1>5, <2>1 DEF SessionInv, HeardOf
    <3> QED BY <1>2, <1>4, <3>1, <3>2
  <2>2. ASSUME NEW i \in 1..Len(upstream'), upstream'[i].op = "resync"
        PROVE  Known(Len(handled))'
    BY <1>1, <1>4, <1>5, <2>2 DEF SessionInv, HeardOf
  <2> QED BY <1>4, <2>1, <2>2 DEF HeardOf
<1>7. OwedAt(Len(handled), upstream)'
  <2> SUFFICES ASSUME NEW t \in waiting'
               PROVE  \/ \E i \in Len(handled) + 1..Len(sent) :
                           sent[i].op \in {"query", "garbled_query"} /\ sent[i].about = t
                      \/ \E i \in 1..Len(upstream') :
                           upstream'[i].op = "reply" /\ upstream'[i].about = t
    BY DEF OwedAt, Unheard
  <2>1. ASSUME NEW i \in 1..Len(upstream), upstream[i].op = "reply", upstream[i].about = t
        PROVE  \E j \in 1..Len(upstream') : upstream'[j].op = "reply" /\ upstream'[j].about = t
    <3>1. i # 1
      BY <2>1
    <3>2. i - 1 \in 1..Len(upstream') /\ (i - 1) + 1 = i
      BY <1>4, <3>1
    <3>3. upstream'[i - 1] = upstream[i]
      BY <1>4, <3>2
    <3> QED BY <2>1, <3>2, <3>3
  <2> QED BY <2>1 DEF SessionInv, OwedAt
<1> QED BY <1>1, <1>6, <1>7 DEF SessionInv, BudgetTyped

\* Session::reset() and start(): what is kept of the last connection is its identity.
LEMMA ConnectsSession == ASSUME SessionInv, StreamInv, Connect PROVE SessionInv'
<1>1. PICK offer \in budget.offers, kind \in budget.servers, same \in BOOLEAN :
        server' = [kind |-> kind, zstd |-> kind.zstd /\ offer, segmenting |-> FALSE,
                   opened |-> FALSE, closing |-> FALSE, acked |-> FALSE,
                   queue |-> <<>>,
                   id |-> IF same THEN server.id ELSE server.id + 1,
                   generation |-> IF same THEN server.generation + 2 ELSE 1]
  BY DEF Connect
<1>2. /\ connection' = connection + 1 /\ session' = reset(session) /\ met' = met
      /\ upstream' = <<Message("init", 0), Message("hello", 0)>>
      /\ sent' = <<>> /\ handled' = <<>> /\ waiting' = {}
      /\ budget' = [budget EXCEPT !.connections = budget.connections - 1]
      /\ budget.connections > 0
  BY DEF Connect
<1>3. budget \in [servers : SUBSET Kinds, offers : SUBSET BOOLEAN, connections : Nat,
                  draws : Nat, repaints : Nat, cuts : Nat]
  BY DEF SessionInv, BudgetTyped
<1>4. BudgetTyped'
  <2>1. budget.connections - 1 \in Nat
    BY <1>2, <1>3
  <2> QED BY <1>2, <1>3, <2>1 DEF BudgetTyped
<1>5. kind.resync \in BOOLEAN
  BY <1>3 DEF Kinds
<1>6. /\ DOMAIN server' = ServerFields /\ server'.kind = kind
      /\ server'.id = (IF same THEN server.id ELSE server.id + 1)
      /\ server'.generation = (IF same THEN server.generation + 2 ELSE 1)
  BY <1>1 DEF ServerFields
<1>7. server.id \in Nat /\ server.id # 0 /\ server.generation \in Nat /\ connection \in Nat
  BY DEF SessionInv, SaysSo
<1>8. /\ server'.id \in Nat /\ server'.id # 0 /\ server'.generation \in Nat
      /\ server.id <= server'.id
      /\ server'.id = server.id => server.generation < server'.generation
  BY <1>6, <1>7
<1>9. Len(sent') = 0 /\ Len(handled') = 0
  BY <1>2
<1>10. SaysSo'
  <2>1. connection' \in Nat
    BY <1>2, <1>7
  <2>2. server'.kind.resync \in BOOLEAN
    BY <1>5, <1>6
  <2>3. \A i \in 1..Len(sent') : FALSE
    BY <1>9
  <2> QED BY <1>6, <1>8, <2>1, <2>2, <2>3 DEF SaysSo
<1>11. \A op : At(Len(handled), op)' = {} /\ At(Len(sent), op)' = {}
  BY <1>9 DEF At
<1>12. ~Known(Len(handled))'
  BY <1>11 DEF Known
<1>13. HeardOf'
  <2>1. /\ Len(upstream') = 2 /\ upstream'[1].op = "init" /\ upstream'[2].op = "hello"
        /\ upstream' \in Seq({Message("init", 0), Message("hello", 0)})
    BY <1>2, MessageOps
  <2>2. \A i \in 1..2 : i = 1 \/ i = 2
    OBVIOUS
  <2> QED BY <1>11, <2>1, <2>2 DEF HeardOf
<1>14. DOMAIN session = SessionFields
  BY DEF SessionInv, KeptAt
<1>15. /\ DOMAIN session' = SessionFields /\ session'.states = [t \in Tokens |-> NoEra]
       /\ session'.palette = 0 /\ session'.capabilities = NoCapabilities
       /\ session'.closed = FALSE /\ session'.id = session.id
       /\ session'.generation = session.generation /\ session'.changed = session.changed
  BY <1>2, <1>14 DEF reset, discard_drawing_state, SessionFields
<1>16. Identity(session, FALSE, met)'
  <2>1. Identity(session, Known(Len(handled)), met)
    BY DEF SessionInv, KeptAt
  <2>2. /\ session.id \in Nat /\ session.generation \in Nat /\ session.id <= server.id
        /\ session.id = server.id => session.generation <= server.generation
    BY <1>7, <2>1 DEF Identity
  <2>3. /\ session'.id <= server'.id
        /\ session'.id = server'.id => session'.generation < server'.generation
    BY <1>7, <1>8, <1>15, <2>2
  <2> QED BY <1>2, <1>15, <2>1, <2>2, <2>3 DEF Identity
<1>17. KeptAt(session, Len(handled), met)'
  <2>1. session'.states
          \in [Tokens -> {NoEra, <<connection', Cardinality(At(Len(handled), "resync")')>>}]
    BY <1>15
  <2>2. session'.capabilities.resync = FALSE
    BY <1>15 DEF NoCapabilities
  <2>3. Identity(session, Known(Len(handled)), met)'
    BY <1>12, <1>16 DEF Identity
  <2> HIDE DEF Known
  <2> QED BY <1>11, <1>12, <1>15, <2>1, <2>2, <2>3 DEF KeptAt
<1>18. OwedAt(Len(handled), upstream)'
  BY <1>2 DEF OwedAt
<1> QED BY <1>2, <1>4, <1>10, <1>13, <1>17, <1>18 DEF SessionInv

\* Where an era begins.
LEMMA EraAt ==
    ASSUME StreamInv
    PROVE  Era(sent) = <<connection, Cardinality(At(Len(sent), "resync"))>>
<1>1. DOMAIN sent = 1..Len(sent)
  BY DEF StreamInv
<1> QED BY <1>1 DEF Era, Count, At

\* A drawing engine states in the era of its message, or asks and waits.
LEMMA DrawsSession == ASSUME SessionInv, StreamInv, ServerDraws PROVE SessionInv'
<1>1. UNCHANGED <<connection, upstream, budget>> /\ Unheard
  BY DEF ServerDraws, clientVars, Unheard
<1>2. DOMAIN server = ServerFields
  BY DEF SessionInv, SaysSo
<1>3. PICK t \in Tokens \ waiting :
         \/ /\ Written(server, Message("state", [token |-> t, era |-> Era(sent)]))
            /\ UNCHANGED waiting
         \/ \E op \in {"query", "garbled_query"} :
              /\ Written(server, Message(op, t))
              /\ waiting' = waiting \cup {t}
  BY DEF ServerDraws
<1>4. waiting \subseteq Tokens
  BY DEF SessionInv
<1>5. CASE /\ Written(server, Message("state", [token |-> t, era |-> Era(sent)]))
           /\ UNCHANGED waiting
  <2> DEFINE m == Message("state", [token |-> t, era |-> Era(sent)])
  <2>1. SameServer /\ sent' = Append(sent, m)
    BY <1>1, <1>2, <1>5, WritesSay
  <2>2. m.op = "state" /\ m.about.token = t /\ m.about.era = Era(sent)
    BY DEF Message
  <2> HIDE DEF m
  <2>3. sent'[Len(sent')] = m /\ At(Len(sent) - 1, "resync")' = At(Len(sent), "resync")
    BY <2>1, SaidLast
  <2>4. Says(Len(sent))'
    BY <1>1, <2>2, <2>3, EraAt DEF Says, Ops
  <2> QED BY <1>1, <1>4, <1>5, <2>1, <2>2, <2>4, SaidKeeps
<1>6. ASSUME NEW op \in {"query", "garbled_query"}, Written(server, Message(op, t)),
             waiting' = waiting \cup {t}
      PROVE  SessionInv'
  <2> DEFINE m == Message(op, t)
  <2>1. SameServer /\ sent' = Append(sent, m)
    BY <1>1, <1>2, <1>6, WritesSay
  <2>2. m.op = op /\ m.about = t
    BY DEF Message
  <2> HIDE DEF m
  <2>3. sent'[Len(sent')] = m
    BY <2>1, SaidLast
  <2>4. Says(Len(sent))'
    BY <2>2, <2>3 DEF Says, Ops
  <2>5. waiting' \subseteq Tokens /\ \A u \in waiting' : u \in waiting \/ u = t
    BY <1>4, <1>6
  <2> QED BY <1>1, <2>1, <2>2, <2>4, <2>5, SaidKeeps
<1> QED BY <1>3, <1>5, <1>6

\* RP_CLOSE_CONNECTION says nothing of the session.
LEMMA ClosesSession == ASSUME SessionInv, StreamInv, ServerCloses PROVE SessionInv'
<1>1. UNCHANGED <<connection, upstream, budget, waiting>> /\ Unheard
  BY DEF ServerCloses, clientVars, Unheard
<1> DEFINE s == [server EXCEPT !.closing = TRUE]
           m == Message("close", 0)
<1>2. Written(s, m)
  BY DEF ServerCloses
<1>3. /\ DOMAIN s = ServerFields /\ s.kind = server.kind /\ s.id = server.id
      /\ s.generation = server.generation
  BY DEF SessionInv, SaysSo, ServerFields
<1> HIDE DEF s
<1>4. SameServer /\ sent' = Append(sent, m)
  BY <1>1, <1>2, <1>3, WritesSay
<1>5. m.op = "close"
  BY DEF Message
<1> HIDE DEF m
<1>6. sent'[Len(sent')] = m
  BY <1>4, SaidLast
<1>7. Says(Len(sent))'
  BY <1>5, <1>6 DEF Says, Ops
<1>8. waiting' \subseteq Tokens
  BY <1>1 DEF SessionInv
<1> QED BY <1>1, <1>4, <1>5, <1>7, <1>8, SaidKeeps

\* The client's message is heard and answered with one that says so.
LEMMA Answers ==
    ASSUME SessionInv, StreamInv, UNCHANGED <<connection, budget, waiting>>, Unheard,
           upstream # <<>>, upstream' = Tail(upstream), upstream[1].op # "reply",
           NEW m, m.op # "hello_ack", Written(server, m),
           sent' = Append(sent, m) => Says(Len(sent))'
    PROVE  SessionInv'
<1>1. DOMAIN server = ServerFields /\ waiting \subseteq Tokens
  BY DEF SessionInv, SaysSo
<1>2. SameServer /\ sent' = Append(sent, m)
  BY <1>1, WritesSay
<1>3. waiting' \subseteq Tokens /\ \A t \in waiting' : t \in waiting
  BY <1>1
<1> QED BY <1>2, <1>3, SaidKeeps

\* The server's answers: one acknowledgement, its own palette, its own generation.
LEMMA HearsSession == ASSUME SessionInv, StreamInv, ServerHears PROVE SessionInv'
<1> DEFINE message == Head(upstream)
<1>1. UNCHANGED <<connection, budget>> /\ Unheard /\ upstream # <<>> /\ upstream' = Tail(upstream)
  BY DEF ServerHears, clientVars, Unheard
<1>2. DOMAIN server = ServerFields /\ waiting \subseteq Tokens
  BY DEF SessionInv, SaysSo
<1>3. message = upstream[1] /\ 1 \in 1..Len(upstream)
  BY <1>1 DEF SessionInv, HeardOf
<1> HIDE DEF message
<1>4. CASE message.op = "init" /\ Written(server, Message("init", 0)) /\ UNCHANGED waiting
  <2> DEFINE m == Message("init", 0)
  <2>1. m.op = "init"
    BY DEF Message
  <2>2. Written(server, m)
    BY <1>4
  <2> HIDE DEF m
  <2>3. ASSUME sent' = Append(sent, m) PROVE Says(Len(sent))'
    <3>1. sent'[Len(sent')] = m
      BY <2>3, SaidLast
    <3> QED BY <2>1, <3>1 DEF Says, Ops
  <2>4. upstream[1].op # "reply" /\ m.op # "hello_ack"
    BY <1>3, <1>4, <2>1
  <2> QED BY <1>1, <1>4, <2>2, <2>3, <2>4, Answers
<1>5. CASE /\ message.op = "get_palette" /\ Written(server, Message("palette", server.id))
           /\ UNCHANGED waiting
  <2> DEFINE m == Message("palette", server.id)
  <2>1. m.op = "palette" /\ m.about = server.id
    BY DEF Message
  <2>2. Written(server, m)
    BY <1>5
  <2> HIDE DEF m
  <2>3. ASSUME sent' = Append(sent, m) PROVE Says(Len(sent))'
    <3>1. sent'[Len(sent')] = m
      BY <2>3, SaidLast
    <3>2. SameServer
      BY <1>1, <1>2, <2>2, WritesSay
    <3> QED BY <2>1, <3>1, <3>2 DEF Says, Ops, SameServer
  <2>4. upstream[1].op # "reply" /\ m.op # "hello_ack"
    BY <1>3, <1>5, <2>1
  <2> QED BY <1>1, <1>5, <2>2, <2>3, <2>4, Answers
<1>6. CASE /\ message.op = "resync" /\ Written(server, Message("resync", server.generation))
           /\ UNCHANGED waiting
  <2> DEFINE m == Message("resync", server.generation)
  <2>1. m.op = "resync" /\ m.about = server.generation
    BY DEF Message
  <2>2. Written(server, m)
    BY <1>6
  <2> HIDE DEF m
  <2>3. ASSUME sent' = Append(sent, m) PROVE Says(Len(sent))'
    <3>1. /\ sent'[Len(sent')] = m
          /\ At(Len(sent) - 1, "hello_ack")' = At(Len(sent), "hello_ack")
      BY <2>3, SaidLast
    <3>2. SameServer
      BY <1>1, <1>2, <2>2, WritesSay
    <3>3. Known(Len(handled))
      BY <1>3, <1>6 DEF SessionInv, HeardOf
    <3>4. At(Len(handled), "hello_ack") \subseteq At(Len(sent), "hello_ack")
      <4>1. Len(sent) \in Nat /\ Len(handled) \in Nat /\ Len(handled) <= Len(sent)
        BY DEF StreamInv
      <4>2. \A i \in 1..Len(handled) : i \in 1..Len(sent)
        BY <4>1
      <4> QED BY <4>2 DEF At
    <3>5. At(Len(sent) - 1, "hello_ack")' # {} /\ server.kind.resync
      BY <3>1, <3>3, <3>4 DEF Known
    <3> QED BY <2>1, <3>1, <3>2, <3>5 DEF Says, Ops, SameServer
  <2>4. upstream[1].op # "reply" /\ m.op # "hello_ack"
    BY <1>3, <1>6, <2>1
  <2> QED BY <1>1, <1>6, <2>2, <2>3, <2>4, Answers
<1>7. CASE message.op = "hello" /\ server.kind.hears /\ Acknowledges /\ UNCHANGED waiting
  <2> DEFINE about == [capabilities |-> [version |-> 1, zstd |-> server.zstd,
                                         resync |-> server.kind.resync],
                       id |-> server.id, generation |-> server.generation]
             m == Message("hello_ack", about)
  <2>1. sent' = Append(sent, m)
    BY <1>7 DEF Acknowledges
  <2>2. /\ m.op = "hello_ack" /\ m.about.capabilities.resync = server.kind.resync
        /\ m.about.id = server.id /\ m.about.generation = server.generation
    BY DEF Message
  <2> HIDE DEF m
  <2>3. SameServer
    <3>1. \/ server' = [server EXCEPT !.queue = server.queue \o Frame("hello_ack", Len(sent')),
                                      !.acked = TRUE]
          \/ server' = [server EXCEPT !.segmenting = server.zstd, !.acked = TRUE]
      BY <1>7 DEF Acknowledges
    <3>2. DOMAIN server' = ServerFields /\ server'.kind = server.kind /\ server'.id = server.id
          /\ server'.generation = server.generation
      BY <1>2, <3>1 DEF ServerFields
    <3> QED BY <1>1, <3>2 DEF SameServer
  <2>4. /\ sent'[Len(sent')] = m
        /\ At(Len(sent) - 1, "hello_ack")' = At(Len(sent), "hello_ack")
    BY <2>1, SaidLast
  <2>5. /\ At(Len(sent), "hello_ack") = {}
        /\ \A j \in 1..Len(upstream) : upstream[j].op = "hello" => j = 1
    BY <1>3, <1>7 DEF SessionInv, HeardOf
  <2>6. Says(Len(sent))'
    BY <2>2, <2>3, <2>4, <2>5 DEF Says, Ops, SameServer
  <2>7. \A i \in 1..Len(upstream') : upstream'[i].op # "hello"
    <3>1. PICK U : upstream \in Seq(U)
      BY DEF SessionInv, HeardOf
    <3>2. /\ Len(upstream') = Len(upstream) - 1 /\ Len(upstream) \in Nat
          /\ \A j \in 1..Len(upstream') : upstream'[j] = upstream[j + 1]
      BY <1>1, <3>1
    <3>3. \A j \in 1..Len(upstream') : j + 1 \in 1..Len(upstream) /\ j + 1 # 1
      BY <3>2
    <3> QED BY <2>5, <3>2, <3>3
  <2>8. upstream[1].op # "reply" /\ waiting' \subseteq Tokens /\ \A t \in waiting' : t \in waiting
    BY <1>2, <1>3, <1>7
  <2> QED BY <1>1, <2>1, <2>3, <2>6, <2>7, <2>8, SaidKeeps
<1>8. CASE /\ message.op = "reply" /\ waiting' = waiting \ {message.about}
           /\ UNCHANGED <<server, wire, sent>>
  <2>1. SameServer
    BY <1>1, <1>2, <1>8 DEF SameServer
  <2> QED BY <1>1, <1>3, <1>8, <2>1, JustHeard
<1>9. CASE /\ message.op = "hello" /\ ~server.kind.hears
           /\ UNCHANGED <<server, waiting, wire, sent>>
  <2>1. SameServer
    BY <1>1, <1>2, <1>9 DEF SameServer
  <2> QED BY <1>1, <1>3, <1>9, <2>1, JustHeard
<1> QED BY <1>4, <1>5, <1>6, <1>7, <1>8, <1>9 DEF ServerHears, message

\* request_repaint() asks for a barrier only of a server that can give it.
LEMMA RepaintsSession == ASSUME SessionInv, StreamInv, Repaint PROVE SessionInv'
<1>1. /\ UNCHANGED <<connection, server, waiting, sent>> /\ Unheard
      /\ budget' = [budget EXCEPT !.repaints = budget.repaints - 1] /\ budget.repaints > 0
      /\ upstream' = IF session.capabilities.resync
                     THEN Append(upstream, Message("resync", session.generation)) ELSE upstream
  BY DEF Repaint, clientVars, serverVars, Unheard
<1>2. SameServer
  BY <1>1 DEF SessionInv, SaysSo, SameServer
<1>3. BudgetTyped'
  <2>1. budget \in [servers : SUBSET Kinds, offers : SUBSET BOOLEAN, connections : Nat,
                    draws : Nat, repaints : Nat, cuts : Nat]
    BY DEF SessionInv, BudgetTyped
  <2>2. budget.repaints - 1 \in Nat
    BY <1>1, <2>1
  <2> QED BY <1>1, <2>1, <2>2 DEF BudgetTyped
<1>4. CASE ~session.capabilities.resync
  <2>1. upstream' = upstream
    BY <1>1, <1>4
  <2> QED BY <1>1, <1>2, <1>3, <2>1, StillHeard
<1>5. CASE session.capabilities.resync
  <2> DEFINE m == Message("resync", session.generation)
  <2>1. upstream' = Append(upstream, m)
    BY <1>1, <1>5
  <2>2. m.op = "resync"
    BY DEF Message
  <2> HIDE DEF m
  <2>3. /\ SaysSo' /\ KeptAt(session, Len(handled), met)'
        /\ (Known(Len(handled))' <=> Known(Len(handled)))
    BY <1>1, <1>2, KeptStill DEF Said
  <2>4. Known(Len(handled))'
    <3>1. Known(Len(handled))
      BY <1>5 DEF SessionInv, KeptAt
    <3> QED BY <2>3, <3>1
  <2>5. At(Len(sent), "hello_ack")' = At(Len(sent), "hello_ack")
    BY <1>1 DEF At
  <2>6. PICK U : upstream \in Seq(U)
    BY DEF SessionInv, HeardOf
  <2>7. /\ upstream' \in Seq(U \cup {m}) /\ Len(upstream') = Len(upstream) + 1
        /\ Len(upstream) \in Nat /\ upstream'[Len(upstream) + 1] = m
        /\ \A i \in 1..Len(upstream) : upstream'[i] = upstream[i]
    <3>1. upstream \in Seq(U \cup {m})
      BY <2>6
    <3> QED BY <2>1, <3>1
  <2>8. \A i \in 1..Len(upstream') : i \in 1..Len(upstream) \/ i = Len(upstream) + 1
    BY <2>7
  <2>9. HeardOf'
    <3>1. ASSUME NEW i \in 1..Len(upstream'), upstream'[i].op = "hello"
          PROVE  /\ At(Len(sent), "hello_ack")' = {}
                 /\ \A j \in 1..Len(upstream') : upstream'[j].op = "hello" => j = i
      <4>1. \A j \in 1..Len(upstream') : upstream'[j].op = "hello" =>
              j \in 1..Len(upstream) /\ upstream[j].op = "hello"
        BY <2>2, <2>7, <2>8
      <4>2. i \in 1..Len(upstream) /\ upstream[i].op = "hello"
        BY <3>1, <4>1
      <4> QED BY <2>5, <4>1, <4>2 DEF SessionInv, HeardOf
    <3>2. \E S : upstream' \in Seq(S)
      BY <2>7
    <3> QED BY <2>4, <3>1, <3>2 DEF HeardOf
  <2>10. OwedAt(Len(handled), upstream)'
    <3>1. \A i \in 1..Len(upstream) : i \in 1..Len(upstream') /\ upstream'[i] = upstream[i]
      BY <2>7
    <3>2. waiting' = waiting /\ sent' = sent /\ handled' = handled
      BY <1>1 DEF Unheard
    <3> QED BY <3>1, <3>2 DEF SessionInv, OwedAt
  <2> QED BY <1>1, <1>3, <2>3, <2>9, <2>10 DEF SessionInv
<1> QED BY <1>4, <1>5

\* The encoder changes nothing of what was said.
LEMMA FlushesSession == ASSUME SessionInv, StreamInv, ServerFlushes PROVE SessionInv'
<1>1. UNCHANGED <<connection, upstream, waiting, sent>> /\ Unheard
  BY DEF ServerFlushes, clientVars, Unheard
<1>2. \E n \in 1..Len(server.queue) :
        /\ (n < Len(server.queue)) => budget.cuts > 0
        /\ budget' = [budget EXCEPT !.cuts = IF n < Len(server.queue) THEN budget.cuts - 1
                                             ELSE budget.cuts]
        /\ server' = [server EXCEPT !.queue = SubSeq(server.queue, n + 1, Len(server.queue)),
                                    !.opened = TRUE]
  BY DEF ServerFlushes
<1>3. SameServer
  <2>1. DOMAIN server = ServerFields
    BY DEF SessionInv, SaysSo
  <2>2. DOMAIN server' = ServerFields /\ server'.kind = server.kind /\ server'.id = server.id
        /\ server'.generation = server.generation
    BY <1>2, <2>1 DEF ServerFields
  <2> QED BY <1>1, <2>2 DEF SameServer
<1>4. BudgetTyped'
  <2>1. budget \in [servers : SUBSET Kinds, offers : SUBSET BOOLEAN, connections : Nat,
                    draws : Nat, repaints : Nat, cuts : Nat]
    BY DEF SessionInv, BudgetTyped
  <2>2. \E c \in Nat : budget' = [budget EXCEPT !.cuts = c]
    <3>1. budget.cuts \in Nat /\ (budget.cuts > 0 => budget.cuts - 1 \in Nat)
      BY <2>1
    <3> QED BY <1>2, <3>1
  <2> QED BY <2>1, <2>2 DEF BudgetTyped
<1> QED BY <1>1, <1>3, <1>4, StillHeard

\* Before the first connection.
LEMMA SessionInit == Init => SessionInv
<1> SUFFICES ASSUME Init PROVE SessionInv
  OBVIOUS
<1>1. /\ connection = 0 /\ session = NewSession /\ upstream = <<>> /\ waiting = {}
      /\ sent = <<>> /\ handled = <<>> /\ met = <<>> /\ budget \in Budgets
      /\ server = [kind |-> Predating, zstd |-> FALSE, segmenting |-> FALSE,
                   opened |-> FALSE, closing |-> FALSE, acked |-> FALSE,
                   id |-> 1, generation |-> 0, queue |-> <<>>]
  BY DEF Init
<1>2. BudgetTyped
  BY <1>1, StreamAssumption DEF BudgetTyped
<1>3. Len(sent) = 0 /\ Len(handled) = 0 /\ Len(met) = 0 /\ Len(upstream) = 0
  BY <1>1
<1>4. /\ DOMAIN server = ServerFields /\ server.kind = Predating /\ server.id = 1
      /\ server.generation = 0
  BY <1>1 DEF ServerFields
<1>5. Predating.resync = FALSE
  BY DEF Predating
<1>6. SaysSo
  <2>1. \A i \in 1..Len(sent) : Says(i)
    BY <1>3
  <2>2. server.kind.resync \in BOOLEAN
    BY <1>4, <1>5
  <2>3. server.id \in Nat /\ server.id # 0 /\ server.generation \in Nat
    BY <1>4
  <2>4. connection \in Nat
    BY <1>1
  <2>5. DOMAIN server = ServerFields
    BY <1>4
  <2> QED BY <2>1, <2>2, <2>3, <2>4, <2>5 DEF SaysSo
<1>7. HeardOf
  <2>1. upstream \in Seq({}) /\ \A i \in 1..Len(upstream) : FALSE
    BY <1>1, <1>3
  <2> QED BY <2>1 DEF HeardOf
<1>8. \A op : At(Len(handled), op) = {}
  BY <1>3 DEF At
<1>9. ~Known(Len(handled))
  BY <1>8 DEF Known
<1>10. /\ DOMAIN session = SessionFields /\ session.states = [t \in Tokens |-> NoEra]
       /\ session.palette = 0 /\ session.id = 0 /\ session.generation = 0
       /\ session.changed = FALSE /\ session.capabilities = NoCapabilities
       /\ session.closed = FALSE
  BY <1>1 DEF NewSession, SessionFields
<1>11. Identity(session, FALSE, met)
  <2>1. met \in Seq(Nat) /\ (\A i \in 1..Len(met) : FALSE) /\ \A i \in 2..Len(met) : FALSE
    BY <1>1, <1>3
  <2>2. MetLast(met, 0) /\ ~MetAgain(met)
    BY <2>1 DEF MetLast, MetAgain
  <2>3. /\ session.id \in Nat /\ session.generation \in Nat /\ session.id <= server.id
        /\ session.id # server.id
    BY <1>4, <1>10
  <2>4. session.changed \in BOOLEAN /\ (session.changed <=> MetAgain(met))
    BY <1>10, <2>2
  <2>5. MetLast(met, session.id)
    BY <1>10, <2>2
  <2>6. met \in Seq(Nat)
    BY <2>1
  <2> HIDE DEF MetLast, MetAgain
  <2> QED BY <2>3, <2>4, <2>5, <2>6 DEF Identity
<1>12. KeptAt(session, Len(handled), met)
  <2>1. Identity(session, Known(Len(handled)), met)
    BY <1>9, <1>11 DEF Identity
  <2>2. session.states
          \in [Tokens -> {NoEra, <<connection, Cardinality(At(Len(handled), "resync"))>>}]
    BY <1>10
  <2>3. session.capabilities.resync = FALSE
    BY <1>10 DEF NoCapabilities
  <2> HIDE DEF Known
  <2> QED BY <1>8, <1>9, <1>10, <2>1, <2>2, <2>3 DEF KeptAt
<1> QED BY <1>1, <1>2, <1>6, <1>7, <1>12 DEF SessionInv, OwedAt

\* Every step keeps the invariant.
LEMMA SessionStep == ASSUME SessionInv, StreamInv, [Next]_vars PROVE SessionInv'
<1>1. DOMAIN server = ServerFields
  BY DEF SessionInv, SaysSo
<1>2. CASE Drop
  <2>1. /\ UNCHANGED <<connection, sent, budget>> /\ Unheard /\ upstream' = <<>> /\ waiting' = {}
        /\ server' = [server EXCEPT !.queue = <<>>]
    BY <1>2 DEF Drop, clientVars, Unheard
  <2>2. SameServer
    BY <1>1, <2>1 DEF SameServer, ServerFields
  <2> QED BY <2>1, <2>2, StillHeard
<1>3. CASE Read
  <2>1. PICK m \in Nat : Hands(m)
    BY <1>3, ReadKeeps
  <2> QED BY <1>3, <2>1, ReadsSession
<1>4. CASE RingFills
  <2>1. /\ UNCHANGED <<connection, sent, budget, upstream, waiting>> /\ Unheard
        /\ server' = [server EXCEPT !.segmenting = TRUE]
    BY <1>4 DEF RingFills, clientVars, Unheard
  <2>2. SameServer
    BY <1>1, <2>1 DEF SameServer, ServerFields
  <2> QED BY <2>1, <2>2, StillHeard
<1>5. CASE UNCHANGED vars
  <2>1. UNCHANGED <<connection, sent, budget, upstream, waiting, server>> /\ Unheard
    BY <1>5 DEF vars, clientVars, serverVars, Unheard
  <2>2. SameServer
    BY <1>1, <2>1 DEF SameServer
  <2> QED BY <2>1, <2>2, StillHeard
<1> QED BY <1>2, <1>3, <1>4, <1>5, ConnectsSession, RepaintsSession, HearsSession, DrawsSession,
           ClosesSession, FlushesSession DEF Next

\* What was received, by its places.
LEMMA ReceivedAt ==
    ASSUME StreamInv, NEW op
    PROVE  Count(Received, op) = Cardinality(At(Len(handled), op))
<1>1. DOMAIN handled = 1..Len(handled) /\ \A k \in 1..Len(handled) : handled[k] = k
  BY DEF StreamInv, Counting
<1>2. DOMAIN Received = 1..Len(handled) /\ \A k \in 1..Len(handled) : Received[k] = sent[k]
  BY <1>1 DEF Received
<1> QED BY <1>2 DEF Count, At

\* However connections come and go and wherever the reads fall: every drawing state the
\* session has was stated since the last barrier of this connection, the palette is this
\* server's from the moment it came, and the generation changed exactly when the session
\* met last was met again (Session::handle, observe_generation).
THEOREM StateAlwaysCurrent == Spec => []StateIsCurrent
<1>1. ASSUME SessionInv, StreamInv PROVE StateIsCurrent
  <2>1. Len(handled) \in Nat
    BY DEF StreamInv
  <2>2. NoStaleState
    <3>1. Era(Received) = <<connection, Cardinality(At(Len(handled), "resync"))>>
      BY <1>1, ReceivedAt DEF Era
    <3> QED BY <1>1, <3>1 DEF SessionInv, KeptAt, NoStaleState
  <2>3. PaletteKept
    <3> DEFINE A == At(Len(handled), "palette")
    <3>1. Count(Received, "palette") = Cardinality(A)
      BY <1>1, ReceivedAt
    <3>2. IsFiniteSet(A)
      <4>1. IsFiniteSet(1..Len(handled)) /\ A \subseteq 1..Len(handled)
        BY <2>1, FS_Interval DEF At
      <4> QED BY <4>1, FS_Subset
    <3>3. Cardinality(A) \in Nat /\ (Cardinality(A) = 0 <=> A = {})
      BY <3>2, FS_EmptySet, FS_CardinalityType
    <3>4. Count(Received, "palette") > 0 <=> A # {}
      BY <3>1, <3>3
    <3> QED BY <1>1, <3>4 DEF SessionInv, KeptAt, PaletteKept
  <2>4. ReconnectionRecognised
    BY <1>1 DEF SessionInv, KeptAt, Identity, MetAgain, ReconnectionRecognised
  <2> QED BY <2>2, <2>3, <2>4 DEF StateIsCurrent
<1> QED BY <1>1, StreamInit, StreamStep, SessionInit, SessionStep, PTL DEF Spec

----------------------------------------------------------------------------
(* The layers stay in step.  What has not been passed on is whole frames up to a   *)
(* place and whole segments behind it, and the layer it is given to is the one it  *)
(* is for: the first segment's header, or the acknowledgement, says where.         *)

\* Nothing in a run of units completes a frame, or is a segment's own.
Quiet(U) == \A i \in DOMAIN U : ~IsLast(U[i])
NoHeads(U) == \A i \in DOMAIN U : ~IsHead(U[i])

\* A stream of whole frames up to place p, and of whole segments behind it.
Shaped(S, p) ==
    /\ p \in 0..Len(S)
    /\ \A i \in 1..p : ~IsHead(S[i]) /\ ~S[i].ends
    /\ p # 0 => IsLast(S[p])
    /\ p < Len(S) => S[Len(S)].ends
    /\ \A i \in p..Len(S) - 1 : i = p \/ S[i].ends => IsHead(S[i + 1]) /\ S[i + 1].k = 1

\* The first segment opens the zstd frame, behind a header that is told from a frame's.
Opening(S, p) ==
    /\ S[p + 1].op = "opening" /\ S[p + 1].of \in Nat /\ p + S[p + 1].of < Len(S)
    /\ \A i \in 1..S[p + 1].of : IsHead(S[p + i])

\* An acknowledgement outside of a segment says what the server then does: it is the last
\* of the frames if the server compresses.
PlainAck(S, p) ==
    \A i \in 1..p : S[i].op = "hello_ack" =>
        /\ S[i].n \in 1..Len(sent)
        /\ sent[S[i].n].about.capabilities.zstd = server.zstd
        /\ server.zstd /\ IsLast(S[i]) => i = p /\ server.segmenting

\* What the layers have not passed on and the wire carries.
Unread(l, W) == (IF l.compressed THEN l.segments ELSE l.buffer) \o W

\* What a layer gets is what it takes.
Arriving(l, S, p) ==
    /\ Shaped(S, p) /\ (~server.opened => p = Len(S))
    /\ l.compressed => p = 0 /\ server.segmenting
    /\ ~l.compressed => (server.opened => p < Len(S)) /\ (p < Len(S) => Opening(S, p))
    /\ ~l.compressed /\ ~l.awaiting => ~server.zstd
    /\ l.awaiting => PlainAck(S, p)

\* What the layers hold is part of a frame, and of a segment.
Held(l) ==
    /\ l.failed = FALSE /\ l.awaiting \in BOOLEAN /\ l.compressed \in BOOLEAN
    /\ (l.compressed => ~l.awaiting) /\ (l.segments # <<>> => l.compressed)
    /\ Quiet(l.buffer) /\ (~l.awaiting => NoHeads(l.buffer))
    /\ \A i \in DOMAIN l.segments : ~l.segments[i].ends

\* The server compresses only where it was negotiated.
SegmentsSo ==
    /\ server.zstd \in BOOLEAN /\ server.segmenting \in BOOLEAN /\ server.opened \in BOOLEAN
    /\ (server.opened => server.segmenting) /\ (server.segmenting => server.zstd)

\* The invariant of the layers.
LayersInv ==
    /\ SegmentsSo /\ Held(layers) /\ up \in BOOLEAN
    /\ up => LET S == Unread(layers, wire) IN \E p \in 0..Len(S) : Arriving(layers, S, p)

\* What is pending and what has arrived is within the Framer's limit.
ReadsFit == ~layers.compressed => Len(layers.buffer) + Len(wire) <= MaxMessage

\* What a run carries of the messages from place a on begins with a header and goes on
\* frame by frame.
InFrames(U) ==
    /\ \A i \in DOMAIN U : ~IsHead(U[i]) => U[i].of >= Header
    /\ U # <<>> /\ ~IsHead(U[1]) => U[1].k = 1
    /\ \A i \in 2..Len(U) : ~IsHead(U[i - 1]) /\ ~IsHead(U[i]) =>
         (IsLast(U[i - 1]) /\ U[i].k = 1) \/ Continues(U[i], U[i - 1])

\* What is left of the messages is read in step.
LEMMA LeftInFrames ==
    ASSUME NEW msgs, NEW U, NEW L, NEW a, Left(msgs, U, L, a)
    PROVE  InFrames(U)
<1> DEFINE Full(n) == FrameSize(msgs[n].op)
<1>1. /\ U \in Seq(Unit) /\ Len(U) \in Nat /\ DOMAIN U = 1..Len(U) /\ a \in Nat
      /\ Len(msgs) \in Nat
  BY DEF Left, Ordered
<1>2. \A op : FrameSize(op) \in Nat /\ FrameSize(op) >= 2
  BY DEF FrameSize, Header
<1>3. ASSUME NEW i \in Carried(U)
      PROVE  /\ i \in 1..Len(U) /\ U[i].n \in Nat /\ U[i].k \in Nat /\ a <= U[i].n
             /\ U[i].n <= Len(msgs) /\ U[i].of = Full(U[i].n)
             /\ 1 <= U[i].k /\ U[i].k <= U[i].of
  <2> DEFINE p == Key(U[i])
  <2>1. p \in Due(msgs, a)
    BY DEF Left, Keys
  <2>2. p[1] = U[i].n /\ p[2] = U[i].k /\ p[3] = U[i].of
    BY KeyParts
  <2> HIDE DEF p
  <2> QED BY <1>1, <2>1, <2>2, DueParts DEF Carried
<1>4. \A i, j \in Carried(U) : i < j =>
        U[i].n < U[j].n \/ (U[i].n = U[j].n /\ U[i].k < U[j].k)
  BY KeysInOrder DEF Left, Ordered
\* A unit that is due and comes before one that is there is there.
<1>5. ASSUME NEW i \in Carried(U), NEW n \in Nat, NEW k \in Nat, a <= n, n <= Len(msgs),
             1 <= k, k <= Full(n), n < U[i].n \/ (n = U[i].n /\ k < U[i].k)
      PROVE  \E e \in Carried(U) : e < i /\ U[e].n = n /\ U[e].k = k
  <2> DEFINE key == <<n, k, Full(n)>>
  <2>1. key \in Due(msgs, a) /\ key[1] = n /\ key[2] = k
    BY <1>5, DueHas
  <2>2. key \notin L
    <3> SUFFICES ASSUME key \in L PROVE FALSE
      OBVIOUS
    <3>1. Key(U[i]) \in Keys(U)
      BY DEF Keys
    <3>2. Less(Key(U[i]), key)
      BY <3>1 DEF Left, Before
    <3>3. U[i].n < n \/ (U[i].n = n /\ U[i].k < k)
      BY <3>2, <2>1, KeyParts DEF Less
    <3>4. U[i].n \in Nat /\ U[i].k \in Nat
      BY <1>3
    <3> QED BY <1>5, <3>3, <3>4
  <2>3. PICK e \in Carried(U) : Key(U[e]) = key
    BY <2>1, <2>2 DEF Left, Keys
  <2>4. U[e].n = n /\ U[e].k = k
    BY <2>3 DEF Key
  <2>5. ~(i < e) /\ i # e
    <3>1. U[i].n \in Nat /\ U[i].k \in Nat
      BY <1>3
    <3>2. U[i].n < U[e].n \/ (U[i].n = U[e].n /\ U[i].k < U[e].k) => FALSE
      BY <1>5, <2>4, <3>1
    <3>3. i # e
      BY <1>5, <2>4, <3>1
    <3> QED BY <1>4, <3>2, <3>3
  <2>6. e < i
    BY <1>3, <2>5
  <2> QED BY <2>4, <2>6
<1>6. \A i \in DOMAIN U : ~IsHead(U[i]) => U[i].of >= Header
  <2> SUFFICES ASSUME NEW i \in DOMAIN U, ~IsHead(U[i]) PROVE U[i].of >= 2
    BY DEF Header
  <2>1. i \in Carried(U)
    BY DEF Carried
  <2> QED BY <1>2, <1>3, <2>1
<1>7. ASSUME U # <<>>, ~IsHead(U[1]) PROVE U[1].k = 1
  <2>1. 1 \in Carried(U)
    BY <1>1, <1>7 DEF Carried
  <2> SUFFICES ASSUME U[1].k # 1 PROVE FALSE
    OBVIOUS
  <2>2. U[1].n \in Nat /\ U[1].k \in Nat /\ 1 <= U[1].k /\ a <= U[1].n /\ U[1].n <= Len(msgs)
        /\ Full(U[1].n) \in Nat /\ 1 <= Full(U[1].n)
    BY <1>2, <1>3, <2>1
  <2>3. U[1].n = U[1].n /\ 1 < U[1].k
    BY <2>2
  <2>4. \E e \in Carried(U) : e < 1
    BY <1>5, <2>1, <2>2, <2>3
  <2> QED BY <1>3, <2>4
<1>8. ASSUME NEW i \in 2..Len(U), ~IsHead(U[i - 1]), ~IsHead(U[i])
      PROVE  (IsLast(U[i - 1]) /\ U[i].k = 1) \/ Continues(U[i], U[i - 1])
  <2> DEFINE u == U[i - 1]
             v == U[i]
  <2>1. i \in Carried(U) /\ i - 1 \in Carried(U) /\ i \in Int /\ i - 1 < i
    BY <1>1, <1>8 DEF Carried
  <2>2. ASSUME NEW e \in Carried(U), e < i PROVE e = i - 1 \/ e < i - 1
    <3>1. e \in Int
      BY <1>3
    <3> QED BY <2>1, <2>2, <3>1
  <2>3. /\ u.n \in Nat /\ u.k \in Nat /\ a <= u.n /\ u.n <= Len(msgs) /\ u.of = Full(u.n)
        /\ 1 <= u.k /\ u.k <= u.of /\ Full(u.n) \in Nat
    BY <1>2, <1>3, <2>1
  <2>4. /\ v.n \in Nat /\ v.k \in Nat /\ a <= v.n /\ v.n <= Len(msgs) /\ v.of = Full(v.n)
        /\ 1 <= v.k /\ v.k <= v.of /\ Full(v.n) \in Nat
    BY <1>2, <1>3, <2>1
  <2>5. u.n < v.n \/ (u.n = v.n /\ u.k < v.k)
    BY <1>4, <2>1
  \* Nothing that is there lies between the two.
  <2>6. ASSUME NEW e \in Carried(U), e < i
        PROVE  U[e].n < u.n \/ (U[e].n = u.n /\ U[e].k <= u.k)
    <3>1. CASE e = i - 1
      BY <2>3, <3>1
    <3>2. CASE e < i - 1
      <4>1. U[e].n < u.n \/ (U[e].n = u.n /\ U[e].k < u.k)
        BY <1>4, <2>1, <3>2
      <4>2. U[e].k \in Nat
        BY <1>3
      <4> QED BY <2>3, <4>1, <4>2
    <3> QED BY <2>2, <2>6, <3>1, <3>2
  <2> HIDE DEF u, v
  <2>7. CASE u.k = u.of
    <3>1. u.n < v.n
      BY <2>3, <2>4, <2>5, <2>7
    <3>2. v.k = 1
      <4> SUFFICES ASSUME v.k # 1 PROVE FALSE
        OBVIOUS
      <4>1. 1 < v.k /\ 1 <= Full(v.n) /\ v.n = v.n
        BY <2>4
      <4>2. \E e \in Carried(U) : e < i /\ U[e].n = v.n /\ U[e].k = 1
        BY <1>5, <2>1, <2>4, <4>1 DEF v
      <4>3. PICK e \in Carried(U) : e < i /\ U[e].n = v.n /\ U[e].k = 1
        BY <4>2
      <4>4. U[e].n < u.n \/ (U[e].n = u.n /\ U[e].k <= u.k)
        BY <2>6, <4>3
      <4> QED BY <2>3, <2>4, <3>1, <4>3, <4>4
    <3>3. IsLast(u)
      BY <1>8, <2>7 DEF IsLast, u
    <3> QED BY <3>2, <3>3 DEF u, v
  <2>8. CASE u.k # u.of
    <3>1. u.k + 1 \in Nat /\ 1 <= u.k + 1 /\ u.k + 1 <= Full(u.n)
      BY <2>3, <2>8
    <3>2. ASSUME u.n < v.n \/ (u.n = v.n /\ u.k + 1 < v.k) PROVE FALSE
      <4>1. \E e \in Carried(U) : e < i /\ U[e].n = u.n /\ U[e].k = u.k + 1
        <5>1. u.n < U[i].n \/ (u.n = U[i].n /\ u.k + 1 < U[i].k)
          BY <3>2 DEF v
        <5>2. u.n \in Nat /\ a <= u.n /\ u.n <= Len(msgs)
          BY <2>3
        <5> DEFINE n == u.n
                   k == u.k + 1
        <5>3. /\ n \in Nat /\ k \in Nat /\ a <= n /\ n <= Len(msgs) /\ 1 <= k /\ k <= Full(n)
              /\ (n < U[i].n \/ (n = U[i].n /\ k < U[i].k))
          BY <3>1, <5>1, <5>2
        <5> HIDE DEF n, k, Full
        <5>4. \E e \in Carried(U) : e < i /\ U[e].n = n /\ U[e].k = k
          BY <1>5, <2>1, <5>3
        <5> QED BY <5>4 DEF n, k
      <4>2. PICK e \in Carried(U) : e < i /\ U[e].n = u.n /\ U[e].k = u.k + 1
        BY <4>1
      <4>3. U[e].n < u.n \/ (U[e].n = u.n /\ U[e].k <= u.k)
        BY <2>6, <4>2
      <4> QED BY <2>3, <4>2, <4>3
    <3>3. v.n = u.n /\ v.k = u.k + 1
      BY <2>3, <2>4, <2>5, <3>2
    <3> QED BY <3>3 DEF Continues, u, v
  <2> QED BY <2>7, <2>8
<1> QED BY <1>6, <1>7, <1>8 DEF InFrames

\* The last of what is picked up to a place is what is there.
LEMMA PickedLast ==
    ASSUME NEW U, Ordered(U), NEW t \in 1..Len(U), IsLast(U[t])
    PROVE  LET V == Picked(U, Ends(U, t)) IN V # <<>> /\ Len(V) \in Nat /\ V[Len(V)] = U[t]
<1> DEFINE S == Ends(U, t)
           c == Cardinality(S)
           V == Picked(U, S)
<1>1. U \in Seq(Unit) /\ Len(U) \in Nat /\ t \in Nat /\ S \in SUBSET (1..t)
  BY DEF Ordered, Ends
<1>2. IsFiniteSet(1..t)
  BY <1>1, FS_Interval
<1>3. S \in SUBSET Int /\ IsFiniteSet(S)
  BY <1>1, <1>2, FS_Subset
<1>4. t \in S
  BY <1>1 DEF Ends
<1> HIDE DEF S
<1>5. PICK f : Numbers(f, S) /\ V = [j \in 1..c |-> U[f[j]]]
  BY <1>3, PickedAre
<1>6. c \in Nat
  BY <1>3, PickedAre
<1>7. f \in [1..c -> S] /\ (\A j, k \in 1..c : j < k => f[j] < f[k])
      /\ \A i \in S : \E j \in 1..c : f[j] = i
  BY <1>5 DEF Numbers
<1> HIDE DEF c, V
<1>8. PICK j \in 1..c : f[j] = t
  BY <1>4, <1>7
<1>9. j = c
  <2> SUFFICES ASSUME j # c PROVE FALSE
    OBVIOUS
  <2>1. c \in 1..c /\ j < c
    BY <1>6
  <2>2. f[j] < f[c] /\ f[c] \in S
    BY <1>7, <2>1
  <2>3. f[c] \in 1..t
    BY <1>1, <2>2
  <2> QED BY <1>1, <1>8, <2>2, <2>3
<1>10. Len(V) = c /\ V[c] = U[t] /\ V # <<>>
  <2>1. c \in 1..c
    BY <1>6, <1>9
  <2>2. V[c] = U[f[c]] /\ Len(V) = c
    BY <1>5, <1>6, <2>1
  <2> QED BY <1>6, <1>8, <1>9, <2>1, <2>2
<1> QED BY <1>6, <1>10 DEF V, S

\* Passing over whole frames leaves a stream of the same shape.
LEMMA FramesOn ==
    ASSUME NEW S \in Seq(Unit), NEW p, Shaped(S, p), NEW t \in 0..p
    PROVE  LET R == SubSeq(S, t + 1, Len(S)) IN
           /\ R \in Seq(Unit) /\ Len(R) = Len(S) - t /\ Shaped(R, p - t)
           /\ (Opening(S, p) => Opening(R, p - t)) /\ (PlainAck(S, p) => PlainAck(R, p - t))
<1> DEFINE R == SubSeq(S, t + 1, Len(S))
<1>1. /\ p \in Nat /\ t \in Nat /\ Len(S) \in Nat /\ t <= p /\ p <= Len(S)
  BY DEF Shaped
<1>2. R \in Seq(Unit) /\ Len(R) = Len(S) - t /\ \A i \in 1..Len(S) - t : R[i] = S[i + t]
  BY <1>1
<1> HIDE DEF R
<1>3. \A i \in 1..p - t : R[i] = S[i + t] /\ i + t \in 1..p
  BY <1>1, <1>2
<1>4. Shaped(R, p - t)
  <2>1. p - t \in 0..Len(R)
    BY <1>1, <1>2
  <2>2. \A i \in 1..p - t : ~IsHead(R[i]) /\ ~R[i].ends
    BY <1>3 DEF Shaped
  <2>3. p - t # 0 => IsLast(R[p - t])
    <3> SUFFICES ASSUME p - t # 0 PROVE IsLast(R[p - t])
      OBVIOUS
    <3>1. R[p - t] = S[p] /\ p # 0
      <4>1. p - t \in 1..Len(S) - t /\ (p - t) + t = p
        BY <1>1
      <4> QED BY <1>1, <1>2, <4>1
    <3> QED BY <3>1 DEF Shaped
  <2>4. p - t < Len(R) => R[Len(R)].ends
    <3> SUFFICES ASSUME p - t < Len(R) PROVE R[Len(R)].ends
      OBVIOUS
    <3>1. p < Len(S) /\ Len(R) \in 1..Len(S) - t /\ Len(R) + t = Len(S)
      BY <1>1, <1>2
    <3>2. R[Len(R)] = S[Len(S)]
      BY <1>2, <3>1
    <3> QED BY <3>1, <3>2 DEF Shaped
  <2>5. ASSUME NEW i \in p - t..Len(R) - 1, i = p - t \/ R[i].ends
        PROVE  IsHead(R[i + 1]) /\ R[i + 1].k = 1
    <3>1. i + t \in p..Len(S) - 1 /\ i + 1 \in 1..Len(S) - t /\ (i + 1) + t = (i + t) + 1
      BY <1>1, <1>2
    <3>2. R[i + 1] = S[(i + t) + 1]
      BY <1>2, <3>1
    <3>3. i + t = p \/ S[i + t].ends
      <4>1. CASE i = p - t
        BY <1>1, <4>1
      <4>2. CASE i # p - t
        <5>1. i \in 1..Len(S) - t
          BY <1>1, <1>2, <4>2
        <5>2. R[i] = S[i + t]
          BY <1>2, <5>1
        <5> QED BY <2>5, <4>2, <5>2
      <4> QED BY <4>1, <4>2
    <3> QED BY <3>1, <3>2, <3>3 DEF Shaped
  <2> QED BY <2>1, <2>2, <2>3, <2>4, <2>5 DEF Shaped
<1>5. ASSUME Opening(S, p) PROVE Opening(R, p - t)
  <2> DEFINE of == S[p + 1].of
  <2>1. /\ S[p + 1].op = "opening" /\ of \in Nat /\ p + of < Len(S)
        /\ \A i \in 1..of : IsHead(S[p + i])
    BY <1>5 DEF Opening
  <2> HIDE DEF of
  <2>2. R[(p - t) + 1] = S[p + 1]
    <3>1. (p - t) + 1 \in 1..Len(S) - t /\ ((p - t) + 1) + t = p + 1
      BY <1>1, <2>1
    <3> QED BY <1>2, <3>1
  <2>3. (p - t) + of < Len(R)
    BY <1>1, <1>2, <2>1
  <2>4. \A i \in 1..of : R[(p - t) + i] = S[p + i]
    <3> SUFFICES ASSUME NEW i \in 1..of PROVE R[(p - t) + i] = S[p + i]
      OBVIOUS
    <3>1. (p - t) + i \in 1..Len(S) - t /\ ((p - t) + i) + t = p + i
      BY <1>1, <2>1
    <3> QED BY <1>2, <3>1
  <2> QED BY <2>1, <2>2, <2>3, <2>4 DEF Opening, of
<1>6. ASSUME PlainAck(S, p) PROVE PlainAck(R, p - t)
  <2> SUFFICES ASSUME NEW i \in 1..p - t, R[i].op = "hello_ack"
               PROVE  /\ R[i].n \in 1..Len(sent)
                      /\ sent[R[i].n].about.capabilities.zstd = server.zstd
                      /\ server.zstd /\ IsLast(R[i]) => i = p - t /\ server.segmenting
    BY DEF PlainAck
  <2>1. R[i] = S[i + t] /\ i + t \in 1..p
    BY <1>3
  <2>2. /\ R[i].n \in 1..Len(sent)
        /\ sent[R[i].n].about.capabilities.zstd = server.zstd
        /\ server.zstd /\ IsLast(R[i]) => i + t = p /\ server.segmenting
    BY <1>6, <2>1 DEF PlainAck
  <2>3. i + t = p => i = p - t
    BY <1>1
  <2> QED BY <2>2, <2>3
<1> QED BY <1>2, <1>4, <1>5, <1>6 DEF R

\* Passing over whole segments leaves whole segments.
LEMMA SegmentsOn ==
    ASSUME NEW S \in Seq(Unit), Shaped(S, 0), NEW t \in 0..Len(S), t = 0 \/ S[t].ends
    PROVE  LET R == SubSeq(S, t + 1, Len(S)) IN R \in Seq(Unit) /\ Shaped(R, 0)
<1> DEFINE R == SubSeq(S, t + 1, Len(S))
<1>1. t \in Nat /\ Len(S) \in Nat /\ t <= Len(S)
  OBVIOUS
<1>2. R \in Seq(Unit) /\ Len(R) = Len(S) - t /\ \A i \in 1..Len(S) - t : R[i] = S[i + t]
  BY <1>1
<1> HIDE DEF R
<1>3. 0 < Len(R) => R[Len(R)].ends
  <2> SUFFICES ASSUME 0 < Len(R) PROVE R[Len(R)].ends
    OBVIOUS
  <2>1. 0 < Len(S) /\ Len(R) \in 1..Len(S) - t /\ Len(R) + t = Len(S)
    BY <1>1, <1>2
  <2>2. R[Len(R)] = S[Len(S)]
    BY <1>2, <2>1
  <2> QED BY <2>1, <2>2 DEF Shaped
<1>4. ASSUME NEW i \in 0..Len(R) - 1, i = 0 \/ R[i].ends
      PROVE  IsHead(R[i + 1]) /\ R[i + 1].k = 1
  <2>1. i + t \in 0..Len(S) - 1 /\ i + 1 \in 1..Len(S) - t /\ (i + 1) + t = (i + t) + 1
    BY <1>1, <1>2
  <2>2. R[i + 1] = S[(i + t) + 1]
    BY <1>2, <2>1
  <2>3. i + t = 0 \/ S[i + t].ends
    <3>1. CASE i = 0
      BY <1>1, <3>1
    <3>2. CASE i # 0
      <4>1. i \in 1..Len(S) - t
        BY <1>1, <1>2, <3>2
      <4>2. R[i] = S[i + t]
        BY <1>2, <4>1
      <4> QED BY <1>4, <3>2, <4>2
    <3> QED BY <3>1, <3>2
  <2> QED BY <2>1, <2>2, <2>3 DEF Shaped
<1>5. 0 \in 0..Len(R) /\ \A i \in 1..0 : FALSE
  BY <1>1, <1>2
<1>6. Shaped(R, 0)
  BY <1>3, <1>4, <1>5 DEF Shaped
<1> QED BY <1>2, <1>6 DEF R

\* A whole frame behind whole frames.
LEMMA FrameOn ==
    ASSUME NEW S \in Seq(Unit), Shaped(S, Len(S)), NEW F \in Seq(Unit), F # <<>>,
           \A i \in DOMAIN F : ~IsHead(F[i]) /\ ~F[i].ends, IsLast(F[Len(F)])
    PROVE  S \o F \in Seq(Unit) /\ Shaped(S \o F, Len(S \o F))
<1> DEFINE R == S \o F
           q == Len(R)
<1>1. Len(S) \in Nat /\ Len(F) \in Nat /\ Len(F) # 0 /\ DOMAIN F = 1..Len(F)
  OBVIOUS
<1>2. R \in Seq(Unit) /\ q = Len(S) + Len(F) /\ q \in Nat
      /\ (\A i \in 1..Len(S) : R[i] = S[i])
      /\ \A i \in Len(S) + 1..Len(S) + Len(F) : R[i] = F[i - Len(S)]
  BY <1>1
<1> HIDE DEF R, q
<1>3. ASSUME NEW i \in 1..q PROVE ~IsHead(R[i]) /\ ~R[i].ends
  <2>1. CASE i <= Len(S)
    <3>1. i \in 1..Len(S)
      BY <1>1, <1>2, <2>1
    <3> QED BY <1>2, <3>1 DEF Shaped
  <2>2. CASE i > Len(S)
    <3>1. i \in Len(S) + 1..Len(S) + Len(F) /\ i - Len(S) \in 1..Len(F)
      BY <1>1, <1>2, <2>2
    <3> QED BY <1>1, <1>2, <3>1
  <2> QED BY <1>1, <1>2, <2>1, <2>2
<1>4. IsLast(R[q])
  <2>1. q \in Len(S) + 1..Len(S) + Len(F) /\ q - Len(S) = Len(F)
    BY <1>1, <1>2
  <2>2. R[q] = F[Len(F)]
    BY <1>2, <2>1
  <2> QED BY <2>2
<1>5. q \in 0..q /\ ~(q < q) /\ \A i \in q..q - 1 : FALSE
  BY <1>2
<1>6. Len(R) = q
  BY DEF q
<1>7. Shaped(R, q)
  BY <1>3, <1>4, <1>5, <1>6 DEF Shaped
<1> QED BY <1>2, <1>7 DEF R, q

\* A whole segment behind a stream.
LEMMA SegmentOn ==
    ASSUME NEW S \in Seq(Unit), NEW p, Shaped(S, p), NEW Z \in Seq(Unit), Z # <<>>,
           IsHead(Z[1]), Z[1].k = 1, Z[Len(Z)].ends, \A i \in 1..Len(Z) - 1 : ~Z[i].ends
    PROVE  S \o Z \in Seq(Unit) /\ Shaped(S \o Z, p)
<1> DEFINE R == S \o Z
           q == Len(S)
           z == Len(Z)
<1>1. q \in Nat /\ z \in Nat /\ z # 0 /\ p \in 0..q /\ p \in Nat
  BY DEF Shaped
<1>2. R \in Seq(Unit) /\ Len(R) = q + z /\ (\A i \in 1..q : R[i] = S[i])
      /\ \A i \in q + 1..q + z : R[i] = Z[i - q]
  BY <1>1
<1> HIDE DEF R
<1>3. p \in 0..Len(R) /\ p < Len(R)
  BY <1>1, <1>2
<1>4. \A i \in 1..p : ~IsHead(R[i]) /\ ~R[i].ends
  <2>1. \A i \in 1..p : i \in 1..q
    BY <1>1
  <2> QED BY <1>2, <2>1 DEF Shaped
<1>5. p # 0 => IsLast(R[p])
  <2>1. p # 0 => p \in 1..q
    BY <1>1
  <2> QED BY <1>2, <2>1 DEF Shaped
<1>6. R[Len(R)].ends
  <2>1. q + z \in q + 1..q + z /\ (q + z) - q = z
    BY <1>1
  <2> QED BY <1>2, <2>1
<1>7. ASSUME NEW i \in p..Len(R) - 1, i = p \/ R[i].ends
      PROVE  IsHead(R[i + 1]) /\ R[i + 1].k = 1
  <2>0. i \in Nat /\ p <= i /\ i < q + z
    BY <1>1, <1>2
  <2>1. CASE i < q
    <3>1. i + 1 \in 1..q /\ (i # 0 => i \in 1..q) /\ i \in p..q - 1
      BY <1>1, <2>0, <2>1
    <3>2. i = p \/ S[i].ends
      <4>1. CASE i = p
        BY <4>1
      <4>2. CASE i # p
        <5>1. i \in 1..q
          BY <1>1, <2>0, <3>1, <4>2
        <5> QED BY <1>2, <1>7, <4>2, <5>1
      <4> QED BY <4>1, <4>2
    <3>3. IsHead(S[i + 1]) /\ S[i + 1].k = 1
      BY <3>1, <3>2 DEF Shaped
    <3> QED BY <1>2, <3>1, <3>3
  <2>2. CASE i = q
    <3>1. q + 1 \in q + 1..q + z /\ (q + 1) - q = 1
      BY <1>1
    <3> QED BY <1>2, <2>2, <3>1
  <2>3. CASE i > q
    <3>1. i \in q + 1..q + z /\ i - q \in 1..z - 1
      BY <1>1, <2>0, <2>3
    <3>2. ~R[i].ends
      BY <1>2, <3>1
    <3> QED BY <1>1, <1>7, <2>3, <3>2
  <2> QED BY <1>1, <2>0, <2>1, <2>2, <2>3
<1>8. Shaped(R, p)
  BY <1>3, <1>4, <1>5, <1>6, <1>7 DEF Shaped
<1> QED BY <1>2, <1>8 DEF R

\* A run that is frames up to place q, and behind it the opening of the zstd frame if the
\* acknowledgement is awaited.
Framable(U, q, awaiting) ==
    /\ q \in 0..Len(U) /\ \A i \in 1..q : ~IsHead(U[i])
    /\ q < Len(U) =>
         /\ awaiting /\ (q # 0 => IsLast(U[q]))
         /\ U[q + 1].op = "opening" /\ U[q + 1].of \in Nat
         /\ \A i \in 1..U[q + 1].of : q + i <= Len(U) => IsHead(U[q + i])

\* What the Framer makes of it: it stops at place t, behind the last message it cut.
StopsAt(f, U, q, awaiting, t) ==
    /\ ~f.failed /\ f.start \in BOOLEAN
    /\ t \in 0..q /\ f.rest = SubSeq(U, t + 1, Len(U))
    /\ t # 0 => IsLast(U[t]) /\ f.messages # <<>>
    /\ f.messages # <<>> => t # 0 /\ f.messages[Len(f.messages)] = U[t]
    /\ f.start => t = q /\ q < Len(U) /\ awaiting
    /\ f.start \/ Quiet(f.rest) \/ (awaiting /\ t # 0 /\ U[t].op = "hello_ack")

\* The Framer's loop does not desynchronise, and leaves no whole frame behind but at the
\* end of the wait for the acknowledgement.
LEMMA FramedInStep ==
    ASSUME NEW msgs, NEW U, NEW L, NEW a, Left(msgs, U, L, a), NEW awaiting \in BOOLEAN,
           NEW q, Framable(U, q, awaiting)
    PROVE  \E t : StopsAt(Framed(U, awaiting), U, q, awaiting, t)
<1> DEFINE heads == {i \in DOMAIN U : IsHead(U[i])}
           plain == IF heads = {} THEN Len(U) ELSE Min(heads) - 1
           lasts == {i \in 1..plain : IsLast(U[i])}
           ends == StopAfterAck(lasts, U, awaiting)
           taken == Max(ends \cup {0})
           rest == SubSeq(U, taken + 1, Len(U))
           cut == Picked(U, {i \in 1..taken : IsLast(U[i])})
           aligned == \A i \in 1..taken :
                          U[i].k = 1 \/ (i > 1 /\ Continues(U[i], U[i - 1]))
           acked == awaiting /\ cut # <<>> /\ cut[Len(cut)].op = "hello_ack"
           start == IF Len(rest) < Header \/ acked \/ ~awaiting THEN "no"
                    ELSE segment_start(rest)
           waits == \/ acked \/ Len(rest) < Header \/ start = "need_more"
                    \/ rest[1].k = 1 /\ ~IsHead(rest[1]) /\ Continues(rest[2], rest[1])
<1>1. U \in Seq(Unit) /\ Len(U) \in Nat /\ DOMAIN U = 1..Len(U) /\ Ordered(U)
  BY DEF Left, Ordered
<1>2. q \in Nat /\ q <= Len(U) /\ \A i \in 1..q : ~IsHead(U[i])
  BY <1>1 DEF Framable
<1>01. U \in Seq(Unit) /\ Len(U) \in Nat /\ q \in Nat /\ q <= Len(U)
  BY <1>1, <1>2
<1>02. q = Len(U) \/ q < Len(U)
  BY <1>01
<1>3. Framed(U, awaiting) =
        IF ~aligned THEN Desync
        ELSE IF waits THEN Framing(cut, rest, FALSE)
        ELSE IF start = "yes" THEN Framing(cut, rest, TRUE) ELSE Desync
  <2> HIDE DEF rest, cut
  <2> QED BY DEF Framed, rest, cut
<1>4. plain = q
  <2>1. CASE q = Len(U)
    <3>1. heads = {}
      BY <1>1, <1>2, <2>1
    <3> QED BY <2>1, <3>1
  <2>2. CASE q < Len(U)
    <3>1. q + 1 \in heads
      BY <1>1, <1>2, <2>2 DEF Framable, IsHead, Heads
    <3>2. heads \in SUBSET (1..Len(U)) /\ heads \in SUBSET Int
      BY <1>1
    <3>3. IsFiniteSet(1..Len(U))
      BY <1>1, FS_Interval
    <3>4. IsFiniteSet(heads)
      BY <3>2, <3>3, FS_Subset
    <3>5. Min(heads) \in heads /\ \A e \in heads : Min(heads) <= e
      BY <3>1, <3>2, <3>4, FirstPlace
    <3> DEFINE m == Min(heads)
    <3> HIDE DEF m
    <3>6. m \in 1..Len(U) /\ m <= q + 1 /\ IsHead(U[m])
      BY <3>1, <3>2, <3>5 DEF m
    <3>7. ~(m <= q)
      <4>1. m <= q => m \in 1..q
        BY <1>2, <3>6
      <4> QED BY <1>2, <3>6, <4>1
    <3>8. m - 1 = q
      BY <1>2, <3>6, <3>7
    <3> QED BY <3>1, <3>8 DEF m
  <2> QED BY <1>02, <2>1, <2>2
<1> HIDE DEF plain
<1>5. ends \subseteq lasts /\ lasts \subseteq 1..q
  BY <1>4 DEF StopAfterAck
<1>6. taken \in ends \cup {0} /\ \A e \in ends : e <= taken
  <2>1. lasts \cup {0} \in SUBSET (0..Len(U))
    BY <1>1, <1>2, <1>5
  <2>2. ends \cup {0} \in SUBSET (0..Len(U))
    BY <1>5, <2>1
  <2>3. IsFiniteSet(0..Len(U))
    BY <1>1, FS_Interval
  <2>4. IsFiniteSet(ends \cup {0})
    BY <2>2, <2>3, FS_Subset
  <2>5. ends \cup {0} \in SUBSET Int
    BY <1>1, <2>2
  <2>6. ends \cup {0} # {}
    OBVIOUS
  <2> HIDE DEF ends
  <2> QED BY <2>4, <2>5, <2>6, LastPlace
<1> HIDE DEF taken
<1>7. taken \in 0..q /\ (taken # 0 => taken \in ends /\ taken \in 1..q /\ IsLast(U[taken]))
  <2> HIDE DEF ends
  <2> QED BY <1>2, <1>5, <1>6
<1>8. cut = Picked(U, Ends(U, taken))
  BY DEF Ends
<1>9. taken # 0 => cut # <<>> /\ Len(cut) \in Nat /\ cut[Len(cut)] = U[taken]
  <2> SUFFICES ASSUME taken # 0 PROVE cut # <<>> /\ Len(cut) \in Nat /\ cut[Len(cut)] = U[taken]
    OBVIOUS
  <2>1. taken \in 1..Len(U) /\ IsLast(U[taken])
    BY <1>1, <1>2, <1>7
  <2> HIDE DEF cut
  <2> QED BY <1>1, <1>8, <2>1, PickedLast
<1>10. taken = 0 => cut = <<>>
  <2>1. taken = 0 => {i \in 1..taken : IsLast(U[i])} = {}
    OBVIOUS
  <2>2. Cardinality({}) = 0
    BY FS_EmptySet
  <2> QED BY <2>1, <2>2 DEF Picked
<1>11. aligned
  <2>1. InFrames(U)
    BY LeftInFrames
  <2> SUFFICES ASSUME NEW i \in 1..taken
               PROVE  U[i].k = 1 \/ (i > 1 /\ Continues(U[i], U[i - 1]))
    OBVIOUS
  <2>2. i \in 1..q /\ i \in 1..Len(U)
    BY <1>1, <1>2, <1>7
  <2>3. CASE i = 1
    BY <1>1, <1>2, <2>1, <2>2, <2>3 DEF InFrames
  <2>4. CASE i # 1
    <3>1. i \in 2..Len(U) /\ i > 1 /\ i - 1 \in 1..q
      <4>1. i \in Nat /\ i > 1 /\ i <= q /\ i <= Len(U)
        BY <1>01, <2>2, <2>4
      <4> QED BY <1>01, <4>1
    <3> QED BY <1>2, <2>1, <2>2, <3>1 DEF InFrames
  <2> QED BY <2>3, <2>4
<1>12. InFrames(rest)
  <2>1. taken \in 0..Len(U) /\ \A i \in 1..taken : ~IsHead(U[i])
    BY <1>1, <1>2, <1>7
  <2>2. taken # 0 => IsLast(U[taken])
    BY <1>7
  <2> QED BY <2>1, <2>2, MessagesCut, LeftInFrames
<1>13. /\ rest \in Seq(Unit) /\ Len(rest) = Len(U) - taken /\ DOMAIN rest = 1..Len(U) - taken
       /\ \A i \in 1..Len(U) - taken : rest[i] = U[i + taken]
  <2>1. taken \in Nat /\ taken <= Len(U)
    BY <1>01, <1>7
  <2> QED BY <1>01, <2>1
<1>131. taken \in Nat /\ taken <= q /\ Len(rest) \in Nat
  BY <1>7, <1>01, <1>13
<1> HIDE DEF cut, rest
\* Nothing is left whole before the segments, but behind the acknowledgement.
<1>14. ASSUME ~acked PROVE \A i \in taken + 1..q : ~IsLast(U[i])
  <2> SUFFICES ASSUME NEW i \in taken + 1..q, IsLast(U[i]) PROVE FALSE
    OBVIOUS
  <2>1. i \in lasts /\ i > taken
    BY <1>2, <1>4, <1>7
  <2>2. i \notin ends
    BY <1>6, <1>7, <2>1
  <2> DEFINE J == {j \in lasts : U[j].op = "hello_ack"}
  <2>3. awaiting /\ J # {}
    BY <2>1, <2>2 DEF StopAfterAck
  <2>4. J \in SUBSET Int /\ J \subseteq 1..q
    BY <1>2, <1>5
  <2>5. IsFiniteSet(J)
    <3>1. IsFiniteSet(1..q)
      BY <1>2, FS_Interval
    <3> QED BY <2>4, <3>1, FS_Subset
  <2> DEFINE m == Min(J)
  <2>6. m \in J /\ \A e \in J : m <= e
    BY <2>3, <2>4, <2>5, FirstPlace
  <2> HIDE DEF m
  <2>7. m \in ends
    <3>1. \A j \in lasts : j < m => U[j].op # "hello_ack"
      <4> SUFFICES ASSUME NEW j \in lasts, j < m, U[j].op = "hello_ack" PROVE FALSE
        OBVIOUS
      <4>1. j \in J /\ m \in J
        BY <2>6
      <4>2. j \in Int /\ m \in Int
        BY <2>4, <4>1
      <4> QED BY <2>6, <4>1, <4>2
    <3> QED BY <2>6, <3>1 DEF StopAfterAck
  <2>8. m <= taken /\ m \in 1..q /\ m \in lasts /\ U[m].op = "hello_ack"
    BY <1>6, <2>4, <2>6, <2>7
  <2>9. taken # 0 /\ taken \in ends
    BY <1>7, <2>8
  <2>10. ~(m < taken)
    BY <2>3, <2>8, <2>9 DEF StopAfterAck
  <2>11. m = taken
    BY <1>2, <1>7, <2>8, <2>10
  <2> QED BY <1>9, <1>14, <2>3, <2>8, <2>9, <2>11
<1> DEFINE f == Framed(U, awaiting)
<1>15. CASE acked \/ Len(rest) < Header
  <2>1. f = Framing(cut, rest, FALSE)
    BY <1>3, <1>11, <1>15
  <2>2. ~acked => Quiet(rest)
    <3> SUFFICES ASSUME ~acked, NEW i \in DOMAIN rest PROVE ~IsLast(rest[i])
      BY DEF Quiet
    <3>1. Len(rest) = 1 /\ i = 1 /\ rest[1] = U[1 + taken] /\ taken + 1 = Len(U)
      <4>1. Len(rest) < 2 /\ Len(rest) = Len(U) - taken /\ i \in 1..Len(U) - taken
        BY <1>13, <1>15 DEF Header
      <4>2. Len(U) - taken = 1 /\ i = 1
        BY <1>01, <1>131, <4>1
      <4> QED BY <1>01, <1>13, <1>131, <4>1, <4>2
    <3>2. CASE q = Len(U)
      <4>1. 1 + taken \in taken + 1..q
        BY <1>7, <3>1, <3>2
      <4> QED BY <1>14, <3>1, <4>1
    <3>3. CASE q < Len(U)
      <4>1. q = taken
        BY <1>1, <1>2, <1>7, <3>1, <3>3
      <4>2. IsHead(U[q + 1])
        BY <3>3 DEF Framable, IsHead, Heads
      <4> QED BY <1>2, <3>1, <4>1, <4>2 DEF IsLast
    <3> QED BY <1>02, <3>2, <3>3
  <2>3. acked => taken # 0 /\ U[taken].op = "hello_ack"
    BY <1>9, <1>10
  <2> HIDE DEF f
  <2>4. /\ ~f.failed /\ f.start = FALSE /\ f.rest = rest /\ f.messages = cut
    BY <2>1 DEF Framing
  <2>5. StopsAt(f, U, q, awaiting, taken)
    <3>1. Quiet(rest) \/ (awaiting /\ taken # 0 /\ U[taken].op = "hello_ack")
      BY <2>2, <2>3
    <3>2. taken # 0 => IsLast(U[taken]) /\ cut # <<>>
      BY <1>7, <1>9
    <3>3. cut # <<>> => taken # 0 /\ cut[Len(cut)] = U[taken]
      BY <1>9, <1>10
    <3>4. taken \in 0..q
      BY <1>7
    <3> QED BY <2>4, <3>1, <3>2, <3>3, <3>4 DEF StopsAt, rest
  <2> QED BY <2>5 DEF f
<1>16. CASE ~acked /\ ~(Len(rest) < Header)
  <2>0. Len(rest) >= 2 /\ Len(rest) \in Nat /\ 1 \in DOMAIN rest
    BY <1>1, <1>2, <1>7, <1>13, <1>16 DEF Header
  <2>1. CASE q = Len(U)
    <3>1. \A i \in DOMAIN rest : ~IsHead(rest[i]) /\ ~IsLast(rest[i])
      <4> SUFFICES ASSUME NEW i \in DOMAIN rest PROVE ~IsHead(rest[i]) /\ ~IsLast(rest[i])
        OBVIOUS
      <4>1. rest[i] = U[i + taken] /\ i + taken \in taken + 1..q /\ i + taken \in 1..q
        BY <1>01, <1>13, <1>131, <2>1
      <4> QED BY <1>2, <1>14, <1>16, <4>1
    <3>2. Quiet(rest)
      BY <3>1 DEF Quiet
    <3>3. rest[1].k = 1 /\ ~IsHead(rest[1]) /\ Continues(rest[2], rest[1])
      <4>1. 1 \in DOMAIN rest /\ 2 \in DOMAIN rest /\ 2 \in 2..Len(rest) /\ rest # <<>> /\ 2 - 1 = 1
        BY <1>13, <2>0
      <4>2. ~IsHead(rest[1]) /\ ~IsHead(rest[2])
        BY <3>1, <4>1
      <4>3. rest[1].k = 1
        BY <1>12, <4>1, <4>2 DEF InFrames
      <4>4. ~IsLast(rest[1])
        BY <3>1, <4>1
      <4>5. Continues(rest[2], rest[1])
        BY <1>12, <4>1, <4>2, <4>4 DEF InFrames
      <4> QED BY <4>2, <4>3, <4>5
    <3>4. f = Framing(cut, rest, FALSE)
      BY <1>3, <1>11, <3>3
    <3> HIDE DEF f
    <3>5. /\ ~f.failed /\ f.start = FALSE /\ f.rest = rest /\ f.messages = cut
      BY <3>4 DEF Framing
    <3>6. taken # 0 => IsLast(U[taken]) /\ cut # <<>>
      BY <1>7, <1>9
    <3>7. cut # <<>> => taken # 0 /\ cut[Len(cut)] = U[taken]
      BY <1>9, <1>10
    <3>8. StopsAt(f, U, q, awaiting, taken)
      BY <1>7, <3>2, <3>5, <3>6, <3>7 DEF StopsAt, rest
    <3> QED BY <3>8 DEF f
  <2>2. CASE q < Len(U)
    <3>1. awaiting /\ taken = q
      <4>1. awaiting /\ (q # 0 => IsLast(U[q]))
        BY <2>2 DEF Framable
      <4>2. q # 0 /\ taken # q => q \in taken + 1..q
        BY <1>2, <1>7
      <4>3. q = 0 => taken = q
        BY <1>7
      <4> QED BY <1>14, <1>16, <4>1, <4>2, <4>3
    <3> DEFINE of == U[q + 1].of
    <3>2. rest[1] = U[q + 1] /\ rest[1].op = "opening" /\ of \in Nat /\ IsHead(rest[1])
          /\ \A i \in 1..of : q + i <= Len(U) => IsHead(U[q + i])
      <4>1. rest[1] = U[1 + taken] /\ 1 + taken = q + 1
        BY <1>1, <1>2, <1>13, <2>2, <3>1
      <4> QED BY <2>2, <4>1 DEF Framable, IsHead, Heads
    <3> HIDE DEF of
    <3>3. start = IF Len(rest) < of THEN "need_more" ELSE "yes"
      BY <1>16, <3>1, <3>2 DEF segment_start, of
    <3>4. CASE Len(rest) < of
      <4>1. f = Framing(cut, rest, FALSE)
        BY <1>3, <1>11, <3>3, <3>4
      <4> HIDE DEF f
      <4>2. /\ ~f.failed /\ f.start = FALSE /\ f.rest = rest /\ f.messages = cut
        BY <4>1 DEF Framing
      <4>3. Quiet(rest)
        <5> SUFFICES ASSUME NEW i \in DOMAIN rest PROVE ~IsLast(rest[i])
          BY DEF Quiet
        <5>1. i \in 1..of /\ q + i <= Len(U) /\ rest[i] = U[q + i]
          BY <1>1, <1>2, <1>13, <2>0, <3>1, <3>2, <3>4
        <5> QED BY <3>2, <5>1 DEF IsLast
      <4>4. taken # 0 => IsLast(U[taken]) /\ cut # <<>>
        BY <1>7, <1>9
      <4>5. cut # <<>> => taken # 0 /\ cut[Len(cut)] = U[taken]
        BY <1>9, <1>10
      <4>6. StopsAt(f, U, q, awaiting, taken)
        BY <1>7, <4>2, <4>3, <4>4, <4>5 DEF StopsAt, rest
      <4> QED BY <4>6 DEF f
    <3>5. CASE ~(Len(rest) < of)
      <4>1. start = "yes" /\ ~waits
        BY <1>16, <3>2, <3>3, <3>5
      <4>2. f = Framing(cut, rest, TRUE)
        BY <1>3, <1>11, <4>1
      <4> HIDE DEF f
      <4>3. /\ ~f.failed /\ f.start = TRUE /\ f.rest = rest /\ f.messages = cut
        BY <4>2 DEF Framing
      <4>4. taken # 0 => IsLast(U[taken]) /\ cut # <<>>
        BY <1>7, <1>9
      <4>5. cut # <<>> => taken # 0 /\ cut[Len(cut)] = U[taken]
        BY <1>9, <1>10
      <4>6. StopsAt(f, U, q, awaiting, taken)
        BY <1>7, <2>2, <3>1, <4>3, <4>4, <4>5 DEF StopsAt, rest
      <4> QED BY <4>6 DEF f
    <3> QED BY <3>4, <3>5
  <2> QED BY <1>02, <2>1, <2>2
<1> QED BY <1>15, <1>16

\* Runs behind each other, and what is passed over.
LEMMA TailJoined ==
    ASSUME NEW A \in Seq(Unit), NEW W \in Seq(Unit), NEW t \in 0..Len(A)
    PROVE  SubSeq(A, t + 1, Len(A)) \o W = SubSeq(A \o W, t + 1, Len(A \o W))
<1> DEFINE P == SubSeq(A, 1, t)
           X == SubSeq(A, t + 1, Len(A))
           Y == X \o W
<1>1. Len(A) \in Nat /\ t \in Nat /\ t <= Len(A)
  OBVIOUS
<1>2. P \in Seq(Unit) /\ Len(P) = t /\ X \in Seq(Unit)
  BY <1>1
<1>3. A = P \o X
  <2>1. 1 \in 1..Len(A) + 1 /\ t \in 1 - 1..Len(A) /\ Len(A) \in t..Len(A)
    BY <1>1
  <2>2. P \o X = SubSeq(A, 1, Len(A))
    BY <2>1, ConcatAdjacentSubSeq
  <2> QED BY <2>2, SubSeqFull
<1> HIDE DEF P, X
<1>4. A \o W = P \o Y /\ Y \in Seq(Unit)
  BY <1>2, <1>3, ConcatAssociative
<1>5. Len(A \o W) = t + Len(Y) /\ Len(Y) \in Nat
  BY <1>2, <1>4
<1> HIDE DEF Y
<1>6. SubSeq(P \o Y, t + 1, t + Len(Y)) = Y
  <2>1. CASE Len(Y) = 0
    BY <1>2, <1>4, <2>1
  <2>2. CASE Len(Y) # 0
    <3> DEFINE m == t + 1
               n == t + Len(Y)
    <3>1. /\ m \in Len(P) + 1..Len(P) + Len(Y) /\ n \in Len(P) + 1..Len(P) + Len(Y)
          /\ m - Len(P) = 1 /\ n - Len(P) = Len(Y)
      BY <1>1, <1>2, <1>5, <2>2
    <3> HIDE DEF m, n
    <3>2. SubSeq(P \o Y, m, n) = SubSeq(Y, m - Len(P), n - Len(P))
      BY <1>2, <1>4, <3>1, SubSeqOfConcat2
    <3>3. SubSeq(P \o Y, m, n) = SubSeq(Y, 1, Len(Y))
      BY <3>1, <3>2
    <3> QED BY <1>4, <3>3, SubSeqFull DEF m, n
  <2> QED BY <2>1, <2>2
<1> QED BY <1>4, <1>5, <1>6 DEF X, Y

\* The layers are in step with what is left on the wire.
Goes(l, W) ==
    Held(l) /\ LET S == Unread(l, W) IN \E p \in 0..Len(S) : Arriving(l, S, p)

LayerFields == {"buffer", "segments", "awaiting", "compressed", "failed"}

\* Frames given to the Framer, as long as they are within its limit.
LEMMA FedFrames ==
    ASSUME NEW msgs, NEW l, NEW B \in Seq(Unit), NEW W \in Seq(Unit), NEW L, NEW a,
           DOMAIN l = LayerFields, l.failed = FALSE, l.awaiting = FALSE, l.compressed = FALSE,
           l.segments = <<>>, Left(msgs, l.buffer, Keys(B) \cup L, a), Behind(B, L),
           NoHeads(l.buffer \o B), Len(l.buffer) + Len(B) <= MaxMessage,
           ~server.zstd, SegmentsSo, Shaped((l.buffer \o B) \o W, Len((l.buffer \o B) \o W))
    PROVE  Goes(Fed(l, B).layers, W)
<1> DEFINE U == l.buffer \o B
           f == feed(l.buffer, B, FALSE)
           after == [l EXCEPT !.buffer = f.rest, !.failed = f.failed]
           S == U \o W
<1>1. l.buffer \in Seq(Unit) /\ Len(l.buffer) \in Nat /\ Len(B) \in Nat
  BY DEF Left, Ordered
<1>2. U \in Seq(Unit) /\ Left(msgs, U, L, a)
  BY <1>1, LeftJoined
<1>3. f = Framed(U, FALSE)
  <2> DEFINE b == Len(l.buffer)
             n == Len(B)
  <2>1. b \in Nat /\ n \in Nat /\ b + n <= MaxMessage /\ MaxMessage \in Nat
    BY <1>1, LayersAssumption
  <2> HIDE DEF b, n
  <2>2. ~(n > MaxMessage - (IF b < MaxMessage THEN b ELSE MaxMessage))
    BY <2>1
  <2> QED BY <2>2 DEF feed, b, n
<1>4. Fed(l, B).layers = after
  BY DEF Fed
<1>5. NoHeads(U) /\ S \in Seq(Unit) /\ Len(S) \in Nat
  BY <1>2
<1> HIDE DEF U, f, S
<1>6. Framable(U, Len(U), FALSE)
  <2>1. Len(U) \in Nat /\ DOMAIN U = 1..Len(U)
    BY <1>2
  <2>2. \A i \in 1..Len(U) : ~IsHead(U[i])
    BY <1>5, <2>1 DEF NoHeads
  <2>3. Len(U) \in 0..Len(U) /\ ~(Len(U) < Len(U))
    BY <2>1
  <2> QED BY <2>2, <2>3 DEF Framable
<1>7. PICK t : StopsAt(f, U, Len(U), FALSE, t)
  BY <1>2, <1>3, <1>6, FramedInStep
<1>8. t \in 0..Len(U) /\ f.rest = SubSeq(U, t + 1, Len(U)) /\ f.failed = FALSE /\ Quiet(f.rest)
  BY <1>7, <1>3 DEF StopsAt, Framed, Framing, Desync
<1>9. NoHeads(f.rest)
  <2>1. Len(U) \in Nat /\ t \in Nat /\ t <= Len(U) /\ DOMAIN U = 1..Len(U)
    BY <1>2, <1>8
  <2>2. DOMAIN f.rest = 1..Len(U) - t /\ \A i \in 1..Len(U) - t : f.rest[i] = U[i + t]
    BY <1>2, <1>8, <2>1
  <2>3. \A i \in 1..Len(U) - t : i + t \in 1..Len(U)
    BY <2>1
  <2> QED BY <1>5, <2>1, <2>2, <2>3 DEF NoHeads
<1>10. /\ after.buffer = f.rest /\ after.failed = FALSE /\ after.awaiting = FALSE
       /\ after.compressed = FALSE /\ after.segments = <<>>
  BY <1>8 DEF LayerFields
<1> HIDE DEF after
<1>11. Held(after)
  <2>1. \A i \in DOMAIN after.segments : FALSE
    BY <1>10
  <2> QED BY <1>8, <1>9, <1>10, <2>1 DEF Held
<1>12. Unread(after, W) = SubSeq(S, t + 1, Len(S))
  <2>1. Unread(after, W) = f.rest \o W
    BY <1>10 DEF Unread
  <2> QED BY <1>2, <1>8, <2>1, TailJoined DEF S
<1>13. t \in 0..Len(S)
  BY <1>2, <1>8 DEF S
<1>14. Shaped(S, Len(S))
  BY DEF S, U
<1> DEFINE R == SubSeq(S, t + 1, Len(S))
           p == Len(S) - t
<1>15. R \in Seq(Unit) /\ Len(R) = p /\ Shaped(R, p)
  BY <1>5, <1>13, <1>14, FramesOn
<1>16. p \in 0..Len(R) /\ ~(p < Len(R))
  BY <1>5, <1>13, <1>15
<1> HIDE DEF R, p
<1>17. Arriving(after, R, p)
  BY <1>10, <1>15, <1>16 DEF Arriving, SegmentsSo
<1> QED BY <1>4, <1>11, <1>12, <1>16, <1>17 DEF Goes, R

\* What is picked is all of it of a kind, if each unit is.
LEMMA PickedHas ==
    ASSUME NEW U \in Seq(Unit), NEW S \in SUBSET (1..Len(U)), \A i \in S : ~IsHead(U[i])
    PROVE  NoHeads(Picked(U, S))
<1>1. Len(U) \in Nat
  OBVIOUS
<1>2. S \in SUBSET Int /\ IsFiniteSet(S)
  <2>1. IsFiniteSet(1..Len(U))
    BY <1>1, FS_Interval
  <2>2. IsFiniteSet(S)
    BY <2>1, FS_Subset
  <2> QED BY <1>1, <2>2
<1> DEFINE c == Cardinality(S)
           V == Picked(U, S)
<1>3. PICK f : Numbers(f, S) /\ V = [j \in 1..c |-> U[f[j]]]
  BY <1>2, PickedAre
<1>4. f \in [1..c -> S] /\ DOMAIN V = 1..c /\ \A j \in 1..c : V[j] = U[f[j]]
  BY <1>3 DEF Numbers
<1> HIDE DEF c, V
<1>5. NoHeads(V)
  BY <1>4 DEF NoHeads
<1> QED BY <1>5 DEF V

\* Joined runs without heads.
LEMMA NoHeadsJoined ==
    ASSUME NEW A \in Seq(Unit), NEW B \in Seq(Unit), NoHeads(A), NoHeads(B)
    PROVE  NoHeads(A \o B)
<1> DEFINE R == A \o B
           m == Len(A)
           n == Len(B)
<1>1. m \in Nat /\ n \in Nat /\ DOMAIN A = 1..m /\ DOMAIN B = 1..n
  OBVIOUS
<1>2. DOMAIN R = 1..m + n /\ (\A i \in 1..m : R[i] = A[i])
      /\ \A i \in m + 1..m + n : R[i] = B[i - m]
  BY <1>1
<1> HIDE DEF R, m, n
<1>3. ASSUME NEW i \in 1..m + n PROVE ~IsHead(R[i])
  <2>1. CASE i <= m
    <3>1. i \in 1..m
      BY <1>1, <2>1
    <3> QED BY <1>1, <1>2, <3>1 DEF NoHeads
  <2>2. CASE i > m
    <3>1. i \in m + 1..m + n /\ i - m \in 1..n
      BY <1>1, <2>2
    <3> QED BY <1>1, <1>2, <3>1 DEF NoHeads
  <2> QED BY <1>1, <2>1, <2>2
<1> QED BY <1>2, <1>3 DEF NoHeads, R

\* Segments given to the decoder, and what they carry to the Framer.
LEMMA FedSegments ==
    ASSUME NEW msgs, NEW l, NEW B \in Seq(Unit), NEW W \in Seq(Unit), NEW L, NEW a,
           DOMAIN l = LayerFields, l.failed = FALSE, l.awaiting = FALSE, l.compressed = TRUE,
           Left(msgs, l.buffer, Keys(l.segments \o B) \cup L, a), Behind(l.segments \o B, L),
           NoHeads(l.buffer), server.segmenting, SegmentsSo,
           Shaped((l.segments \o B) \o W, 0),
           ~server.opened => (l.segments \o B) \o W = <<>>
    PROVE  Goes(Fed(l, B).layers, W)
<1> DEFINE U == l.segments \o B
           S == U \o W
           d == decode(U)
           V == l.buffer \o d.units
           f == feed_decoded(l.buffer, d.units)
           after == [l EXCEPT !.segments = d.rest, !.buffer = f.rest,
                              !.failed = d.failed \/ f.failed]
           ends == {i \in DOMAIN U : U[i].ends}
           done == Max(ends \cup {0})
           P == {i \in 1..done : ~IsHead(U[i])}
<1>6. Left(msgs, l.buffer, Keys(U) \cup L, a) /\ Behind(U, L)
  OBVIOUS
<1> HIDE DEF U
<1>0. Ordered(U) /\ U \in Seq(Unit) /\ l.buffer \in Seq(Unit)
  BY <1>6 DEF Behind, Left, Ordered
<1>1. Ordered(U) /\ U \in Seq(Unit) /\ Len(U) \in Nat /\ DOMAIN U = 1..Len(U)
      /\ l.buffer \in Seq(Unit)
  BY <1>0
<1>2. S \in Seq(Unit) /\ Len(S) \in Nat /\ Len(S) >= Len(U) /\ \A i \in 1..Len(U) : S[i] = U[i]
  BY <1>1
<1>3. Fed(l, B).layers = after
  BY DEF Fed, U
<1>4. d.units = Picked(U, P) /\ d.rest = SubSeq(U, done + 1, Len(U))
      /\ d.failed = \E i \in {0} \cup ends :
                        i < Len(U) /\ ~(IsHead(U[i + 1]) /\ U[i + 1].k = 1)
  BY DEF decode
<1>5. Shaped(S, 0) /\ (~server.opened => S = <<>>)
  BY DEF U
<1>7. /\ Ordered(d.units) /\ Ordered(d.rest) /\ Before(Keys(d.units), Keys(d.rest))
      /\ Keys(d.units) \cup Keys(d.rest) = Keys(U)
  BY <1>1, DecodeKeeps
<1> HIDE DEF S, d
<1>8. done \in ends \cup {0} /\ (\A e \in ends : e <= done) /\ done \in 0..Len(U)
  <2>1. ends \cup {0} \in SUBSET (0..Len(U)) /\ ends \cup {0} \in SUBSET Int
    BY <1>1
  <2>2. IsFiniteSet(0..Len(U))
    BY <1>1, FS_Interval
  <2>3. IsFiniteSet(ends \cup {0}) /\ ends \cup {0} # {}
    BY <2>1, <2>2, FS_Subset
  <2> HIDE DEF ends
  <2> QED BY <2>1, <2>3, LastPlace
<1> HIDE DEF done
<1>9. ~d.failed
  <2> SUFFICES ASSUME NEW i \in {0} \cup ends, i < Len(U)
               PROVE  IsHead(U[i + 1]) /\ U[i + 1].k = 1
    BY <1>4
  <2>1. i \in 0..Len(S) - 1 /\ i + 1 \in 1..Len(U) /\ (i # 0 => i \in 1..Len(U) /\ U[i].ends)
    BY <1>1, <1>2
  <2>2. i = 0 \/ S[i].ends
    BY <1>2, <2>1
  <2>3. IsHead(S[i + 1]) /\ S[i + 1].k = 1
    BY <1>5, <2>1, <2>2 DEF Shaped
  <2> QED BY <1>2, <2>1, <2>3
<1>10. done = 0 \/ (done \in 1..Len(U) /\ U[done].ends)
  BY <1>1, <1>8
<1>11. \A i \in DOMAIN d.rest : ~d.rest[i].ends
  <2>1. done \in Nat /\ done <= Len(U)
    BY <1>1, <1>8
  <2>2. DOMAIN d.rest = 1..Len(U) - done /\ \A i \in 1..Len(U) - done : d.rest[i] = U[i + done]
    BY <1>1, <1>4, <2>1
  <2> SUFFICES ASSUME NEW i \in 1..Len(U) - done, d.rest[i].ends PROVE FALSE
    BY <2>2
  <2>3. i + done \in 1..Len(U) /\ i + done > done
    BY <1>1, <2>1
  <2>4. i + done \in ends
    BY <1>1, <2>2, <2>3
  <2>5. i + done <= done
    BY <1>8, <2>4
  <2> QED BY <2>1, <2>3, <2>5
<1>12. NoHeads(d.units) /\ d.units \in Seq(Unit)
  <2>1. P \in SUBSET (1..Len(U)) /\ \A i \in P : ~IsHead(U[i])
    BY <1>1, <1>8
  <2> HIDE DEF P
  <2> QED BY <1>1, <1>4, <1>7, <2>1, PickedHas DEF Ordered
<1>13. NoHeads(V) /\ V \in Seq(Unit)
  BY <1>1, <1>12, NoHeadsJoined
<1>14. Left(msgs, V, Keys(d.rest) \cup L, a)
  <2>1. Left(msgs, l.buffer, Keys(d.units) \cup (Keys(d.rest) \cup L), a)
    <3>1. Keys(U) \cup L = Keys(d.units) \cup (Keys(d.rest) \cup L)
      BY <1>7
    <3> QED BY <1>6, <3>1
  <2>2. Behind(d.units, Keys(d.rest) \cup L)
    BY <1>6, <1>7 DEF Behind, Before
  <2> QED BY <2>1, <2>2, LeftJoined
<1>15. f = Framed(V, FALSE)
  BY DEF feed_decoded
<1> HIDE DEF V, f
<1>16. Framable(V, Len(V), FALSE)
  <2>1. Len(V) \in Nat /\ DOMAIN V = 1..Len(V)
    BY <1>13
  <2>2. \A i \in 1..Len(V) : ~IsHead(V[i])
    BY <1>13, <2>1 DEF NoHeads
  <2>3. Len(V) \in 0..Len(V) /\ ~(Len(V) < Len(V))
    BY <2>1
  <2> QED BY <2>2, <2>3 DEF Framable
<1>17. PICK t : StopsAt(f, V, Len(V), FALSE, t)
  BY <1>14, <1>15, <1>16, FramedInStep
<1>18. t \in 0..Len(V) /\ f.rest = SubSeq(V, t + 1, Len(V)) /\ ~f.failed /\ Quiet(f.rest)
  BY <1>17 DEF StopsAt
<1>19. NoHeads(f.rest)
  <2>1. Len(V) \in Nat /\ t \in Nat /\ t <= Len(V) /\ DOMAIN V = 1..Len(V)
    BY <1>13, <1>18
  <2>2. DOMAIN f.rest = 1..Len(V) - t /\ \A i \in 1..Len(V) - t : f.rest[i] = V[i + t]
    BY <1>13, <1>18, <2>1
  <2>3. \A i \in 1..Len(V) - t : i + t \in 1..Len(V)
    BY <2>1
  <2> QED BY <1>13, <2>1, <2>2, <2>3 DEF NoHeads
<1>20. /\ after.buffer = f.rest /\ after.failed = FALSE /\ after.awaiting = FALSE
       /\ after.compressed = TRUE /\ after.segments = d.rest
  BY <1>9, <1>18 DEF LayerFields
<1> HIDE DEF after
<1>21. Held(after)
  BY <1>11, <1>18, <1>19, <1>20 DEF Held
<1> DEFINE R == SubSeq(S, done + 1, Len(S))
<1>22. Unread(after, W) = R
  <2>1. Unread(after, W) = d.rest \o W
    BY <1>20 DEF Unread
  <2>2. SubSeq(U, done + 1, Len(U)) \o W = SubSeq(U \o W, done + 1, Len(U \o W))
    BY <1>0, <1>8, TailJoined
  <2> QED BY <1>4, <2>1, <2>2 DEF S
<1>23. done \in 0..Len(S) /\ (done = 0 \/ S[done].ends)
  BY <1>1, <1>2, <1>8, <1>10
<1>24. R \in Seq(Unit) /\ Shaped(R, 0)
  BY <1>2, <1>5, <1>23, SegmentsOn
<1>25. ~server.opened => Len(R) = 0
  <2> SUFFICES ASSUME ~server.opened PROVE Len(R) = 0
    OBVIOUS
  <2>1. S = <<>> /\ Len(S) = 0 /\ done = 0
    BY <1>5, <1>23
  <2> QED BY <2>1
<1>26. Len(R) \in Nat /\ 0 \in 0..Len(R)
  BY <1>24
<1> HIDE DEF R
<1>27. Arriving(after, R, 0)
  BY <1>20, <1>24, <1>25 DEF Arriving
<1> QED BY <1>3, <1>21, <1>22, <1>26, <1>27 DEF Goes

\* While the acknowledgement is awaited, what is there is what the Framer stops at.
LEMMA ArrivesFramable ==
    ASSUME NEW U \in Seq(Unit), NEW W \in Seq(Unit), NEW p, Shaped(U \o W, p),
           p < Len(U \o W) => Opening(U \o W, p)
    PROVE  Framable(U, IF p < Len(U) THEN p ELSE Len(U), TRUE)
<1> DEFINE S == U \o W
           q == IF p < Len(U) THEN p ELSE Len(U)
           u == Len(U)
<1>1. S \in Seq(Unit) /\ Len(S) \in Nat /\ u \in Nat /\ u <= Len(S) /\ \A i \in 1..u : S[i] = U[i]
  OBVIOUS
<1>2. Shaped(S, p) /\ (p < Len(S) => Opening(S, p))
  OBVIOUS
<1> HIDE DEF S
<1>3. p \in Nat /\ p <= Len(S)
  BY <1>1, <1>2 DEF Shaped
<1>4. q \in Nat /\ q <= u /\ q <= p /\ (q < u => q = p /\ p < Len(S))
  <2> HIDE DEF u
  <2> QED BY <1>1, <1>3 DEF u
<1> HIDE DEF q, u
<1>5. \A i \in 1..q : ~IsHead(U[i])
  <2> SUFFICES ASSUME NEW i \in 1..q PROVE ~IsHead(U[i])
    OBVIOUS
  <2>1. i \in 1..p /\ i \in 1..u
    BY <1>3, <1>4, <1>1
  <2> QED BY <1>1, <1>2, <2>1 DEF Shaped
<1>6. ASSUME q < u
      PROVE  /\ q # 0 => IsLast(U[q])
             /\ U[q + 1].op = "opening" /\ U[q + 1].of \in Nat
             /\ \A i \in 1..U[q + 1].of : q + i <= u => IsHead(U[q + i])
  <2>1. q = p /\ p < Len(S) /\ Opening(S, p)
    BY <1>2, <1>4, <1>6
  <2>2. q # 0 => q \in 1..u /\ U[q] = S[p]
    <3>1. q # 0 => q \in 1..u
      BY <1>1, <1>4
    <3> QED BY <1>1, <2>1, <3>1
  <2>3. U[q + 1] = S[p + 1]
    <3>1. q + 1 \in 1..u
      BY <1>1, <1>4, <1>6
    <3> QED BY <1>1, <2>1, <3>1
  <2>4. q # 0 => IsLast(U[q])
    BY <1>2, <2>1, <2>2 DEF Shaped
  <2> DEFINE of == S[p + 1].of
  <2>5. S[p + 1].op = "opening" /\ of \in Nat /\ \A i \in 1..of : IsHead(S[p + i])
    BY <2>1 DEF Opening
  <2> HIDE DEF of
  <2>6. ASSUME NEW i \in 1..of, q + i <= u PROVE IsHead(U[q + i])
    <3>1. q + i \in 1..u
      BY <1>1, <1>4, <2>5, <2>6
    <3>2. U[q + i] = S[p + i]
      BY <1>1, <2>1, <3>1
    <3> QED BY <2>5, <3>2
  <2> QED BY <2>3, <2>4, <2>5, <2>6 DEF of
<1>7. q \in 0..u
  BY <1>1, <1>4
<1> QED BY <1>5, <1>6, <1>7 DEF Framable, q, u

\* What was pending goes to the layer that is its own.
LEMMA ReroutedInStep ==
    ASSUME NEW l, NEW messages, NEW pending \in Seq(Unit), NEW zstd \in BOOLEAN,
           NEW W \in Seq(Unit), NEW L, NEW a,
           DOMAIN l = LayerFields, l.failed = FALSE, l.segments = <<>>, SegmentsSo,
           Left(sent, pending, L, a),
           zstd => /\ server.segmenting /\ Shaped(pending \o W, 0)
                   /\ (~server.opened => pending \o W = <<>>),
           ~zstd => /\ ~server.zstd /\ NoHeads(pending) /\ Len(pending) <= MaxMessage
                    /\ Shaped(pending \o W, Len(pending \o W))
    PROVE  Goes(Rerouted(l, messages, pending, zstd).layers, W)
<1> DEFINE k == [l EXCEPT !.buffer = <<>>, !.awaiting = FALSE, !.compressed = zstd]
           after == Fed(k, pending)
<1>1. /\ DOMAIN k = LayerFields /\ k.buffer = <<>> /\ k.segments = <<>> /\ k.failed = FALSE
      /\ k.awaiting = FALSE /\ k.compressed = zstd
  BY DEF LayerFields
<1>2. Rerouted(l, messages, pending, zstd).layers = after.layers
  <2>1. Rerouted(l, messages, pending, zstd) = [after EXCEPT !.messages = messages \o @]
    BY DEF Rerouted
  <2> HIDE DEF k
  <2>2. DOMAIN after = {"messages", "layers"}
    BY DEF Fed
  <2> HIDE DEF after
  <2> QED BY <2>1, <2>2
<1> HIDE DEF k
<1>3. Behind(pending, L) /\ Left(sent, <<>>, Keys(pending) \cup L, a)
  BY EmptyCarries DEF Left, Behind, Before
<1>4. <<>> \o pending = pending
  OBVIOUS
<1>5. CASE zstd
  <2>1. NoHeads(k.buffer)
    BY <1>1 DEF NoHeads
  <2>2. k.segments \o pending = pending
    BY <1>1, <1>4
  <2>3. /\ Left(sent, k.buffer, Keys(k.segments \o pending) \cup L, a)
        /\ Behind(k.segments \o pending, L)
        /\ Shaped((k.segments \o pending) \o W, 0)
        /\ (~server.opened => (k.segments \o pending) \o W = <<>>)
    BY <1>1, <1>3, <1>5, <2>2
  <2>4. k.compressed = TRUE /\ server.segmenting
    BY <1>1, <1>5
  <2>5. Goes(Fed(k, pending).layers, W)
    BY <1>1, <2>1, <2>3, <2>4, FedSegments
  <2> QED BY <1>2, <2>5
<1>6. CASE ~zstd
  <2>1. k.buffer \o pending = pending
    BY <1>1, <1>4
  <2>2. Len(k.buffer) + Len(pending) <= MaxMessage
    <3>1. Len(k.buffer) = 0 /\ Len(pending) \in Nat
      BY <1>1
    <3> QED BY <1>6, <3>1
  <2>3. k.compressed = FALSE /\ ~server.zstd
    BY <1>1, <1>6
  <2>4. /\ Left(sent, k.buffer, Keys(pending) \cup L, a)
        /\ NoHeads(k.buffer \o pending)
        /\ Shaped((k.buffer \o pending) \o W, Len((k.buffer \o pending) \o W))
    BY <1>1, <1>3, <1>6, <2>1
  <2>5. Goes(Fed(k, pending).layers, W)
    BY <1>1, <1>3, <2>2, <2>3, <2>4, FedFrames
  <2> QED BY <1>2, <2>5
<1> QED BY <1>5, <1>6

\* A read while the acknowledgement is awaited: what the layer that follows it is given, and
\* what is kept.
LEMMA AwaitInStep ==
    ASSUME NEW l, NEW B \in Seq(Unit), NEW W \in Seq(Unit), NEW L, NEW a, NEW p,
           DOMAIN l = LayerFields, Held(l), Left(sent, l.buffer, Keys(B) \cup L, a),
           Behind(B, L), SegmentsSo, l.awaiting, l.segments = <<>>,
           Arriving(l, (l.buffer \o B) \o W, p), Len(l.buffer) + Len(B) <= MaxMessage
    PROVE  Goes(ingest(l, B).layers, W)
<1> DEFINE U == l.buffer \o B
           S == U \o W
           f == feed(l.buffer, B, TRUE)
           n == Len(f.messages)
           acked == n > 0 /\ f.messages[n].op = "hello_ack"
           zstd == sent[f.messages[n].n].about.capabilities.zstd
           kept == [l EXCEPT !.buffer = f.rest]
           q == IF p < Len(U) THEN p ELSE Len(U)
<1>1. l.buffer \in Seq(Unit) /\ Len(l.buffer) \in Nat /\ Len(B) \in Nat
  BY DEF Left, Ordered
<1>2. U \in Seq(Unit) /\ Left(sent, U, L, a)
  BY <1>1, LeftJoined
<1>3. f = Framed(U, TRUE)
  <2> DEFINE b == Len(l.buffer)
             m == Len(B)
  <2>1. b \in Nat /\ m \in Nat /\ b + m <= MaxMessage /\ MaxMessage \in Nat
    BY <1>1, LayersAssumption
  <2> HIDE DEF b, m
  <2>2. ~(m > MaxMessage - (IF b < MaxMessage THEN b ELSE MaxMessage))
    BY <2>1
  <2> QED BY <2>2 DEF feed, b, m
<1>30. l.failed = FALSE /\ l.awaiting = TRUE /\ l.compressed = FALSE
  BY DEF Held
<1>4. ingest(l, B).layers =
        IF f.failed THEN [l EXCEPT !.buffer = <<>>, !.failed = TRUE]
        ELSE IF acked THEN Rerouted(l, f.messages, f.rest, zstd).layers
        ELSE IF f.start THEN Rerouted(l, f.messages, f.rest, TRUE).layers
        ELSE kept
  <2> HIDE DEF f
  <2> QED BY <1>30 DEF ingest, FollowEarlySwitch, f
<1>5. Len(U) \in Nat /\ Len(U) <= MaxMessage /\ Len(U) = Len(l.buffer) + Len(B)
  BY <1>1
<1>6. S \in Seq(Unit) /\ Len(S) \in Nat /\ Len(U) <= Len(S) /\ \A i \in 1..Len(U) : S[i] = U[i]
  BY <1>2
<1>7. Arriving(l, S, p)
  OBVIOUS
<1>8. Forwards(sent, f, L, a)
  BY <1>2, <1>3, FramedForwards
<1> HIDE DEF U, f
<1>9. /\ Shaped(S, p) /\ (~server.opened => p = Len(S)) /\ (server.opened => p < Len(S))
      /\ (p < Len(S) => Opening(S, p)) /\ PlainAck(S, p)
  BY <1>7, <1>30 DEF Arriving
<1>10. Framable(U, q, TRUE)
  BY <1>2, <1>9, ArrivesFramable
<1> HIDE DEF S
<1>11. p \in Nat /\ p <= Len(S)
  BY <1>6, <1>9 DEF Shaped
<1>12. q \in Nat /\ q <= p /\ q <= Len(U) /\ (q < Len(U) => q = p)
  BY <1>5, <1>11
<1> HIDE DEF q
<1>13. PICK t : StopsAt(f, U, q, TRUE, t)
  BY <1>2, <1>3, <1>10, FramedInStep
<1>14. /\ ~f.failed /\ f.rest = SubSeq(U, t + 1, Len(U)) /\ t \in Nat /\ t <= q
       /\ t <= p /\ t <= Len(U)
  <2>1. ~f.failed /\ f.rest = SubSeq(U, t + 1, Len(U)) /\ t \in 0..q
    BY <1>13 DEF StopsAt
  <2>2. t \in Nat /\ t <= q
    BY <1>12, <2>1
  <2>3. t <= p /\ t <= Len(U)
    BY <1>5, <1>11, <1>12, <2>2
  <2> QED BY <2>1, <2>2, <2>3
<1> DEFINE R == SubSeq(S, t + 1, Len(S))
<1>15. f.rest \in Seq(Unit) /\ f.rest \o W = R
  <2>1. t \in 0..Len(U)
    BY <1>5, <1>14
  <2>2. SubSeq(U, t + 1, Len(U)) \o W = SubSeq(U \o W, t + 1, Len(U \o W))
    BY <1>2, <2>1, TailJoined
  <2>3. SubSeq(U, t + 1, Len(U)) \in Seq(Unit)
    BY <1>2, <2>1
  <2> QED BY <1>14, <2>2, <2>3 DEF S
<1>16. /\ R \in Seq(Unit) /\ Len(R) = Len(S) - t /\ Shaped(R, p - t)
       /\ (Opening(S, p) => Opening(R, p - t)) /\ (PlainAck(S, p) => PlainAck(R, p - t))
  <2>1. t \in 0..p
    BY <1>11, <1>14
  <2> QED BY <1>6, <1>9, <2>1, FramesOn
<1>17. Left(sent, f.rest, L, a + n)
  BY <1>8, <1>14 DEF Forwards
<1>18. f.messages \in Seq(Unit) /\ n \in Nat
  BY <1>8 DEF Forwards, Delivers
<1> HIDE DEF R
\* Behind the acknowledgement come segments, or frames to the end.
<1>19. CASE acked
  <2>1. f.messages # <<>> /\ t # 0 /\ IsLast(U[t]) /\ f.messages[n] = U[t]
    BY <1>13, <1>18, <1>19 DEF StopsAt
  <2>2. t \in 1..Len(U) /\ t \in 1..p
    BY <1>5, <1>11, <1>14, <2>1
  <2>3. U[t] = S[t] /\ S[t].op = "hello_ack"
    BY <1>6, <1>19, <2>1, <2>2
  <2>4. zstd = server.zstd
    BY <1>9, <2>1, <2>2, <2>3 DEF PlainAck
  <2>5. server.zstd => t = p /\ server.segmenting
    BY <1>9, <2>1, <2>2, <2>3 DEF PlainAck
  <2>6. zstd \in BOOLEAN
    BY <2>4 DEF SegmentsSo
  <2> HIDE DEF zstd
  <2>7. ASSUME zstd
        PROVE  /\ server.segmenting /\ Shaped(f.rest \o W, 0)
               /\ (~server.opened => f.rest \o W = <<>>)
    <3>1. t = p /\ server.segmenting /\ p - t = 0
      BY <1>11, <2>4, <2>5, <2>7
    <3>2. ~server.opened => Len(R) = 0
      BY <1>6, <1>9, <1>16, <3>1
    <3>3. ~server.opened => R = <<>>
      BY <1>16, <3>2
    <3> QED BY <1>15, <1>16, <3>1, <3>3
  <2>8. ASSUME ~zstd
        PROVE  /\ ~server.zstd /\ NoHeads(f.rest) /\ Len(f.rest) <= MaxMessage
               /\ Shaped(f.rest \o W, Len(f.rest \o W))
    <3>1. ~server.zstd /\ ~server.opened
      BY <2>4, <2>8 DEF SegmentsSo
    <3>2. p = Len(S) /\ p - t = Len(R)
      BY <1>6, <1>9, <1>16, <3>1
    <3>3. NoHeads(f.rest)
      <4>1. DOMAIN f.rest = 1..Len(U) - t /\ \A i \in 1..Len(U) - t : f.rest[i] = U[i + t]
        BY <1>2, <1>5, <1>14
      <4>2. \A i \in 1..Len(U) - t : i + t \in 1..Len(U) /\ i + t \in 1..p
        BY <1>5, <1>6, <1>14, <3>2
      <4>3. \A i \in 1..Len(U) - t : ~IsHead(U[i + t])
        BY <1>6, <1>9, <4>2 DEF Shaped
      <4> QED BY <4>1, <4>3 DEF NoHeads
    <3>4. Len(f.rest) <= MaxMessage
      <4>1. Len(f.rest) = Len(U) - t
        BY <1>2, <1>5, <1>14
      <4> QED BY <1>5, <1>14, <4>1, LayersAssumption
    <3> QED BY <1>15, <1>16, <3>1, <3>2, <3>3, <3>4
  <2>9. Goes(Rerouted(l, f.messages, f.rest, zstd).layers, W)
    BY <1>15, <1>17, <1>30, <2>6, <2>7, <2>8, ReroutedInStep
  <2> QED BY <1>4, <1>14, <1>19, <2>9
\* The segments have begun.
<1>20. CASE ~acked /\ f.start
  <2>1. t = q /\ q < Len(U)
    BY <1>13, <1>20 DEF StopsAt
  <2>2. t = p /\ p - t = 0 /\ p < Len(S)
    BY <1>5, <1>6, <1>11, <1>12, <2>1
  <2>3. server.opened /\ server.segmenting
    BY <1>9, <1>11, <2>2 DEF SegmentsSo
  <2>4. Shaped(f.rest \o W, 0)
    BY <1>15, <1>16, <2>2
  <2>5. Goes(Rerouted(l, f.messages, f.rest, TRUE).layers, W)
    BY <1>15, <1>17, <1>30, <2>3, <2>4, ReroutedInStep
  <2> QED BY <1>4, <1>14, <1>20, <2>5
\* It is awaited still.
<1>21. CASE ~acked /\ ~f.start
  <2>1. DOMAIN kept = LayerFields /\ kept.buffer = f.rest /\ kept.failed = FALSE
        /\ kept.awaiting = TRUE /\ kept.compressed = FALSE /\ kept.segments = <<>>
    BY <1>30 DEF LayerFields
  <2> HIDE DEF kept
  <2>2. Quiet(f.rest)
    <3>1. ~(t # 0 /\ U[t].op = "hello_ack")
      <4> SUFFICES ASSUME t # 0, U[t].op = "hello_ack" PROVE FALSE
        OBVIOUS
      <4>1. f.messages # <<>> /\ f.messages[n] = U[t]
        BY <1>13 DEF StopsAt
      <4>2. n > 0
        BY <1>18, <4>1
      <4> QED BY <1>21, <4>1, <4>2
    <3> QED BY <1>13, <1>21, <3>1 DEF StopsAt
  <2>3. Held(kept)
    <3>1. \A i \in DOMAIN kept.segments : FALSE
      BY <2>1
    <3> QED BY <2>1, <2>2, <3>1 DEF Held
  <2>4. Unread(kept, W) = R
    BY <1>15, <2>1 DEF Unread
  <2> DEFINE r == p - t
  <2>5. /\ r \in 0..Len(R) /\ (~server.opened => r = Len(R)) /\ (server.opened => r < Len(R))
        /\ (r < Len(R) => p < Len(S))
    BY <1>6, <1>9, <1>11, <1>14, <1>16
  <2>6. (r < Len(R) => Opening(R, r)) /\ PlainAck(R, r) /\ Shaped(R, r)
    BY <1>9, <1>16, <2>5
  <2> HIDE DEF r
  <2>7. Arriving(kept, R, r)
    BY <2>1, <2>5, <2>6 DEF Arriving
  <2>8. ingest(l, B).layers = kept
    BY <1>4, <1>14, <1>21
  <2> QED BY <2>3, <2>4, <2>5, <2>7, <2>8 DEF Goes
<1> QED BY <1>19, <1>20, <1>21

\* A read of any size, however the layers are set up.
LEMMA IngestInStep ==
    ASSUME NEW l, NEW B \in Seq(Unit), NEW W \in Seq(Unit), NEW L, NEW a, NEW p,
           Held(l), Holds(sent, l, Keys(B) \cup L, a), Behind(B, L), SegmentsSo,
           Arriving(l, Unread(l, B \o W), p),
           ~l.compressed => Len(l.buffer) + Len(B) <= MaxMessage
    PROVE  Goes(ingest(l, B).layers, W)
<1>1. DOMAIN l = LayerFields /\ (~l.compressed => l.segments = <<>>)
  BY DEF Holds, LayerFields
<1>2. /\ l.failed = FALSE /\ l.awaiting \in BOOLEAN /\ l.compressed \in BOOLEAN
      /\ (l.compressed => ~l.awaiting) /\ (~l.awaiting => NoHeads(l.buffer))
  BY DEF Held
<1>3. Left(sent, l.buffer, Keys(l.segments) \cup (Keys(B) \cup L), a)
      /\ Behind(l.segments, Keys(B) \cup L)
  BY <1>2 DEF Holds
<1>4. l.buffer \in Seq(Unit) /\ l.segments \in Seq(Unit)
  BY <1>3 DEF Left, Behind, Ordered
<1>5. CASE l.compressed
  <2> DEFINE U == l.segments \o B
  <2>1. Behind(U, L) /\ Keys(U) = Keys(l.segments) \cup Keys(B)
    BY <1>3, BehindJoined
  <2>2. Left(sent, l.buffer, Keys(U) \cup L, a)
    <3>1. Keys(U) \cup L = Keys(l.segments) \cup (Keys(B) \cup L)
      BY <2>1
    <3> QED BY <1>3, <3>1
  <2>3. Unread(l, B \o W) = U \o W
    <3> DEFINE A == l.segments
    <3>1. Unread(l, B \o W) = A \o (B \o W) /\ A \in Seq(Unit)
      BY <1>4, <1>5 DEF Unread
    <3>2. U \o W = (A \o B) \o W
      OBVIOUS
    <3> HIDE DEF A, U
    <3>3. (A \o B) \o W = A \o (B \o W)
      BY <3>1, ConcatAssociative
    <3> QED BY <3>1, <3>2, <3>3
  <2>4. U \o W \in Seq(Unit)
    BY <1>4
  <2> HIDE DEF U
  <2>5. Arriving(l, U \o W, p)
    BY <2>3
  <2>6. p = 0 /\ server.segmenting /\ Shaped(U \o W, 0)
    BY <1>5, <2>5 DEF Arriving
  <2>7. ~server.opened => U \o W = <<>>
    <3>1. ~server.opened => Len(U \o W) = 0
      BY <2>5, <2>6 DEF Arriving
    <3> QED BY <2>4, <3>1
  <2>8. l.awaiting = FALSE /\ l.compressed = TRUE /\ NoHeads(l.buffer)
    BY <1>2, <1>5
  <2>9. ingest(l, B) = Fed(l, B)
    BY <1>5 DEF ingest
  <2> QED BY <1>1, <1>2, <2>1, <2>2, <2>6, <2>7, <2>8, <2>9, FedSegments DEF U
<1>6. CASE ~l.compressed
  <2> DEFINE U == l.buffer \o B
             S == U \o W
  <2>1. Unread(l, B \o W) = S
    <3> DEFINE A == l.buffer
    <3>1. Unread(l, B \o W) = A \o (B \o W) /\ A \in Seq(Unit)
      BY <1>4, <1>6 DEF Unread
    <3>2. S = (A \o B) \o W
      OBVIOUS
    <3> HIDE DEF A, S
    <3>3. (A \o B) \o W = A \o (B \o W)
      BY <3>1, ConcatAssociative
    <3> QED BY <3>1, <3>2, <3>3
  <2>2. Left(sent, l.buffer, Keys(B) \cup L, a)
    <3>1. Keys(l.segments) \cup (Keys(B) \cup L) = Keys(B) \cup L
      BY <1>1, <1>6, EmptyCarries
    <3> QED BY <1>3, <3>1
  <2>3. CASE l.awaiting
    <3>1. Arriving(l, (l.buffer \o B) \o W, p)
      BY <2>1
    <3> QED BY <1>1, <1>6, <2>2, <2>3, <3>1, AwaitInStep
  <2>4. CASE ~l.awaiting
    <3>1. Arriving(l, S, p)
      BY <2>1
    <3>2. U \in Seq(Unit) /\ S \in Seq(Unit) /\ Len(U) \in Nat /\ DOMAIN U = 1..Len(U)
          /\ Len(S) \in Nat /\ Len(U) <= Len(S) /\ \A i \in 1..Len(U) : S[i] = U[i]
      BY <1>4
    <3> HIDE DEF U
    <3> HIDE DEF S
    <3>3. ~server.zstd /\ ~server.opened
      BY <1>6, <2>4, <3>1 DEF Arriving, SegmentsSo
    <3>4. p = Len(S) /\ Shaped(S, Len(S))
      BY <3>1, <3>3 DEF Arriving
    <3>5. NoHeads(U)
      <4>1. \A i \in 1..Len(U) : i \in 1..Len(S)
        BY <3>2
      <4>2. \A i \in 1..Len(U) : ~IsHead(U[i])
        BY <3>2, <3>4, <4>1 DEF Shaped
      <4> QED BY <3>2, <4>2 DEF NoHeads
    <3>6. l.awaiting = FALSE /\ l.compressed = FALSE /\ l.segments = <<>>
      BY <1>1, <1>2, <1>6, <2>4
    <3>7. ingest(l, B) = Fed(l, B)
      BY <2>4 DEF ingest
    <3> QED BY <1>1, <1>2, <1>6, <2>2, <3>3, <3>4, <3>5, <3>6, <3>7, FedFrames DEF U, S
  <2> QED BY <2>3, <2>4
<1> QED BY <1>5, <1>6

\* A read of any size.
LEMMA ReadLayers == ASSUME LayersInv, StreamInv, ReadsFit, Read PROVE LayersInv'
<1>1. up /\ ~layers.failed /\ UNCHANGED <<up, server, sent>>
  BY DEF Read, serverVars
<1>2. PICK n \in 1..Len(wire) :
        /\ wire' = SubSeq(wire, n + 1, Len(wire))
        /\ layers' = ingest(layers, SubSeq(wire, 1, n)).layers
  BY DEF Read
<1> DEFINE bytes == SubSeq(wire, 1, n)
           rest == SubSeq(wire, n + 1, Len(wire))
           K == Keys(server.queue)
           a == Len(handled) + 1
<1>3. /\ Holds(sent, layers, Keys(wire) \cup K, a)
      /\ Behind(wire, K) /\ Ordered(wire) /\ wire \in Seq(Unit) /\ Len(wire) \in Nat
  BY <1>1 DEF StreamInv, NothingLost, Behind, Ordered
<1>4. /\ Ordered(bytes) /\ Ordered(rest) /\ Before(Keys(bytes), Keys(rest))
      /\ Keys(bytes) \cup Keys(rest) = Keys(wire)
  <2>1. n \in 0..Len(wire)
    BY <1>3
  <2> QED BY <1>3, <2>1, Cut
<1>5. wire = bytes \o rest /\ Len(bytes) = n
  <2>1. n \in 1 - 1..Len(wire) /\ 1 \in 1..Len(wire) + 1 /\ Len(wire) \in n..Len(wire)
    BY <1>3
  <2>2. bytes \o rest = SubSeq(wire, 1, Len(wire))
    BY <1>3, <2>1, ConcatAdjacentSubSeq
  <2>3. Len(bytes) = n
    BY <1>3
  <2> QED BY <1>3, <2>2, <2>3, SubSeqFull
<1> HIDE DEF bytes, rest, K, a
<1>6. bytes \in Seq(Unit) /\ rest \in Seq(Unit)
  BY <1>4 DEF Ordered
<1>7. Behind(bytes, Keys(rest) \cup K)
  BY <1>3, <1>4 DEF Behind, Before
<1>8. Holds(sent, layers, Keys(bytes) \cup (Keys(rest) \cup K), a)
  <2>1. Keys(bytes) \cup (Keys(rest) \cup K) = Keys(wire) \cup K
    BY <1>4
  <2> QED BY <1>3, <2>1
<1>9. ~layers.compressed => Len(layers.buffer) + Len(bytes) <= MaxMessage
  <2> SUFFICES ASSUME ~layers.compressed PROVE Len(layers.buffer) + Len(bytes) <= MaxMessage
    OBVIOUS
  <2>1. layers.buffer \in Seq(Unit)
    BY <1>1, <1>3 DEF Holds, Left, Ordered
  <2>2. Len(layers.buffer) \in Nat /\ n \in Nat /\ n <= Len(wire)
    BY <1>3, <2>1
  <2>3. Len(layers.buffer) + Len(wire) <= MaxMessage
    BY DEF ReadsFit
  <2> DEFINE b == Len(layers.buffer)
             w == Len(wire)
  <2>4. /\ b \in Nat /\ w \in Nat /\ MaxMessage \in Nat /\ n \in Nat
        /\ n <= w /\ b + w <= MaxMessage
    BY <1>3, <2>2, <2>3, LayersAssumption
  <2> HIDE DEF b, w
  <2>5. b + n <= MaxMessage
    BY <2>4
  <2> QED BY <1>5, <2>5 DEF b
<1>10. PICK p : Arriving(layers, Unread(layers, bytes \o rest), p)
  BY <1>1, <1>5 DEF LayersInv
<1>11. Held(layers) /\ SegmentsSo
  BY DEF LayersInv
<1>12. Goes(ingest(layers, bytes).layers, rest)
  BY <1>6, <1>7, <1>8, <1>9, <1>10, <1>11, IngestInStep
<1>13. Goes(layers', wire')
  BY <1>2, <1>12 DEF bytes, rest
<1> QED BY <1>1, <1>11, <1>13
        DEF LayersInv, Goes, Held, SegmentsSo, Arriving, PlainAck

\* Nothing of the layers or the wire moves; the server may write elsewhere.
LEMMA LayersStill ==
    ASSUME LayersInv, layers' = layers, up' \in BOOLEAN, up' => up /\ wire' = wire,
           server'.zstd = server.zstd, server'.opened = server.opened,
           server'.segmenting \in BOOLEAN, server.segmenting => server'.segmenting,
           server'.segmenting => server.zstd,
           \A i \in 1..Len(sent) : i \in 1..Len(sent') /\ sent'[i] = sent[i]
    PROVE  LayersInv'
<1>1. SegmentsSo' /\ Held(layers)'
  BY DEF LayersInv, SegmentsSo, Held
<1>2. ASSUME up'
      PROVE  \E p \in 0..Len(Unread(layers, wire)') : Arriving(layers, Unread(layers, wire), p)'
  <2> DEFINE S == Unread(layers, wire)
  <2>1. PICK p \in 0..Len(S) : Arriving(layers, S, p)
    BY <1>2 DEF LayersInv
  <2>2. S' = S
    BY <1>2
  <2>3. PlainAck(S, p) => PlainAck(S, p)'
    BY <2>2 DEF PlainAck
  <2> HIDE DEF S
  <2>4. Arriving(layers, S, p)'
    BY <2>1, <2>2, <2>3 DEF Arriving
  <2> QED BY <2>1, <2>2, <2>4 DEF S
<1> QED BY <1>1, <1>2 DEF LayersInv

\* The layers hold runs of units.
LEMMA UnreadRuns ==
    ASSUME LayersInv, StreamInv, up
    PROVE  /\ Unread(layers, wire) \in Seq(Unit) /\ wire \in Seq(Unit)
           /\ layers.buffer \in Seq(Unit) /\ layers.segments \in Seq(Unit)
           /\ \A Z \in Seq(Unit) : Unread(layers, wire \o Z) = Unread(layers, wire) \o Z
<1>1. layers.buffer \in Seq(Unit) /\ layers.segments \in Seq(Unit) /\ wire \in Seq(Unit)
  BY DEF LayersInv, Held, StreamInv, NothingLost, Holds, Left, Behind, Ordered
<1> DEFINE A == IF layers.compressed THEN layers.segments ELSE layers.buffer
<1>2. A \in Seq(Unit) /\ \A W : Unread(layers, W) = A \o W
  BY <1>1 DEF Unread
<1> HIDE DEF A
<1>3. A \in Seq(Unit) /\ wire \in Seq(Unit)
  BY <1>1, <1>2
<1>4. ASSUME NEW Z \in Seq(Unit) PROVE Unread(layers, wire \o Z) = Unread(layers, wire) \o Z
  <2>1. (A \o wire) \o Z = A \o (wire \o Z)
    BY <1>3, ConcatAssociative
  <2> QED BY <1>2, <2>1
<1>5. Unread(layers, wire) \in Seq(Unit)
  <2>1. A \o wire \in Seq(Unit)
    BY <1>3
  <2> QED BY <1>2, <2>1
<1> QED BY <1>1, <1>4, <1>5

\* A frame's units.
LEMMA FrameUnits ==
    ASSUME NEW op \in Ops, NEW n \in Nat
    PROVE  LET F == Frame(op, n) IN
           /\ F \in Seq(Unit) /\ F # <<>> /\ Len(F) \in Nat
           /\ IsLast(F[Len(F)])
           /\ \A i \in DOMAIN F : ~IsHead(F[i]) /\ ~F[i].ends /\ F[i].op = op /\ F[i].n = n
           /\ \A i \in 1..Len(F) : IsLast(F[i]) => i = Len(F)
<1> DEFINE size == FrameSize(op)
           F == Frame(op, n)
<1>1. size \in Nat /\ 1 <= size
  BY SizeOfFrame
<1>2. F = [k \in 1..size |-> [op |-> op, n |-> n, k |-> k, of |-> size, ends |-> FALSE]]
  BY DEF Frame
<1> HIDE DEF F, size
<1>3. DOMAIN F = 1..size /\ \A k \in 1..size :
        F[k] \in Unit /\ ~IsHead(F[k]) /\ ~F[k].ends /\ F[k].op = op /\ F[k].n = n
        /\ F[k].k = k /\ F[k].of = size
  BY <1>1, <1>2 DEF Unit, IsHead, Heads, Ops
<1>4. F \in Seq(Unit) /\ Len(F) = size
  <2>1. F \in [1..size -> Unit]
    BY <1>2, <1>3
  <2> QED BY <1>1, <2>1
<1>5. size \in 1..size /\ F # <<>>
  <2>1. size \in 1..size
    BY <1>1
  <2>2. Len(<<>>) = 0 /\ size # 0
    BY <1>1
  <2> QED BY <1>4, <2>1, <2>2
<1> QED BY <1>1, <1>3, <1>4, <1>5 DEF IsLast, F

\* A message that is sent outside of a segment.
LEMMA FrameSent ==
    ASSUME LayersInv, StreamInv, up, up' = up, layers' = layers, ~server.segmenting,
           NEW m, m.op \in Ops, sent' = Append(sent, m),
           wire' = wire \o Frame(m.op, Len(sent')),
           server'.zstd = server.zstd, server'.opened = server.opened,
           server'.segmenting \in BOOLEAN, server'.segmenting => server.zstd,
           m.op = "hello_ack" => /\ m.about.capabilities.zstd = server.zstd
                                 /\ server.zstd => server'.segmenting
    PROVE  LayersInv'
<1> DEFINE n == Len(sent')
           F == Frame(m.op, n)
           S == Unread(layers, wire)
<1>1. /\ n \in Nat /\ n = Len(sent) + 1 /\ Len(sent) \in Nat /\ sent'[n] = m
      /\ \A i \in 1..Len(sent) : sent'[i] = sent[i]
  BY DEF StreamInv
<1>10. n \in 1..n /\ \A i \in 1..Len(sent) : i \in 1..n
  <2> HIDE DEF n
  <2> QED BY <1>1
<1> HIDE DEF n
<1>2. /\ F \in Seq(Unit) /\ F # <<>> /\ Len(F) \in Nat /\ IsLast(F[Len(F)])
      /\ \A i \in DOMAIN F : ~IsHead(F[i]) /\ ~F[i].ends /\ F[i].op = m.op /\ F[i].n = n
      /\ \A i \in 1..Len(F) : IsLast(F[i]) => i = Len(F)
  BY <1>1, FrameUnits
<1>3. ~server.opened /\ SegmentsSo /\ Held(layers) /\ ~layers.compressed
  <2>1. ~server.opened /\ SegmentsSo /\ Held(layers)
    BY DEF LayersInv, SegmentsSo
  <2>2. ~layers.compressed
    BY DEF LayersInv, Arriving, Held
  <2> QED BY <2>1, <2>2
<1>4. wire' = wire \o F
  BY DEF n
<1> HIDE DEF F
<1>50. PICK T : T = S \o F
  OBVIOUS
<1> DEFINE q == Len(T)
<1>5. S \in Seq(Unit) /\ Unread(layers, wire') = T
  BY <1>2, <1>4, <1>50, UnreadRuns
<1>6. Shaped(S, Len(S)) /\ Arriving(layers, S, Len(S))
  BY <1>3 DEF LayersInv, Arriving
<1> HIDE DEF S
<1>7. T \in Seq(Unit) /\ Shaped(T, q)
  BY <1>2, <1>5, <1>50, <1>6, FrameOn
<1>8. /\ Len(S) \in Nat /\ Len(F) \in Nat /\ q = Len(S) + Len(F) /\ q \in Nat
      /\ (\A i \in 1..Len(S) : T[i] = S[i])
      /\ (\A i \in Len(S) + 1..Len(S) + Len(F) : T[i] = F[i - Len(S)])
      /\ DOMAIN F = 1..Len(F)
  BY <1>2, <1>5, <1>50
<1>80. Len(T) = q /\ q \in Nat /\ ~(q < q) /\ q \in 0..q
  BY <1>8
<1>81. Len(S) \in Nat /\ Len(F) \in Nat /\ q = Len(S) + Len(F)
  BY <1>8
<1> HIDE DEF q
<1>9. ASSUME layers.awaiting, NEW i \in 1..q, T[i].op = "hello_ack"
      PROVE  /\ T[i].n \in 1..Len(sent')
             /\ sent'[T[i].n].about.capabilities.zstd = server.zstd
             /\ server.zstd /\ IsLast(T[i]) => i = q /\ server'.segmenting
  <2>1. CASE i <= Len(S)
    <3>1. i \in 1..Len(S) /\ T[i] = S[i]
      BY <1>8, <2>1
    <3>2. PlainAck(S, Len(S))
      BY <1>6, <1>9 DEF Arriving
    <3>3. /\ S[i].n \in 1..Len(sent)
          /\ sent[S[i].n].about.capabilities.zstd = server.zstd
          /\ ~(server.zstd /\ IsLast(S[i]))
      BY <1>9, <3>1, <3>2 DEF PlainAck
    <3>4. S[i].n \in 1..n /\ sent'[S[i].n] = sent[S[i].n]
      BY <1>1, <1>10, <3>3
    <3> QED BY <3>1, <3>3, <3>4 DEF n
  <2>2. CASE i > Len(S)
    <3> DEFINE j == i - Len(S)
    <3>0. i \in Len(S) + 1..Len(S) + Len(F) /\ j \in 1..Len(F) /\ (j = Len(F) => i = q)
      BY <1>81, <1>80, <2>2
    <3>1. j \in 1..Len(F) /\ T[i] = F[j] /\ (j = Len(F) => i = q)
      BY <1>8, <3>0
    <3> HIDE DEF j
    <3>2. F[j].op = m.op /\ F[j].n = n /\ (IsLast(F[j]) => j = Len(F))
      BY <1>2, <1>8, <3>1
    <3>3. m.op = "hello_ack" /\ m.about.capabilities.zstd = server.zstd
          /\ (server.zstd => server'.segmenting)
      BY <1>9, <3>1, <3>2
    <3> QED BY <1>1, <1>10, <3>1, <3>2, <3>3 DEF n
  <2>3. i <= Len(S) \/ i > Len(S)
    BY <1>8
  <2> QED BY <2>1, <2>2, <2>3
<1>11. Arriving(layers, T, q)'
  <2>1. layers.awaiting => PlainAck(T, q)'
    BY <1>9 DEF PlainAck
  <2>2. Arriving(layers, S, Len(S))
    BY <1>6
  <2> QED BY <1>3, <1>7, <1>80, <2>1, <2>2 DEF Arriving
<1>12. Held(layers)' /\ SegmentsSo'
  BY <1>3 DEF Held, SegmentsSo
<1>13. Unread(layers, wire)' = T
  BY <1>5 DEF Unread
<1>14. q \in 0..Len(T)
  BY <1>80
<1> HIDE DEF LayersInv
<1>15. (\E p \in 0..Len(Unread(layers, wire)) : Arriving(layers, Unread(layers, wire), p))'
  BY <1>11, <1>13, <1>14
<1> QED BY <1>12, <1>15 DEF LayersInv

\* A segment's units: its own, and what it carries.
SegmentOf(Z, size, heads, opens) ==
    /\ Z \in Seq(Unit) /\ Z # <<>> /\ Len(Z) = heads + size
    /\ \A i \in 1..heads : IsHead(Z[i]) /\ Z[i].k = i /\ Z[i].of = heads
    /\ opens => Z[1].op = "opening"
    /\ Z[Len(Z)].ends /\ \A i \in 1..Len(Z) - 1 : ~Z[i].ends

\* What the encoder cuts is a segment.
LEMMA SegmentUnits ==
    ASSUME NEW U \in Seq(Unit), U # <<>>, NEW heads \in {1, 2, 3}, NEW opens \in BOOLEAN
    PROVE  SegmentOf(Segment(U, heads, opens), Len(U), heads, opens)
<1> DEFINE H == [k \in 1..heads |-> [op |-> IF opens THEN "opening" ELSE "segment", n |-> 0,
                                    k |-> k, of |-> heads, ends |-> FALSE]]
           V == [k \in DOMAIN U |-> [U[k] EXCEPT !.ends = (k = Len(U))]]
           u == Len(U)
           Z == H \o V
<1>1. u \in Nat /\ u # 0 /\ DOMAIN U = 1..u
  OBVIOUS
<1>2. Segment(U, heads, opens) = Z
  BY DEF Segment
<1>3. heads \in Nat /\ 1 <= heads
  OBVIOUS
<1>4. H \in Seq(Unit) /\ Len(H) = heads
      /\ \A k \in 1..heads : IsHead(H[k]) /\ H[k].k = k /\ H[k].of = heads /\ ~H[k].ends
                             /\ (opens => H[k].op = "opening")
  <2>1. \A k \in 1..heads : H[k] \in Unit /\ IsHead(H[k]) /\ H[k].k = k /\ H[k].of = heads
                            /\ ~H[k].ends /\ (opens => H[k].op = "opening")
    BY DEF Unit, IsHead, Heads
  <2>2. H \in [1..heads -> Unit]
    BY <2>1
  <2> HIDE DEF H
  <2> QED BY <1>3, <2>1, <2>2
<1> HIDE DEF H
<1>5. V \in Seq(Unit) /\ Len(V) = u /\ \A k \in 1..u : V[k].ends <=> k = u
  <2>1. \A k \in 1..u : V[k] \in Unit /\ (V[k].ends <=> k = u)
    <3> SUFFICES ASSUME NEW k \in 1..u PROVE V[k] \in Unit /\ (V[k].ends <=> k = u)
      OBVIOUS
    <3> DEFINE last == (k = Len(U))
               v == [U[k] EXCEPT !.ends = last]
    <3>1. V[k] = v
      BY <1>1
    <3>2. U[k] \in Unit /\ last \in BOOLEAN /\ (last <=> k = u)
      BY <1>1
    <3> HIDE DEF V, last
    <3>3. v \in Unit /\ v.ends = last
      BY <3>2 DEF Unit
    <3> QED BY <3>1, <3>2, <3>3
  <2>2. V \in [1..u -> Unit]
    <3>1. V = [k \in 1..u |-> V[k]]
      BY <1>1
    <3> HIDE DEF V
    <3> QED BY <2>1, <3>1
  <2> HIDE DEF V, u
  <2> QED BY <1>1, <2>1, <2>2
<1> HIDE DEF V, u
<1>6. /\ Z \in Seq(Unit) /\ Len(Z) = heads + u
      /\ (\A i \in 1..heads : Z[i] = H[i])
      /\ \A i \in heads + 1..heads + u : Z[i] = V[i - heads]
  BY <1>1, <1>3, <1>4, <1>5
<1> HIDE DEF Z
<1>7. Len(Z) \in heads + 1..heads + u /\ Len(Z) - heads = u /\ Len(Z) # 0 /\ u \in 1..u
      /\ 1 \in 1..heads
  BY <1>1, <1>3, <1>6
<1>8. Z[Len(Z)].ends /\ Z # <<>>
  <2>1. Z[Len(Z)] = V[u]
    BY <1>6, <1>7
  <2>2. Len(<<>>) = 0
    OBVIOUS
  <2> QED BY <1>5, <1>7, <2>1, <2>2
<1>9. ASSUME NEW i \in 1..Len(Z) - 1 PROVE ~Z[i].ends
  <2>0. i \in Nat /\ 1 <= i /\ i < heads + u
    BY <1>1, <1>3, <1>6
  <2>1. CASE i <= heads
    <3>1. i \in 1..heads
      BY <1>3, <2>0, <2>1
    <3> QED BY <1>4, <1>6, <3>1
  <2>2. CASE i > heads
    <3>1. i \in heads + 1..heads + u /\ i - heads \in 1..u /\ i - heads # u
      BY <1>1, <1>3, <2>0, <2>2
    <3> QED BY <1>5, <1>6, <3>1
  <2> QED BY <1>3, <2>0, <2>1, <2>2
<1>10. \A i \in 1..heads : IsHead(Z[i]) /\ Z[i].k = i /\ Z[i].of = heads
  BY <1>4, <1>6
<1>11. opens => Z[1].op = "opening"
  BY <1>4, <1>6, <1>7
<1>12. Len(Z) = heads + Len(U)
  BY <1>6 DEF u
<1> QED BY <1>2, <1>6, <1>8, <1>9, <1>10, <1>11, <1>12 DEF SegmentOf

\* The encoder puts a segment on the wire.
LEMMA FlushLayers == ASSUME LayersInv, StreamInv, SaysSo, ServerFlushes PROVE LayersInv'
<1>1. up /\ server.segmenting /\ server.queue # <<>> /\ UNCHANGED <<up, layers, sent>>
  BY DEF ServerFlushes, clientVars
<1>2. PICK n \in 1..Len(server.queue),
           heads \in (IF server.opened THEN {1} ELSE {2, 3}) :
        /\ wire' = wire \o Segment(SubSeq(server.queue, 1, n), heads, ~server.opened)
        /\ server' = [server EXCEPT !.queue = SubSeq(@, n + 1, Len(@)), !.opened = TRUE]
  BY DEF ServerFlushes
<1> DEFINE out == SubSeq(server.queue, 1, n)
           S == Unread(layers, wire)
<1>3. /\ server'.segmenting = server.segmenting /\ server'.opened = TRUE
      /\ server'.zstd = server.zstd
  <2> HIDE DEF out
  <2>1. DOMAIN server = ServerFields
    BY DEF SaysSo
  <2> QED BY <1>2, <2>1 DEF ServerFields
<1>4. out \in Seq(Unit) /\ out # <<>> /\ Len(out) \in Nat /\ Len(out) # 0
  <2>1. server.queue \in Seq(Unit)
    BY <1>1 DEF LayersInv, Held, StreamInv, NothingLost, Behind, Ordered
  <2>2. out \in Seq(Unit) /\ Len(out) = n
    BY <2>1
  <2> QED BY <2>1, <2>2
<1>5. SegmentsSo /\ Held(layers) /\ heads \in {1, 2, 3} /\ (~server.opened) \in BOOLEAN
      /\ (~server.opened => heads \in {2, 3})
  <2>1. SegmentsSo /\ Held(layers)
    BY DEF LayersInv
  <2>2. server.opened \in BOOLEAN
    BY <2>1 DEF SegmentsSo
  <2>3. heads \in {1, 2, 3} /\ (~server.opened => heads \in {2, 3})
    BY <1>2
  <2>4. (~server.opened) \in BOOLEAN
    BY <2>2
  <2> QED BY <2>1, <2>3, <2>4
<1>6. PICK Z : Z = Segment(out, heads, ~server.opened)
  OBVIOUS
<1>7. /\ Z \in Seq(Unit) /\ Z # <<>> /\ Len(Z) = heads + Len(out)
      /\ \A i \in 1..heads : IsHead(Z[i]) /\ Z[i].k = i /\ Z[i].of = heads
      /\ (~server.opened => Z[1].op = "opening")
      /\ Z[Len(Z)].ends /\ \A i \in 1..Len(Z) - 1 : ~Z[i].ends
  <2> DEFINE opens == ~server.opened
  <2>1. opens \in BOOLEAN
    BY <1>5
  <2> HIDE DEF out
  <2>2. SegmentOf(Segment(out, heads, opens), Len(out), heads, opens)
    <3> HIDE DEF opens
    <3> QED BY <1>4, <1>5, <2>1, SegmentUnits
  <2> QED BY <1>6, <2>2 DEF SegmentOf
<1>8. wire' = wire \o Z
  BY <1>2, <1>6
<1> HIDE DEF out
<1>9. PICK T : T = S \o Z
  OBVIOUS
<1>10. S \in Seq(Unit) /\ Unread(layers, wire') = T
  BY <1>1, <1>7, <1>8, <1>9, UnreadRuns
<1>11. PICK p \in 0..Len(S) : Arriving(layers, S, p)
  BY <1>1 DEF LayersInv
<1> HIDE DEF S
<1>12. Shaped(S, p)
  BY <1>11 DEF Arriving
<1>13. T \in Seq(Unit) /\ Shaped(T, p)
  <2>1. 1 \in 1..heads
    BY <1>5
  <2>2. IsHead(Z[1]) /\ Z[1].k = 1
    BY <1>7, <2>1
  <2>3. Z \in Seq(Unit) /\ Z # <<>> /\ Z[Len(Z)].ends /\ \A i \in 1..Len(Z) - 1 : ~Z[i].ends
    BY <1>7
  <2>4. S \in Seq(Unit) /\ Shaped(S, p)
    BY <1>10, <1>12
  <2>5. S \o Z \in Seq(Unit) /\ Shaped(S \o Z, p)
    BY <2>2, <2>3, <2>4, SegmentOn
  <2> QED BY <1>9, <2>5
<1>14. /\ Len(S) \in Nat /\ Len(Z) \in Nat /\ Len(T) = Len(S) + Len(Z)
       /\ (\A i \in 1..Len(S) : T[i] = S[i])
       /\ (\A i \in Len(S) + 1..Len(S) + Len(Z) : T[i] = Z[i - Len(S)])
  <2>1. S \in Seq(Unit) /\ Z \in Seq(Unit) /\ T = S \o Z
    BY <1>7, <1>9, <1>10
  <2> QED BY <2>1
<1>15. p \in Nat /\ p <= Len(S) /\ Len(Z) > 0 /\ heads < Len(Z) /\ p < Len(T) /\ p \in 0..Len(T)
  <2>1. heads < Len(Z) /\ Len(Z) > 0
    BY <1>4, <1>5, <1>7
  <2>2. p \in Nat /\ p <= Len(S)
    BY <1>14
  <2> QED BY <1>14, <2>1, <2>2
<1>16. ASSUME ~layers.compressed PROVE Opening(T, p)
  <2>1. CASE server.opened
    <3>1. p < Len(S) /\ Opening(S, p)
      BY <1>11, <1>16, <2>1 DEF Arriving
    <3> DEFINE of == S[p + 1].of
    <3>2. S[p + 1].op = "opening" /\ of \in Nat /\ p + of < Len(S)
          /\ \A i \in 1..of : IsHead(S[p + i])
      BY <3>1 DEF Opening
    <3> HIDE DEF of
    <3>3. p + 1 \in 1..Len(S) /\ p + of < Len(T) /\ \A i \in 1..of : p + i \in 1..Len(S)
      BY <1>14, <1>15, <3>1, <3>2
    <3>4. T[p + 1] = S[p + 1] /\ \A i \in 1..of : T[p + i] = S[p + i]
      BY <1>14, <3>3
    <3> QED BY <3>2, <3>3, <3>4 DEF Opening, of
  <2>2. CASE ~server.opened
    <3>1. p = Len(S)
      BY <1>11, <2>2 DEF Arriving
    <3>2. \A i \in 1..heads : p + i \in Len(S) + 1..Len(S) + Len(Z) /\ (p + i) - Len(S) = i
      BY <1>5, <1>14, <1>15, <3>1
    <3>3. \A i \in 1..heads : T[p + i] = Z[i]
      BY <1>14, <3>2
    <3>4. 1 \in 1..heads /\ heads \in Nat
      BY <1>5
    <3>5. T[p + 1].op = "opening" /\ T[p + 1].of = heads
      BY <1>7, <2>2, <3>3, <3>4
    <3>6. p + heads < Len(T)
      BY <1>14, <1>15, <3>1, <3>4
    <3> QED BY <1>7, <3>3, <3>4, <3>5, <3>6 DEF Opening
  <2> QED BY <2>1, <2>2
<1>17. ASSUME layers.awaiting PROVE PlainAck(T, p)
  <2>1. PlainAck(S, p)
    BY <1>11, <1>17 DEF Arriving
  <2>2. \A i \in 1..p : i \in 1..Len(S)
    BY <1>14, <1>15
  <2>3. \A i \in 1..p : T[i] = S[i]
    BY <1>14, <2>2
  <2> QED BY <2>1, <2>3 DEF PlainAck
<1>18. Arriving(layers, T, p)'
  <2>1. (layers.awaiting => PlainAck(T, p))'
    BY <1>1, <1>3, <1>17 DEF PlainAck
  <2>2. layers' = layers
    BY <1>1
  <2> QED BY <1>1, <1>3, <1>11, <1>13, <1>15, <1>16, <2>1, <2>2 DEF Arriving
<1>19. Held(layers)' /\ SegmentsSo'
  BY <1>1, <1>3, <1>5 DEF Held, SegmentsSo
<1>20. Unread(layers, wire)' = T
  BY <1>1, <1>10 DEF Unread
<1>21. (\E r \in 0..Len(Unread(layers, wire)) : Arriving(layers, Unread(layers, wire), r))'
  BY <1>15, <1>18, <1>20
<1> QED BY <1>1, <1>19, <1>21 DEF LayersInv

\* The server writes a message that is not the acknowledgement.
LEMMA WrittenLayers ==
    ASSUME LayersInv, StreamInv, up, up' = up, layers' = layers,
           NEW s, DOMAIN s = ServerFields, s.zstd = server.zstd, s.opened = server.opened,
           s.segmenting = server.segmenting,
           NEW m, m.op \in Ops, m.op # "hello_ack", Written(s, m)
    PROVE  LayersInv'
<1>1. sent' = Append(sent, m) /\ server.zstd \in BOOLEAN /\ server.segmenting \in BOOLEAN
      /\ (server.segmenting => server.zstd)
  BY DEF Written, LayersInv, SegmentsSo
<1> DEFINE F == Frame(m.op, Len(sent'))
<1>2. CASE s.segmenting
  <2>1. server' = [s EXCEPT !.queue = @ \o F] /\ wire' = wire
    BY <1>2 DEF Written
  <2> HIDE DEF F
  <2>2. server'.zstd = server.zstd /\ server'.opened = server.opened
        /\ server'.segmenting = server.segmenting
    BY <2>1 DEF ServerFields
  <2>3. \A i \in 1..Len(sent) : i \in 1..Len(sent') /\ sent'[i] = sent[i]
    BY <1>1 DEF StreamInv
  <2>4. up' \in BOOLEAN
    BY DEF LayersInv
  <2> QED BY <1>1, <2>1, <2>2, <2>3, <2>4, LayersStill
<1>3. CASE ~s.segmenting
  <2>1. server' = s /\ wire' = wire \o F
    BY <1>3 DEF Written
  <2> QED BY <1>1, <1>3, <2>1, FrameSent
<1> QED BY <1>2, <1>3

\* The server answers the capabilities.
LEMMA AcknowledgesLayers ==
    ASSUME LayersInv, StreamInv, SaysSo, up, up' = up, layers' = layers, Acknowledges
    PROVE  LayersInv'
<1> DEFINE ack == Message("hello_ack",
                   [capabilities |-> [version |-> 1, zstd |-> server.zstd,
                                      resync |-> server.kind.resync],
                    id |-> server.id, generation |-> server.generation])
           F == Frame("hello_ack", Len(sent'))
<1>1. ack.op = "hello_ack" /\ ack.op \in Ops /\ ack.about.capabilities.zstd = server.zstd
  BY DEF Message, Ops
<1>2. sent' = Append(sent, ack)
  BY DEF Acknowledges
<1> HIDE DEF ack
<1>3. server.zstd \in BOOLEAN /\ server.segmenting \in BOOLEAN
      /\ (server.segmenting => server.zstd) /\ DOMAIN server = ServerFields
  BY DEF LayersInv, SegmentsSo, SaysSo
<1>4. CASE server.segmenting
  <2>1. server' = [server EXCEPT !.queue = @ \o F, !.acked = TRUE] /\ wire' = wire
    BY <1>4 DEF Acknowledges
  <2> HIDE DEF F
  <2>2. server'.zstd = server.zstd /\ server'.opened = server.opened
        /\ server'.segmenting = server.segmenting
    BY <1>3, <2>1 DEF ServerFields
  <2>3. \A i \in 1..Len(sent) : i \in 1..Len(sent') /\ sent'[i] = sent[i]
    BY <1>2 DEF StreamInv
  <2>4. up' \in BOOLEAN
    BY DEF LayersInv
  <2> QED BY <1>3, <2>1, <2>2, <2>3, <2>4, LayersStill
<1>5. CASE ~server.segmenting
  <2>1. server' = [server EXCEPT !.segmenting = server.zstd, !.acked = TRUE]
        /\ wire' = wire \o F
    BY <1>5 DEF Acknowledges
  <2>2. server'.zstd = server.zstd /\ server'.opened = server.opened
        /\ server'.segmenting = server.zstd
    BY <1>3, <2>1 DEF ServerFields
  <2>3. wire' = wire \o Frame(ack.op, Len(sent'))
    BY <1>1, <2>1
  <2> HIDE DEF F
  <2> QED BY <1>1, <1>2, <1>3, <1>5, <2>2, <2>3, FrameSent
<1> QED BY <1>4, <1>5

\* The server hears the client.
LEMMA HearsLayers == ASSUME LayersInv, StreamInv, SaysSo, ServerHears PROVE LayersInv'
<1>1. up /\ up' = up /\ layers' = layers /\ DOMAIN server = ServerFields
  BY DEF ServerHears, clientVars, SaysSo
<1>2. CASE \E m : m.op \in Ops /\ m.op # "hello_ack" /\ Written(server, m)
  BY <1>1, <1>2, WrittenLayers
<1>3. CASE Acknowledges
  BY <1>1, <1>3, AcknowledgesLayers
<1>4. CASE UNCHANGED <<server, wire, sent>>
  BY <1>1, <1>4, LayersStill DEF LayersInv, SegmentsSo
<1>5. \/ Written(server, Message("init", 0))
      \/ Written(server, Message("palette", server.id))
      \/ Written(server, Message("resync", server.generation))
      \/ Acknowledges
      \/ UNCHANGED <<server, wire, sent>>
  BY DEF ServerHears
<1>6. \A op, about : op \in Ops /\ op # "hello_ack" /\ Written(server, Message(op, about))
         => \E m : m.op \in Ops /\ m.op # "hello_ack" /\ Written(server, m)
  BY MessageOps
<1>7. "init" \in Ops /\ "palette" \in Ops /\ "resync" \in Ops
  BY DEF Ops
<1> QED BY <1>2, <1>3, <1>4, <1>5, <1>6, <1>7

\* The server draws, asks, or ends the session.
LEMMA DrawsLayers ==
    ASSUME LayersInv, StreamInv, SaysSo, ServerDraws \/ ServerCloses PROVE LayersInv'
<1>1. up /\ up' = up /\ layers' = layers /\ DOMAIN server = ServerFields
  BY DEF ServerDraws, ServerCloses, clientVars, SaysSo
<1>2. CASE ServerDraws
  <2>1. \E op \in {"state", "query", "garbled_query"} :
          \E about : Written(server, Message(op, about))
    BY <1>2 DEF ServerDraws
  <2>2. \E m : m.op \in Ops /\ m.op # "hello_ack" /\ Written(server, m)
    BY <2>1, MessageOps DEF Ops
  <2> QED BY <1>1, <2>2, WrittenLayers
<1>3. CASE ServerCloses
  <2> DEFINE s == [server EXCEPT !.closing = TRUE]
  <2>1. Written(s, Message("close", 0))
    BY <1>3 DEF ServerCloses
  <2>2. DOMAIN s = ServerFields /\ s.zstd = server.zstd /\ s.opened = server.opened
        /\ s.segmenting = server.segmenting
    BY <1>1 DEF ServerFields
  <2>3. Message("close", 0).op \in Ops /\ Message("close", 0).op # "hello_ack"
    BY MessageOps DEF Ops
  <2> HIDE DEF s
  <2> QED BY <1>1, <2>1, <2>2, <2>3, WrittenLayers
<1> QED BY <1>2, <1>3

\* A new connection: nothing is held, nothing is on its way.
LEMMA ConnectLayers == ASSUME BudgetTyped, Connect PROVE LayersInv'
<1>1. PICK offer \in budget.offers, kind \in budget.servers :
        /\ layers' = reset_layers(layers, offer)
        /\ server'.zstd = (kind.zstd /\ offer) /\ server'.segmenting = FALSE
        /\ server'.opened = FALSE /\ wire' = <<>> /\ up' = TRUE
  BY DEF Connect
<1>2. offer \in BOOLEAN /\ kind.zstd \in BOOLEAN
  BY DEF BudgetTyped, Kinds
<1>3. server'.zstd \in BOOLEAN /\ (server'.zstd => offer)
  BY <1>1, <1>2
<1>4. /\ layers'.buffer = <<>> /\ layers'.segments = <<>> /\ layers'.awaiting = offer
      /\ layers'.compressed = FALSE /\ layers'.failed = FALSE
  BY <1>1 DEF reset_layers, NoLayers
<1>5. Held(layers)' /\ SegmentsSo'
  <2>1. \A i \in DOMAIN <<>> : FALSE
    OBVIOUS
  <2> QED BY <1>1, <1>2, <1>3, <1>4, <2>1 DEF Held, SegmentsSo, Quiet, NoHeads
<1>6. Unread(layers, wire)' = <<>>
  <2>1. <<>> \o <<>> = <<>>
    OBVIOUS
  <2> QED BY <1>1, <1>4, <2>1 DEF Unread
<1>7. Arriving(layers, <<>>, 0)'
  <2>1. Len(<<>>) = 0 /\ 0 \in 0..0 /\ (\A i \in 1..0 : FALSE) /\ ~(0 < 0)
        /\ \A i \in 0..0 - 1 : FALSE
    OBVIOUS
  <2>2. Shaped(<<>>, 0)
    BY <2>1 DEF Shaped
  <2> QED BY <1>1, <1>3, <1>4, <2>1, <2>2 DEF Arriving, PlainAck
<1>8. (\E r \in 0..Len(Unread(layers, wire)) : Arriving(layers, Unread(layers, wire), r))'
  <2>1. 0 \in 0..Len(<<>>)
    OBVIOUS
  <2> QED BY <1>6, <1>7, <2>1
<1> QED BY <1>1, <1>5, <1>8 DEF LayersInv

\* Nothing is held before the first connection.
LEMMA LayersInit == Init => LayersInv
<1> SUFFICES ASSUME Init PROVE LayersInv
  OBVIOUS
<1>1. \A i \in DOMAIN <<>> : FALSE
  OBVIOUS
<1>2. /\ layers.buffer = <<>> /\ layers.segments = <<>> /\ layers.awaiting = FALSE
      /\ layers.compressed = FALSE /\ layers.failed = FALSE
  BY DEF Init, NoLayers
<1>3. up = FALSE /\ server.zstd = FALSE /\ server.segmenting = FALSE /\ server.opened = FALSE
  BY DEF Init
<1> QED BY <1>1, <1>2, <1>3 DEF LayersInv, Held, SegmentsSo, Quiet, NoHeads

\* Every step keeps the invariant of the layers, as long as what arrives fits.
LEMMA LayersStep ==
    ASSUME LayersInv, StreamInv, SessionInv, ReadsFit, [Next]_vars PROVE LayersInv'
<1>1. SaysSo /\ BudgetTyped /\ DOMAIN server = ServerFields
  BY DEF SessionInv, SaysSo
<1>2. /\ server.zstd \in BOOLEAN /\ server.segmenting \in BOOLEAN
      /\ (server.segmenting => server.zstd) /\ up \in BOOLEAN
  BY DEF LayersInv, SegmentsSo
<1>3. CASE Connect
  BY <1>1, <1>3, ConnectLayers
<1>4. CASE Drop
  <2>1. up' = FALSE /\ UNCHANGED <<layers, sent>>
        /\ server' = [server EXCEPT !.queue = <<>>]
    BY <1>4 DEF Drop, clientVars
  <2>2. server'.zstd = server.zstd /\ server'.opened = server.opened
        /\ server'.segmenting = server.segmenting
    BY <1>1, <2>1 DEF ServerFields
  <2> QED BY <1>2, <2>1, <2>2, LayersStill
<1>5. CASE Read
  BY <1>5, ReadLayers
<1>6. CASE Repaint \/ UNCHANGED vars
  <2>1. UNCHANGED <<up, layers, sent, wire, server>>
    BY <1>6 DEF Repaint, vars, clientVars, serverVars
  <2> QED BY <1>2, <2>1, LayersStill
<1>7. CASE ServerHears
  BY <1>1, <1>7, HearsLayers
<1>8. CASE ServerDraws \/ ServerCloses
  BY <1>1, <1>8, DrawsLayers
<1>9. CASE RingFills
  <2>1. UNCHANGED <<up, layers, sent, wire>> /\ server.zstd
        /\ server' = [server EXCEPT !.segmenting = TRUE]
    BY <1>9 DEF RingFills, clientVars
  <2>2. server'.zstd = server.zstd /\ server'.opened = server.opened
        /\ server'.segmenting = TRUE
    BY <1>1, <2>1 DEF ServerFields
  <2> QED BY <1>2, <2>1, <2>2, LayersStill
<1>10. CASE ServerFlushes
  BY <1>1, <1>10, FlushLayers
<1> QED BY <1>3, <1>4, <1>5, <1>6, <1>7, <1>8, <1>9, <1>10 DEF Next

\* With nothing on its way, nothing is held back.
LEMMA NothingHeld == LayersInv /\ StreamInv => NothingHeldBack
<1> SUFFICES ASSUME LayersInv, StreamInv, up, wire = <<>>, server.queue = <<>>
             PROVE  Len(handled) = Len(sent)
  BY DEF NothingHeldBack
<1> DEFINE a == Len(handled) + 1
           size == FrameSize(sent[a].op)
           key == <<a, size, size>>
<1>1. Len(handled) \in Nat /\ Len(sent) \in Nat /\ Len(handled) <= Len(sent)
  BY DEF StreamInv
<1>2. Held(layers) /\ ~layers.failed
  BY DEF LayersInv, Held
<1>3. Holds(sent, layers, {}, a)
  <2>1. Keys(wire) \cup Keys(server.queue) = {}
    BY EmptyCarries
  <2> QED BY <1>2, <2>1 DEF StreamInv, NothingLost
<1>4. Left(sent, layers.buffer, Keys(layers.segments) \cup {}, a) /\ Behind(layers.segments, {})
      /\ (~layers.compressed => layers.segments = <<>>)
  BY <1>2, <1>3 DEF Holds
<1>5. layers.segments \in Seq(Unit)
  BY <1>4 DEF Behind, Ordered
<1>6. layers.segments = <<>>
  <2> SUFFICES ASSUME layers.segments # <<>>, layers.compressed PROVE FALSE
    BY <1>4
  <2> DEFINE S == layers.segments
  <2>1. Unread(layers, wire) = S
    <3>1. S \o <<>> = S
      BY <1>5
    <3> QED BY <3>1 DEF Unread
  <2>2. S \in Seq(Unit) /\ S # <<>> /\ \A i \in DOMAIN S : ~S[i].ends
    BY <1>2, <1>5 DEF Held
  <2>3. PICK p : Arriving(layers, S, p)
    BY <2>1 DEF LayersInv
  <2> HIDE DEF S
  <2>4. Shaped(S, 0)
    BY <2>3 DEF Arriving
  <2>5. Len(S) \in DOMAIN S /\ 0 < Len(S)
    BY <2>2
  <2> QED BY <2>2, <2>4, <2>5 DEF Shaped
<1>7. Keys(layers.buffer) = Due(sent, a)
  <2>1. Keys(layers.segments) \cup {} = {}
    BY <1>6, EmptyCarries
  <2> QED BY <1>4, <2>1 DEF Left
<1> SUFFICES ASSUME Len(handled) # Len(sent) PROVE FALSE
  OBVIOUS
<1>8. a \in Nat /\ a <= Len(sent) /\ a <= a
  BY <1>1
<1> HIDE DEF a
<1>9. size \in Nat /\ 1 <= size /\ size <= size
  <2>1. size \in Nat /\ 1 <= size
    BY SizeOfFrame
  <2> HIDE DEF size
  <2> QED BY <2>1
<1>10. key \in Due(sent, a)
  BY <1>8, <1>9, DueHas
<1>11. PICK i \in Carried(layers.buffer) : Key(layers.buffer[i]) = key
  BY <1>7, <1>10 DEF Keys
<1>12. IsLast(layers.buffer[i]) /\ i \in DOMAIN layers.buffer
  BY <1>11, KeyParts DEF Carried, IsLast
<1> QED BY <1>2, <1>12 DEF Held, Quiet

\* What the invariants say of the types.
LEMMA InStepTyped == LayersInv /\ StreamInv /\ SessionInv => TypeOK /\ NoDesync
<1> SUFFICES ASSUME LayersInv, StreamInv, SessionInv PROVE TypeOK /\ NoDesync
  OBVIOUS
<1>1. Held(layers) /\ up \in BOOLEAN
  BY DEF LayersInv
<1>2. SaysSo /\ BudgetTyped /\ waiting \subseteq Tokens /\ KeptAt(session, Len(handled), met)
  BY DEF SessionInv
<1>3. connection \in Nat /\ server.id \in Nat
  BY <1>2 DEF SaysSo
<1>4. session.palette \in Nat /\ session.id \in Nat /\ session.generation \in Nat
      /\ session.changed \in BOOLEAN /\ session.closed \in BOOLEAN
  BY <1>2, <1>3 DEF KeptAt, Identity
<1>5. ASSUME NEW t \in Tokens PROVE session.states[t] \in (0..connection) \X Nat
  <2> DEFINE c == Cardinality(At(Len(handled), "resync"))
  <2>1. session.states[t] \in {NoEra, <<connection, c>>}
    BY <1>2 DEF KeptAt
  <2>2. c \in Nat
    <3>1. Len(handled) \in Nat
      BY DEF StreamInv
    <3> QED BY <3>1, AtFinite
  <2> HIDE DEF c
  <2>3. 0 \in 0..connection /\ connection \in 0..connection
    BY <1>3
  <2> QED BY <2>1, <2>2, <2>3 DEF NoEra
<1>6. budget.connections \in Nat /\ budget.repaints \in Nat /\ budget.cuts \in Nat
  BY <1>2 DEF BudgetTyped
<1> QED BY <1>1, <1>2, <1>3, <1>4, <1>5, <1>6 DEF TypeOK, NoDesync, Held

\* The layers stay in step, whatever the reads and the segments, with a server that
\* compresses or not, and wherever compression begins: neither is given the other's bytes,
\* and no message that has arrived whole is held back.
THEOREM LayersAlwaysInStep == Spec /\ []ReadsFit => []LayersInStep
<1>1. Init => LayersInv /\ StreamInv /\ SessionInv
  BY LayersInit, StreamInit, SessionInit
<1>2. LayersInv /\ StreamInv /\ SessionInv /\ ReadsFit /\ [Next]_vars
        => LayersInv' /\ StreamInv' /\ SessionInv'
  BY LayersStep, StreamStep, SessionStep
<1>3. LayersInv /\ StreamInv /\ SessionInv => LayersInStep
  BY NothingHeld, InStepTyped DEF LayersInStep
<1> QED BY <1>1, <1>2, <1>3, PTL DEF Spec

\* No drawing engine waits for an answer that is not on its way, also to a request that did
\* not decode: what has arrived was handled, and what was handled was answered.
THEOREM NoEngineForgotten == Spec /\ []ReadsFit => []NoEngineLeftWaiting
<1>1. Init => LayersInv /\ StreamInv /\ SessionInv
  BY LayersInit, StreamInit, SessionInit
<1>2. LayersInv /\ StreamInv /\ SessionInv /\ ReadsFit /\ [Next]_vars
        => LayersInv' /\ StreamInv' /\ SessionInv'
  BY LayersStep, StreamStep, SessionStep
<1>3. LayersInv /\ StreamInv /\ SessionInv => NoEngineLeftWaiting
  <2> SUFFICES ASSUME LayersInv, StreamInv, SessionInv, up, ~session.closed, wire = <<>>,
                      server.queue = <<>>, Count(upstream, "reply") = 0,
                      NEW t \in waiting
               PROVE  FALSE
    BY DEF NoEngineLeftWaiting
  <2>1. Len(handled) = Len(sent) /\ Len(handled) \in Nat
    BY NothingHeld DEF NothingHeldBack, StreamInv
  <2>2. \A i \in 1..Len(upstream) : upstream[i].op # "reply"
    <3> DEFINE R == {i \in DOMAIN upstream : upstream[i].op = "reply"}
    <3>1. PICK S : upstream \in Seq(S)
      BY DEF SessionInv, HeardOf
    <3>2. DOMAIN upstream = 1..Len(upstream) /\ Len(upstream) \in Nat
      BY <3>1
    <3>3. IsFiniteSet(1..Len(upstream))
      BY <3>2, FS_Interval
    <3>4. R \in SUBSET (1..Len(upstream))
      BY <3>2
    <3>5. IsFiniteSet(R)
      BY <3>3, <3>4, FS_Subset
    <3>6. Cardinality(R) = 0
      BY DEF Count
    <3>7. R = {}
      BY <3>5, <3>6, FS_EmptySet
    <3> QED BY <3>2, <3>7
  <2>3. ~\E i \in Len(handled) + 1..Len(sent) : TRUE
    BY <2>1
  <2> QED BY <2>2, <2>3 DEF SessionInv, OwedAt
<1> QED BY <1>1, <1>2, <1>3, PTL DEF Spec
================================================================================
