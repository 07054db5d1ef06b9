---------------------------- MODULE TimelineLemmas ----------------------------
(*****************************************************************************)
(* What the operators of TimelineSync and of SessionStream do, for lists of  *)
(* messages and logs of every length: selecting, upserting and removing      *)
(* messages, the rows of the messages table at each version, pages, events,  *)
(* and what each of them makes of a list that is faithful to the log.        *)
(*****************************************************************************)
EXTENDS TimelineSync, SequenceTheorems, NaturalsInduction, WellFoundedInduction,
        TLAPS

-----------------------------------------------------------------------------
(* Numbers and recursion: what the induction theorems of the library say of a
   predicate is used here of a set. *)

\* Every set of numbers that is not empty has a least member.
LEMMA LeastNumber ==
    ASSUME NEW T \in SUBSET Nat, T # {}
    PROVE  \E x \in T : \A y \in T : x <= y
<1>1. PICK x \in T : \A y \in T : ~ (<<y, x>> \in OpToRel(<, Nat))
  BY WFMin, NatLessThanWellFounded
<1>2. \A y \in T : ~ (y < x)
  BY <1>1, Zenon DEF OpToRel
<1>3. x \in Nat /\ \A y \in T : y \in Nat
  OBVIOUS
<1>4. \A y \in Nat : ~(y < x) => x <= y
  BY <1>3
<1> QED BY <1>2, <1>3, <1>4

\* A set that holds zero, and with a number the next one, holds them all: the
\* induction that the lemmas below use, with the set in the place of a predicate.
LEMMA CountUp ==
    ASSUME NEW T, 0 \in T, \A n \in Nat : n \in T => n + 1 \in T
    PROVE  Nat \subseteq T
<1> SUFFICES ASSUME Nat \ T # {} PROVE FALSE
  OBVIOUS
<1>1. PICK x \in Nat \ T : \A y \in Nat \ T : x <= y
  BY LeastNumber
<1>2. x # 0 /\ x - 1 \in Nat /\ x - 1 \in T /\ (x - 1) + 1 = x
  BY <1>1
<1> QED BY <1>1, <1>2

\* F starts at base and goes on by step.
Iterates(F, S, N, base, step) ==
    /\ F \in [0..N -> S]
    /\ F[0] = base
    /\ \A i \in 1..N : F[i] = step[<<i, F[i - 1]>>]

\* A recursive definition over 1..N describes a function.
LEMMA RecursionExists ==
    ASSUME NEW S, NEW N \in Nat, NEW base \in S, NEW step \in [(1..N) \X S -> S]
    PROVE  \E F : Iterates(F, S, N, base, step)
<1> DEFINE Good(n) == \E F \in [0..n -> S] :
                          /\ F[0] = base
                          /\ \A i \in 1..n : F[i] = step[<<i, F[i - 1]>>]
           T == {n \in Nat : n <= N => Good(n)}
<1>1. Good(0)
  <2>1. [i \in 0..0 |-> base] \in [0..0 -> S]
    OBVIOUS
  <2>2. [i \in 0..0 |-> base][0] = base
    OBVIOUS
  <2>3. \A i \in 1..0 : FALSE
    OBVIOUS
  <2> QED BY <2>1, <2>2, <2>3
<1>2. ASSUME NEW n \in Nat, n + 1 <= N, Good(n) PROVE Good(n + 1)
  <2>1. PICK F \in [0..n -> S] :
           /\ F[0] = base
           /\ \A i \in 1..n : F[i] = step[<<i, F[i - 1]>>]
    BY <1>2
  <2>2. <<n + 1, F[n]>> \in (1..N) \X S
    BY <2>1, <1>2
  <2> DEFINE last == step[<<n + 1, F[n]>>]
             G == [i \in 0..(n + 1) |-> IF i <= n THEN F[i] ELSE last]
  <2>3. last \in S
    BY <2>2
  <2> HIDE DEF last
  <2>4. G \in [0..(n + 1) -> S]
    BY <2>1, <2>3
  <2>5. G[0] = base
    BY <2>1
  <2>6. ASSUME NEW i \in 1..n PROVE G[i] = F[i] /\ G[i - 1] = F[i - 1]
    OBVIOUS
  <2>7. G[n + 1] = last /\ G[(n + 1) - 1] = F[n]
    OBVIOUS
  <2>8. ASSUME NEW i \in 1..(n + 1) PROVE G[i] = step[<<i, G[i - 1]>>]
    <3>1. CASE i \in 1..n
      BY <3>1, <2>1, <2>6
    <3>2. CASE i = n + 1
      BY <3>2, <2>7 DEF last
    <3> QED BY <3>1, <3>2
  <2> HIDE DEF G
  <2> QED BY <2>4, <2>5, <2>8
<1>3. Nat \subseteq T
  <2>1. 0 \in T
    BY <1>1
  <2>2. ASSUME NEW n \in Nat, n \in T PROVE n + 1 \in T
    <3> SUFFICES ASSUME n + 1 <= N PROVE Good(n + 1)
      OBVIOUS
    <3>1. Good(n)
      BY <2>2
    <3> QED BY <1>2, <3>1
  <2> HIDE DEF T
  <2> QED BY <2>1, <2>2, CountUp
<1>4. Good(N)
  BY <1>3
<1> QED BY <1>4 DEF Iterates

-----------------------------------------------------------------------------
(* Selecting elements of a sequence *)

\* The steps that select the elements at positions P, as a function.
SelectStep(S, s, P) ==
    [q \in (1..Len(s)) \X Seq(S) |->
        IF q[1] \in P THEN Append(q[2], s[q[1]]) ELSE q[2]]

\* w lists the elements of s at positions k[1] < k[2] < ..., all in P.
Picks(k, w, s, P) ==
    /\ k \in [1..Len(w) -> P]
    /\ \A j \in 1..Len(w) : w[j] = s[k[j]]
    /\ \A i, j \in 1..Len(w) : i < j => k[i] < k[j]
    /\ \A p \in P : \E j \in 1..Len(w) : k[j] = p

\* F is the function that Selected(s, P) unfolds.
Selects(F, S, s, P) ==
    /\ F \in [0..Len(s) -> Seq(S)]
    /\ F[0] = <<>>
    /\ \A i \in 1..Len(s) :
          F[i] = IF i \in P THEN Append(F[i - 1], s[i]) ELSE F[i - 1]
    /\ Selected(s, P) = F[Len(s)]

\* Selected unfolds to the function that selects position by position.
LEMMA SelectedIsRecursive ==
    ASSUME NEW S, NEW s \in Seq(S), NEW P
    PROVE  \E F : Selects(F, S, s, P)
<1> DEFINE N == Len(s)
           eq(F) == F = [i \in 0..N |-> IF i = 0 THEN <<>>
                                        ELSE IF i \in P THEN Append(F[i - 1], s[i])
                                        ELSE F[i - 1]]
<1>0. N \in Nat /\ \A i \in 1..N : s[i] \in S
  OBVIOUS
<1>1. SelectStep(S, s, P) \in [(1..N) \X Seq(S) -> Seq(S)]
  BY <1>0 DEF SelectStep
<1>2. <<>> \in Seq(S)
  OBVIOUS
<1>3. PICK G \in [0..N -> Seq(S)] :
         /\ G[0] = <<>>
         /\ \A i \in 1..N : G[i] = SelectStep(S, s, P)[<<i, G[i - 1]>>]
  <2> HIDE DEF N
  <2>1. \E G : Iterates(G, Seq(S), N, <<>>, SelectStep(S, s, P))
    BY <1>0, <1>1, <1>2, RecursionExists, Zenon
  <2> QED BY <2>1 DEF Iterates
<1>4. ASSUME NEW i \in 1..N
      PROVE  G[i] = IF i \in P THEN Append(G[i - 1], s[i]) ELSE G[i - 1]
  <2>1. <<i, G[i - 1]>> \in (1..N) \X Seq(S)
    BY <1>3
  <2> QED BY <2>1, <1>3 DEF SelectStep
<1>5. eq(G)
  <2>1. G = [i \in 0..N |-> G[i]]
    BY <1>3
  <2>2. \A i \in 0..N :
           G[i] = IF i = 0 THEN <<>>
                  ELSE IF i \in P THEN Append(G[i - 1], s[i]) ELSE G[i - 1]
    <3> SUFFICES ASSUME NEW i \in 0..N
                 PROVE  G[i] = IF i = 0 THEN <<>>
                               ELSE IF i \in P THEN Append(G[i - 1], s[i])
                               ELSE G[i - 1]
      OBVIOUS
    <3>1. i = 0 \/ i \in 1..N
      BY <1>0
    <3>2. i \in 1..N => i # 0
      OBVIOUS
    <3> HIDE DEF N
    <3> QED BY <3>1, <3>2, <1>3, <1>4
  <2> QED BY <2>1, <2>2, Zenon
<1>6. PICK F : eq(F) /\ Selected(s, P) = F[N]
  <2>1. \E F : eq(F)
    BY <1>5
  <2>2. Selected(s, P) = (CHOOSE F : eq(F))[N]
    BY Zenon DEF Selected
  <2> HIDE DEF eq
  <2> QED BY <2>1, <2>2
<1> DEFINE T == {n \in Nat : n <= N => F[n] \in Seq(S)}
<1>7. F[0] = <<>>
  BY <1>0, <1>6
<1>8. ASSUME NEW i \in 1..N
      PROVE  F[i] = IF i \in P THEN Append(F[i - 1], s[i]) ELSE F[i - 1]
  <2>1. i \in 0..N /\ i # 0
    BY <1>0
  <2>2. \A j \in 0..N : F[j] = IF j = 0 THEN <<>>
                              ELSE IF j \in P THEN Append(F[j - 1], s[j])
                              ELSE F[j - 1]
    BY <1>6, Zenon
  <2> QED BY <2>1, <2>2
<1>9. Nat \subseteq T
  <2>1. 0 \in T
    <3>1. F[0] \in Seq(S)
      BY <1>7
    <3> QED BY <3>1
  <2>2. ASSUME NEW n \in Nat, n \in T PROVE n + 1 \in T
    <3> SUFFICES ASSUME n + 1 <= N PROVE F[n + 1] \in Seq(S)
      OBVIOUS
    <3>1. F[n] \in Seq(S) /\ n + 1 \in 1..N /\ (n + 1) - 1 = n
      BY <2>2, <1>0
    <3>2. s[n + 1] \in S
      BY <3>1, <1>0
    <3>3. F[n + 1] = IF n + 1 \in P THEN Append(F[n], s[n + 1]) ELSE F[n]
      BY <3>1, <1>8
    <3> QED BY <3>1, <3>2, <3>3
  <2> HIDE DEF T
  <2> QED BY <2>1, <2>2, CountUp
<1>10. F \in [0..N -> Seq(S)]
  <2>1. F = [i \in 0..N |-> F[i]]
    BY <1>6
  <2>2. \A i \in 0..N : F[i] \in Seq(S)
    BY <1>9, <1>0
  <2> QED BY <2>1, <2>2
<1> QED BY <1>6, <1>7, <1>8, <1>10 DEF Selects

\* What is selected are the elements at the given positions, in their order.
LEMMA SelectedFacts ==
    ASSUME NEW S, NEW s \in Seq(S), NEW P \in SUBSET (1..Len(s))
    PROVE  /\ Selected(s, P) \in Seq(S)
           /\ \E k : Picks(k, Selected(s, P), s, P)
<1> DEFINE N == Len(s)
<1>0. N \in Nat /\ \A i \in 1..N : s[i] \in S
  OBVIOUS
<1>1. PICK F \in [0..N -> Seq(S)] :
         /\ F[0] = <<>>
         /\ \A i \in 1..N :
               F[i] = IF i \in P THEN Append(F[i - 1], s[i]) ELSE F[i - 1]
         /\ Selected(s, P) = F[N]
  <2>1. \E F : Selects(F, S, s, P)
    BY SelectedIsRecursive, Zenon
  <2> QED BY <2>1 DEF Selects
<1> HIDE DEF N
<1> DEFINE Good(n) == \E k : Picks(k, F[n], s, P \cap 1..n)
           T == {n \in Nat : n <= N => Good(n)}
<1>2. Good(0)
  <2> DEFINE k == [j \in {} |-> 0]
  <2>1. Len(F[0]) = 0 /\ P \cap 1..0 = {}
    BY <1>1
  <2>2. k \in [1..0 -> {}]
    OBVIOUS
  <2>3. Picks(k, F[0], s, P \cap 1..0)
    BY <2>1, <2>2 DEF Picks
  <2> QED BY <2>3
<1>3. ASSUME NEW n \in Nat, n + 1 <= N, Good(n) PROVE Good(n + 1)
  <2>1. PICK k : Picks(k, F[n], s, P \cap 1..n)
    BY <1>3
  <2>2. F[n] \in Seq(S) /\ n + 1 \in 1..N /\ (n + 1) - 1 = n /\ s[n + 1] \in S
    BY <1>0, <1>1, <1>3
  <2>3. CASE n + 1 \in P
    <3> DEFINE w == F[n]
               x == s[n + 1]
               L == Len(w)
               h == [j \in 1..(L + 1) |-> IF j = L + 1 THEN n + 1 ELSE k[j]]
               v == Append(w, x)
    <3>1. F[n + 1] = v
      BY <2>2, <2>3, <1>1
    <3>2. L \in Nat /\ Len(v) = L + 1 /\ v[L + 1] = x
          /\ \A j \in 1..L : v[j] = w[j]
      BY <2>2
    <3>3. /\ k \in [1..L -> P \cap 1..n]
          /\ \A j \in 1..L : w[j] = s[k[j]]
          /\ \A i, j \in 1..L : i < j => k[i] < k[j]
          /\ \A p \in P \cap 1..n : \E j \in 1..L : k[j] = p
      BY <2>1 DEF Picks
    <3>4. \A j \in 1..L : k[j] \in P /\ k[j] \in 1..n
      BY <3>3
    <3> HIDE DEF w, v, L, x
    <3>5. h \in [1..(L + 1) -> P \cap 1..(n + 1)]
      BY <3>2, <3>4, <2>3
    <3>6. \A j \in 1..(L + 1) : v[j] = s[h[j]]
      BY <3>2, <3>3 DEF x
    <3>7. \A i, j \in 1..(L + 1) : i < j => h[i] < h[j]
      BY <3>2, <3>3, <3>4
    <3>8. ASSUME NEW p \in P \cap 1..(n + 1)
          PROVE  \E j \in 1..(L + 1) : h[j] = p
      <4>1. CASE p = n + 1
        BY <4>1, <3>2
      <4>2. CASE p \in P \cap 1..n
        <5>1. PICK j \in 1..L : k[j] = p
          BY <4>2, <3>3
        <5>2. j \in 1..(L + 1) /\ j # L + 1
          BY <3>2
        <5> QED BY <5>1, <5>2
      <4> QED BY <4>1, <4>2
    <3> HIDE DEF h
    <3>9. Picks(h, F[n + 1], s, P \cap 1..(n + 1))
      BY <3>1, <3>2, <3>5, <3>6, <3>7, <3>8 DEF Picks
    <3> QED BY <3>9
  <2>4. CASE n + 1 \notin P
    <3>1. P \cap 1..(n + 1) = P \cap 1..n
      BY <2>4
    <3>2. F[n + 1] = F[n]
      BY <2>2, <2>4, <1>1
    <3> QED BY <2>1, <3>1, <3>2
  <2> QED BY <2>3, <2>4
<1>4. Nat \subseteq T
  <2>1. 0 \in T
    BY <1>2
  <2>2. ASSUME NEW n \in Nat, n \in T PROVE n + 1 \in T
    <3>1. n + 1 <= N => n <= N
      BY <1>0
    <3> HIDE DEF Good
    <3> SUFFICES ASSUME n + 1 <= N PROVE Good(n + 1)
      OBVIOUS
    <3>2. Good(n)
      BY <2>2, <3>1
    <3> QED BY <1>3, <3>2
  <2> HIDE DEF T
  <2> QED BY <2>1, <2>2, CountUp
<1>5. Good(N)
  <2> HIDE DEF Good
  <2> QED BY <1>0, <1>4
<1>6. P \cap 1..N = P
  BY <1>0 DEF N
<1>7. PICK k : Picks(k, F[N], s, P)
  BY <1>5, <1>6
<1>8. F[N] \in Seq(S)
  BY <1>0, <1>1
<1> QED BY <1>1, <1>7, <1>8

-----------------------------------------------------------------------------
(* Lists of messages, and what they show *)

\* The place of the first entry for m, the only one that find returns.
FirstAt(msgs, m, i) ==
    /\ i \in 1..Len(msgs)
    /\ msgs[i].id = m
    /\ \A j \in 1..(i - 1) : msgs[j].id # m

\* What the messages show of m: the version, or -1 when it is not there.
Seen(msgs, m) == IF m \in Ids(msgs) THEN msgs[IndexOf(msgs, m)].ver ELSE -1

\* Messages are known by their identity and carry a version.
LEMMA ShownFacts ==
    ASSUME NEW msgs \in Seq(Shown)
    PROVE  /\ Len(msgs) \in Nat
           /\ DOMAIN msgs = 1..Len(msgs)
           /\ \A i \in 1..Len(msgs) :
                 /\ msgs[i] \in Shown
                 /\ msgs[i].id \in Messages
                 /\ msgs[i].ver \in Versions
                 /\ msgs[i].id \in Ids(msgs)
           /\ Ids(msgs) \subseteq Messages
<1>1. \A i \in 1..Len(msgs) : msgs[i] \in Shown
  OBVIOUS
<1>2. \A x \in Shown : x.id \in Messages /\ x.ver \in Versions
  BY DEF Shown
<1> QED BY <1>1, <1>2 DEF Ids

\* IndexOf finds the first entry of a message, as findIndex does.
LEMMA IndexFacts ==
    ASSUME NEW msgs \in Seq(Shown), NEW m \in Messages
    PROVE  /\ m \in Ids(msgs) => FirstAt(msgs, m, IndexOf(msgs, m))
           /\ m \notin Ids(msgs) => IndexOf(msgs, m) = 0
<1> DEFINE I == {i \in 1..Len(msgs) : msgs[i].id = m}
<1>1. IndexOf(msgs, m) = IF I # {} THEN Min(I) ELSE 0
  BY DEF IndexOf, SelectInSeq
<1>2. DOMAIN msgs = 1..Len(msgs) /\ Len(msgs) \in Nat
  OBVIOUS
<1>3. m \in Ids(msgs) <=> I # {}
  BY <1>2 DEF Ids
<1>4. ASSUME I # {} PROVE FirstAt(msgs, m, Min(I))
  <2>1. I \in SUBSET Nat
    OBVIOUS
  <2> HIDE DEF I
  <2>2. \E x \in I : \A y \in I : x <= y
    BY <1>4, <2>1, LeastNumber
  <2>3. Min(I) \in I /\ \A y \in I : Min(I) <= y
    BY <2>2 DEF Min
  <2>4. ASSUME NEW j \in 1..(Min(I) - 1) PROVE msgs[j].id # m
    <3>1. j \in 1..Len(msgs) /\ ~(Min(I) <= j)
      BY <2>1, <2>3, <1>2 DEF I
    <3> QED BY <3>1, <2>3 DEF I
  <2> QED BY <2>3, <2>4 DEF FirstAt, I
<1> QED BY <1>1, <1>3, <1>4

\* A message is seen as its first entry shows it.
LEMMA FirstIsSeen ==
    ASSUME NEW msgs \in Seq(Shown), NEW m \in Messages, NEW i,
           FirstAt(msgs, m, i)
    PROVE  /\ m \in Ids(msgs)
           /\ IndexOf(msgs, m) = i
           /\ Seen(msgs, m) = msgs[i].ver
<1>1. DOMAIN msgs = 1..Len(msgs)
  OBVIOUS
<1>2. m \in Ids(msgs)
  BY <1>1 DEF FirstAt, Ids
<1>3. FirstAt(msgs, m, IndexOf(msgs, m))
  BY <1>2, IndexFacts
<1>4. IndexOf(msgs, m) = i
  <2>1. ASSUME NEW j \in Nat, NEW k \in Nat, j < k, j \in 1..Len(msgs),
               FirstAt(msgs, m, j), FirstAt(msgs, m, k)
        PROVE  FALSE
    BY <2>1 DEF FirstAt
  <2>2. i \in Nat /\ IndexOf(msgs, m) \in Nat
        /\ i \in 1..Len(msgs) /\ IndexOf(msgs, m) \in 1..Len(msgs)
    BY <1>3 DEF FirstAt
  <2>3. i < IndexOf(msgs, m) \/ IndexOf(msgs, m) < i \/ IndexOf(msgs, m) = i
    BY <2>2
  <2> QED BY <2>1, <2>2, <2>3, <1>3
<1> QED BY <1>2, <1>4 DEF Seen

\* A message that is seen has a version, and a place.
LEMMA SeenFacts ==
    ASSUME NEW msgs \in Seq(Shown), NEW m \in Messages
    PROVE  /\ m \in Ids(msgs) =>
                 /\ Seen(msgs, m) \in Versions
                 /\ Seen(msgs, m) # -1
                 /\ IndexOf(msgs, m) \in 1..Len(msgs)
                 /\ msgs[IndexOf(msgs, m)].id = m
                 /\ Seen(msgs, m) = msgs[IndexOf(msgs, m)].ver
           /\ m \notin Ids(msgs) => Seen(msgs, m) = -1
<1>1. ASSUME m \in Ids(msgs)
      PROVE  /\ Seen(msgs, m) \in Versions
             /\ IndexOf(msgs, m) \in 1..Len(msgs)
             /\ msgs[IndexOf(msgs, m)].id = m
             /\ Seen(msgs, m) = msgs[IndexOf(msgs, m)].ver
  <2>1. FirstAt(msgs, m, IndexOf(msgs, m))
    BY <1>1, IndexFacts
  <2> QED BY <2>1, <1>1, ShownFacts DEF FirstAt, Seen
<1>2. \A x \in Versions : x # -1
  BY StreamConstants DEF Versions
<1> QED BY <1>1, <1>2 DEF Seen

\* Two lists of messages, one after the other.
LEMMA ConcatFacts ==
    ASSUME NEW s \in Seq(Shown), NEW t \in Seq(Shown)
    PROVE  /\ s \o t \in Seq(Shown)
           /\ Len(s \o t) = Len(s) + Len(t)
           /\ \A i \in 1..Len(s) : (s \o t)[i] = s[i]
           /\ \A i \in 1..Len(t) : (s \o t)[Len(s) + i] = t[i]
           /\ Ids(s \o t) = Ids(s) \cup Ids(t)
<1> DEFINE c == s \o t
<1>1. /\ c \in Seq(Shown)
      /\ Len(c) = Len(s) + Len(t)
      /\ \A i \in 1..Len(s) : c[i] = s[i]
      /\ \A i \in 1..Len(t) : c[Len(s) + i] = t[i]
      /\ Len(s) \in Nat /\ Len(t) \in Nat
      /\ DOMAIN s = 1..Len(s) /\ DOMAIN t = 1..Len(t) /\ DOMAIN c = 1..Len(c)
  OBVIOUS
<1> HIDE DEF c
<1>2. ASSUME NEW x \in Ids(c) PROVE x \in Ids(s) \cup Ids(t)
  <2>1. PICK i \in 1..Len(c) : x = c[i].id
    BY <1>1 DEF Ids
  <2>2. i \in 1..Len(s) \/ (i - Len(s) \in 1..Len(t) /\ i = Len(s) + (i - Len(s)))
    BY <1>1
  <2> QED BY <1>1, <2>1, <2>2 DEF Ids
<1>3. Ids(s) \subseteq Ids(c)
  <2>1. \A i \in 1..Len(s) : i \in 1..Len(c)
    BY <1>1
  <2> QED BY <1>1, <2>1 DEF Ids
<1>4. Ids(t) \subseteq Ids(c)
  <2>1. \A i \in 1..Len(t) : Len(s) + i \in 1..Len(c)
    BY <1>1
  <2> QED BY <1>1, <2>1 DEF Ids
<1> QED BY <1>1, <1>2, <1>3, <1>4 DEF c

\* The first list hides what the second one shows of the same message.
LEMMA SeenConcat ==
    ASSUME NEW s \in Seq(Shown), NEW t \in Seq(Shown), NEW m \in Messages
    PROVE  /\ Seen(s \o t, m) = IF m \in Ids(s) THEN Seen(s, m) ELSE Seen(t, m)
           /\ m \in Ids(s) => IndexOf(s \o t, m) = IndexOf(s, m)
           /\ m \notin Ids(s) /\ m \in Ids(t) =>
                 IndexOf(s \o t, m) = Len(s) + IndexOf(t, m)
<1> DEFINE c == s \o t
<1>1. /\ c \in Seq(Shown)
      /\ Len(c) = Len(s) + Len(t)
      /\ \A i \in 1..Len(s) : c[i] = s[i]
      /\ \A i \in 1..Len(t) : c[Len(s) + i] = t[i]
      /\ Ids(c) = Ids(s) \cup Ids(t)
      /\ Len(s) \in Nat /\ Len(t) \in Nat
  BY ConcatFacts
<1> HIDE DEF c
<1>2. ASSUME m \in Ids(s)
      PROVE  Seen(c, m) = Seen(s, m) /\ IndexOf(c, m) = IndexOf(s, m)
  <2> DEFINE i == IndexOf(s, m)
  <2>1. FirstAt(s, m, i)
    BY <1>2, IndexFacts
  <2>2. i \in 1..Len(s) /\ \A j \in 1..(i - 1) : s[j].id # m
    BY <2>1 DEF FirstAt
  <2> HIDE DEF i
  <2>3. i \in 1..Len(c) /\ c[i] = s[i] /\ s[i].id = m
    BY <2>1, <2>2, <1>1 DEF FirstAt
  <2>4. ASSUME NEW j \in 1..(i - 1) PROVE c[j].id # m
    <3>1. j \in 1..Len(s)
      BY <2>2
    <3> QED BY <3>1, <2>2, <1>1
  <2>5. FirstAt(c, m, i)
    BY <2>3, <2>4 DEF FirstAt
  <2> QED BY <2>1, <2>3, <2>5, <1>1, FirstIsSeen DEF i
<1>3. ASSUME m \notin Ids(s), m \in Ids(t)
      PROVE  Seen(c, m) = Seen(t, m) /\ IndexOf(c, m) = Len(s) + IndexOf(t, m)
  <2> DEFINE i == IndexOf(t, m)
  <2>1. FirstAt(t, m, i)
    BY <1>3, IndexFacts
  <2>2. /\ i \in 1..Len(t) /\ t[i].id = m
        /\ \A j \in 1..(i - 1) : t[j].id # m
    BY <2>1 DEF FirstAt
  <2> HIDE DEF i
  <2>3. \A j \in 1..Len(s) : s[j].id # m
    BY <1>3, ShownFacts
  <2>4. ASSUME NEW j \in 1..((Len(s) + i) - 1) PROVE c[j].id # m
    <3>1. j \in 1..Len(s) \/ (j - Len(s) \in 1..(i - 1) /\ j - Len(s) \in 1..Len(t)
                              /\ j = Len(s) + (j - Len(s)))
      BY <1>1, <2>2
    <3> QED BY <3>1, <1>1, <2>2, <2>3
  <2>5. FirstAt(c, m, Len(s) + i)
    BY <1>1, <2>2, <2>4 DEF FirstAt
  <2>6. c[Len(s) + i] = t[i]
    BY <1>1, <2>2
  <2> QED BY <2>1, <2>5, <2>6, <1>1, FirstIsSeen DEF i
<1>4. ASSUME m \notin Ids(s), m \notin Ids(t) PROVE Seen(c, m) = Seen(t, m)
  BY <1>4, <1>1 DEF Seen
<1> QED BY <1>2, <1>3, <1>4 DEF c

\* Upsert replaces the first entry of its message or appends one, and touches no
\* other message.
LEMMA UpsertFacts ==
    ASSUME NEW msgs \in Seq(Shown), NEW x \in Shown
    PROVE  /\ Upsert(msgs, x) \in Seq(Shown)
           /\ Ids(Upsert(msgs, x)) = Ids(msgs) \cup {x.id}
           /\ Seen(Upsert(msgs, x), x.id) = x.ver
           /\ \A m \in Messages \ {x.id} :
                 Seen(Upsert(msgs, x), m) = Seen(msgs, m)
           /\ \A m \in Ids(msgs) : IndexOf(Upsert(msgs, x), m) = IndexOf(msgs, m)
           /\ \A i \in 1..Len(Upsert(msgs, x)) :
                 \/ i \in 1..Len(msgs) /\ Upsert(msgs, x)[i] = msgs[i]
                 \/ Upsert(msgs, x)[i] = x
<1> DEFINE u == Upsert(msgs, x)
<1>0. x.id \in Messages /\ x.ver \in Versions
  BY DEF Shown
<1>1. CASE x.id \in Ids(msgs)
  <2> DEFINE k == IndexOf(msgs, x.id)
  <2>1. FirstAt(msgs, x.id, k)
    BY <1>0, <1>1, IndexFacts
  <2>2. k \in 1..Len(msgs)
    BY <2>1 DEF FirstAt
  <2>3. u = [msgs EXCEPT ![k] = x]
    BY <1>1 DEF Upsert
  <2> HIDE DEF k
  <2>4. u \in Seq(Shown) /\ Len(u) = Len(msgs) /\ u[k] = x
        /\ \A i \in 1..Len(msgs) : i # k => u[i] = msgs[i]
    BY <2>2, <2>3
  <2> HIDE DEF u
  <2>5. \A i \in 1..Len(msgs) : u[i].id = msgs[i].id
    BY <2>1, <2>4 DEF FirstAt
  <2>6. ASSUME NEW m, NEW i, FirstAt(msgs, m, i) PROVE FirstAt(u, m, i)
    <3>1. \A j \in 1..(i - 1) : j \in 1..Len(msgs)
      BY <2>6, ShownFacts DEF FirstAt
    <3> QED BY <3>1, <2>4, <2>5, <2>6 DEF FirstAt
  <2>7. ASSUME NEW m \in Ids(msgs)
        PROVE  /\ IndexOf(u, m) = IndexOf(msgs, m)
               /\ Seen(u, m) = u[IndexOf(msgs, m)].ver
               /\ FirstAt(msgs, m, IndexOf(msgs, m))
               /\ m \in Ids(u)
    <3>1. m \in Messages
      BY ShownFacts
    <3>2. FirstAt(msgs, m, IndexOf(msgs, m))
      BY <3>1, IndexFacts
    <3>3. FirstAt(u, m, IndexOf(msgs, m))
      BY <3>2, <2>6
    <3> QED BY <3>1, <3>2, <3>3, <2>4, FirstIsSeen
  <2>8. Seen(u, x.id) = x.ver
    BY <2>7, <2>4, <1>1 DEF k
  <2>9. Ids(u) = Ids(msgs)
    BY <2>4, <2>5 DEF Ids
  <2>10. ASSUME NEW m \in Messages \ {x.id} PROVE Seen(u, m) = Seen(msgs, m)
    <3>1. CASE m \in Ids(msgs)
      <4>1. IndexOf(msgs, m) \in 1..Len(msgs) /\ msgs[IndexOf(msgs, m)].id = m
        BY <3>1, <2>7 DEF FirstAt
      <4>2. IndexOf(msgs, m) # k
        BY <4>1, <2>1 DEF FirstAt
      <4> QED BY <3>1, <4>1, <4>2, <2>4, <2>7 DEF Seen
    <3>2. CASE m \notin Ids(msgs)
      BY <3>2, <2>9 DEF Seen
    <3> QED BY <3>1, <3>2
  <2> QED BY <2>4, <2>7, <2>8, <2>9, <2>10, <1>1 DEF u
<1>2. CASE x.id \notin Ids(msgs)
  <2> DEFINE t == <<x>>
  <2>0. t \in Seq(Shown) /\ Len(t) = 1 /\ t[1] = x
    OBVIOUS
  <2>1. u = msgs \o t
    BY <1>2 DEF Upsert
  <2>2. Ids(t) = {x.id}
    BY <2>0 DEF Ids
  <2>3. FirstAt(t, x.id, 1)
    BY <2>0 DEF FirstAt
  <2>4. Seen(t, x.id) = x.ver
    BY <2>0, <2>3, <1>0, FirstIsSeen
  <2>5. \A m \in Messages \ {x.id} : m \notin Ids(msgs) => Seen(t, m) = Seen(msgs, m)
    BY <2>2 DEF Seen
  <2> HIDE DEF t, u
  <2>6. u \in Seq(Shown) /\ Ids(u) = Ids(msgs) \cup {x.id}
    BY <2>0, <2>1, <2>2, ConcatFacts
  <2>7. \A m \in Messages :
           /\ Seen(u, m) = IF m \in Ids(msgs) THEN Seen(msgs, m) ELSE Seen(t, m)
           /\ m \in Ids(msgs) => IndexOf(u, m) = IndexOf(msgs, m)
    BY <2>0, <2>1, SeenConcat
  <2>8. \A i \in 1..Len(u) :
           \/ i \in 1..Len(msgs) /\ u[i] = msgs[i]
           \/ u[i] = x
    <3>1. /\ Len(u) = Len(msgs) + 1 /\ Len(msgs) \in Nat
          /\ \A i \in 1..Len(msgs) : u[i] = msgs[i]
          /\ u[Len(msgs) + 1] = t[1]
      BY <2>0, <2>1, ConcatFacts
    <3>2. \A i \in 1..(Len(msgs) + 1) : i \in 1..Len(msgs) \/ i = Len(msgs) + 1
      BY <3>1
    <3> QED BY <3>1, <3>2, <2>0
  <2>9. Ids(msgs) \subseteq Messages
    BY ShownFacts
  <2> QED BY <1>0, <1>2, <2>4, <2>5, <2>6, <2>7, <2>8, <2>9 DEF u
<1> QED BY <1>1, <1>2

\* Without removes messages, and leaves the others as they are and in order.
LEMMA WithoutFacts ==
    ASSUME NEW msgs \in Seq(Shown), NEW ids
    PROVE  /\ Without(msgs, ids) \in Seq(Shown)
           /\ Ids(Without(msgs, ids)) = Ids(msgs) \ ids
           /\ \A m \in Messages \ ids :
                 Seen(Without(msgs, ids), m) = Seen(msgs, m)
           /\ \A i \in 1..Len(Without(msgs, ids)) :
                 \E q \in 1..Len(msgs) :
                    /\ Without(msgs, ids)[i] = msgs[q]
                    /\ \A m \in Ids(Without(msgs, ids)) :
                          IndexOf(Without(msgs, ids), m) <= i
                          => IndexOf(msgs, m) <= q
<1> DEFINE P == {i \in 1..Len(msgs) : msgs[i].id \notin ids}
           w == Without(msgs, ids)
<1>1. w = Selected(msgs, P)
  <2> DEFINE Q == {i \in DOMAIN msgs : msgs[i].id \notin ids}
  <2>1. P = Q
    BY ShownFacts
  <2>2. w = Selected(msgs, Q)
    BY DEF Without
  <2> HIDE DEF P, Q
  <2> QED BY <2>1, <2>2
<1>2. P \in SUBSET (1..Len(msgs))
  OBVIOUS
<1>3. w \in Seq(Shown) /\ \E k : Picks(k, w, msgs, P)
  <2> HIDE DEF P, w
  <2> QED BY <1>1, <1>2, SelectedFacts, Zenon
<1> HIDE DEF w
<1>4. PICK k : Picks(k, w, msgs, P)
  BY <1>3
<1>5. /\ k \in [1..Len(w) -> P]
      /\ \A j \in 1..Len(w) : w[j] = msgs[k[j]]
      /\ \A i, j \in 1..Len(w) : i < j => k[i] < k[j]
      /\ \A p \in P : \E j \in 1..Len(w) : k[j] = p
  BY <1>4 DEF Picks
<1>6. \A j \in 1..Len(w) : k[j] \in 1..Len(msgs) /\ msgs[k[j]].id \notin ids
  BY <1>5
<1>7. /\ Len(w) \in Nat /\ Len(msgs) \in Nat
      /\ DOMAIN w = 1..Len(w) /\ DOMAIN msgs = 1..Len(msgs)
  BY <1>3
<1>8. Ids(w) = Ids(msgs) \ ids
  <2>1. ASSUME NEW x \in Ids(w) PROVE x \in Ids(msgs) \ ids
    BY <1>5, <1>6, <1>7 DEF Ids
  <2>2. ASSUME NEW x \in Ids(msgs) \ ids PROVE x \in Ids(w)
    <3>1. PICK i \in 1..Len(msgs) : x = msgs[i].id
      BY <1>7 DEF Ids
    <3>2. i \in P
      BY <3>1
    <3>3. PICK j \in 1..Len(w) : k[j] = i
      BY <3>2, <1>5
    <3> QED BY <3>1, <3>3, <1>5, <1>7 DEF Ids
  <2> QED BY <2>1, <2>2
<1>9. ASSUME NEW m \in Ids(w)
      PROVE  /\ IndexOf(w, m) \in 1..Len(w)
             /\ IndexOf(msgs, m) = k[IndexOf(w, m)]
             /\ Seen(w, m) = Seen(msgs, m)
  <2>1. m \in Messages
    BY <1>3, ShownFacts
  <2> DEFINE j == IndexOf(w, m)
  <2>2. FirstAt(w, m, j)
    BY <1>3, <2>1, IndexFacts
  <2>3. j \in 1..Len(w) /\ w[j].id = m /\ \A q \in 1..(j - 1) : w[q].id # m
    BY <2>2 DEF FirstAt
  <2> HIDE DEF j
  <2>4. k[j] \in 1..Len(msgs) /\ msgs[k[j]] = w[j]
    BY <2>3, <1>5, <1>6
  <2>5. ASSUME NEW i \in 1..(k[j] - 1) PROVE msgs[i].id # m
    <3> SUFFICES ASSUME msgs[i].id = m PROVE FALSE
      OBVIOUS
    <3>1. i \in 1..Len(msgs) /\ i < k[j]
      BY <2>4, <1>7
    <3>2. i \in P
      BY <3>1, <1>8
    <3>3. PICK q \in 1..Len(w) : k[q] = i
      BY <3>2, <1>5
    <3>4. w[q].id = m
      BY <3>3, <1>5
    <3>5. ~(q \in 1..(j - 1))
      BY <3>4, <2>3
    <3>6. q = j \/ j < q
      BY <3>5, <2>3, <1>7
    <3>7. q # j
      BY <3>1, <3>3, <2>4
    <3>8. k[j] < k[q]
      BY <3>6, <3>7, <2>3, <1>5
    <3> QED BY <3>1, <3>3, <3>8, <2>4
  <2>6. FirstAt(msgs, m, k[j])
    BY <2>3, <2>4, <2>5 DEF FirstAt
  <2> QED BY <2>1, <2>2, <2>3, <2>4, <2>6, <1>3, FirstIsSeen DEF j
<1>10. ASSUME NEW m \in Messages \ ids PROVE Seen(w, m) = Seen(msgs, m)
  <2>1. CASE m \notin Ids(msgs)
    BY <2>1, <1>8 DEF Seen
  <2>2. CASE m \in Ids(msgs)
    BY <2>2, <1>8, <1>9
  <2> QED BY <2>1, <2>2
<1>11. ASSUME NEW i \in 1..Len(w)
       PROVE  \E q \in 1..Len(msgs) :
                 /\ w[i] = msgs[q]
                 /\ \A m \in Ids(w) : IndexOf(w, m) <= i => IndexOf(msgs, m) <= q
  <2>1. k[i] \in 1..Len(msgs) /\ w[i] = msgs[k[i]]
    BY <1>5, <1>6
  <2>2. ASSUME NEW m \in Ids(w), IndexOf(w, m) <= i
        PROVE  IndexOf(msgs, m) <= k[i]
    <3>1. IndexOf(w, m) = i \/ k[IndexOf(w, m)] < k[i]
      BY <2>2, <1>5, <1>7, <1>9
    <3>2. k[IndexOf(w, m)] \in 1..Len(msgs)
      BY <1>6, <1>9
    <3> QED BY <3>1, <3>2, <2>1, <1>9
  <2> QED BY <2>1, <2>2
<1> QED BY <1>3, <1>8, <1>10, <1>11 DEF w

\* A message that only its writer knows.
Draft(x) == x.ver = 0 /\ x.id \in Users
Drafts(msgs) == \A i \in 1..Len(msgs) : Draft(msgs[i])

\* F is the function that UpsertAll(msgs, xs) unfolds.
Upserts(F, msgs, xs) ==
    /\ F \in [0..Len(xs) -> Seq(Shown)]
    /\ F[0] = msgs
    /\ \A i \in 1..Len(xs) : F[i] = Upsert(F[i - 1], xs[i])
    /\ UpsertAll(msgs, xs) = F[Len(xs)]

UpsertStep(xs) ==
    [q \in (1..Len(xs)) \X Seq(Shown) |-> Upsert(q[2], xs[q[1]])]

\* UpsertAll unfolds to the function that upserts one message after the other.
LEMMA UpsertAllIsRecursive ==
    ASSUME NEW msgs \in Seq(Shown), NEW xs \in Seq(Shown)
    PROVE  \E F : Upserts(F, msgs, xs)
<1> DEFINE N == Len(xs)
           eq(F) == F = [i \in 0..N |-> IF i = 0 THEN msgs
                                        ELSE Upsert(F[i - 1], xs[i])]
<1>0. N \in Nat /\ \A i \in 1..N : xs[i] \in Shown
  OBVIOUS
<1>1. UpsertStep(xs) \in [(1..N) \X Seq(Shown) -> Seq(Shown)]
  <2>1. ASSUME NEW q \in (1..N) \X Seq(Shown)
        PROVE  Upsert(q[2], xs[q[1]]) \in Seq(Shown)
    <3>1. q[2] \in Seq(Shown) /\ xs[q[1]] \in Shown
      BY <1>0
    <3> QED BY <3>1, UpsertFacts
  <2> QED BY <2>1 DEF UpsertStep
<1>2. \E G : Iterates(G, Seq(Shown), N, msgs, UpsertStep(xs))
  <2> HIDE DEF N
  <2> QED BY <1>0, <1>1, RecursionExists, Zenon
<1>3. PICK G \in [0..N -> Seq(Shown)] :
         /\ G[0] = msgs
         /\ \A i \in 1..N : G[i] = UpsertStep(xs)[<<i, G[i - 1]>>]
  BY <1>2 DEF Iterates
<1>4. ASSUME NEW i \in 1..N PROVE G[i] = Upsert(G[i - 1], xs[i])
  <2>1. <<i, G[i - 1]>> \in (1..N) \X Seq(Shown)
    BY <1>3
  <2> QED BY <2>1, <1>3 DEF UpsertStep
<1>5. eq(G)
  <2>1. G = [i \in 0..N |-> G[i]]
    BY <1>3
  <2>2. ASSUME NEW i \in 0..N
        PROVE  G[i] = IF i = 0 THEN msgs ELSE Upsert(G[i - 1], xs[i])
    <3>1. i = 0 \/ i \in 1..N
      BY <1>0
    <3>2. i \in 1..N => i # 0
      OBVIOUS
    <3> HIDE DEF N
    <3> QED BY <3>1, <3>2, <1>3, <1>4
  <2> QED BY <2>1, <2>2, Zenon
<1>6. PICK F : eq(F) /\ UpsertAll(msgs, xs) = F[N]
  <2>1. \E F : eq(F)
    BY <1>5
  <2>2. UpsertAll(msgs, xs) = (CHOOSE F : eq(F))[N]
    BY Zenon DEF UpsertAll
  <2> HIDE DEF eq
  <2> QED BY <2>1, <2>2
<1>7. F[0] = msgs
  BY <1>0, <1>6
<1>8. ASSUME NEW i \in 1..N PROVE F[i] = Upsert(F[i - 1], xs[i])
  <2>1. i \in 0..N /\ i # 0
    BY <1>0
  <2>2. \A j \in 0..N : F[j] = IF j = 0 THEN msgs ELSE Upsert(F[j - 1], xs[j])
    BY <1>6, Zenon
  <2> QED BY <2>1, <2>2
<1> DEFINE T == {n \in Nat : n <= N => F[n] \in Seq(Shown)}
<1>9. Nat \subseteq T
  <2>1. 0 \in T
    <3>1. F[0] \in Seq(Shown)
      BY <1>7
    <3> QED BY <3>1
  <2>2. ASSUME NEW n \in Nat, n \in T PROVE n + 1 \in T
    <3> SUFFICES ASSUME n + 1 <= N PROVE F[n + 1] \in Seq(Shown)
      OBVIOUS
    <3>1. F[n] \in Seq(Shown) /\ n + 1 \in 1..N /\ (n + 1) - 1 = n
      BY <2>2, <1>0
    <3>2. xs[n + 1] \in Shown
      BY <3>1, <1>0
    <3>3. F[n + 1] = Upsert(F[n], xs[n + 1])
      BY <3>1, <1>8
    <3>4. Upsert(F[n], xs[n + 1]) \in Seq(Shown)
      BY <3>1, <3>2, UpsertFacts
    <3> QED BY <3>3, <3>4
  <2> HIDE DEF T
  <2> QED BY <2>1, <2>2, CountUp
<1>10. F \in [0..N -> Seq(Shown)]
  <2>1. F = [i \in 0..N |-> F[i]]
    BY <1>6
  <2>2. \A i \in 0..N : F[i] \in Seq(Shown)
    BY <1>9, <1>0
  <2> QED BY <2>1, <2>2
<1> QED BY <1>6, <1>7, <1>8, <1>10 DEF Upserts

\* UpsertAll yields messages, and of drafts only drafts.
LEMMA UpsertAllFacts ==
    ASSUME NEW msgs \in Seq(Shown), NEW xs \in Seq(Shown)
    PROVE  /\ UpsertAll(msgs, xs) \in Seq(Shown)
           /\ Drafts(msgs) /\ Drafts(xs) => Drafts(UpsertAll(msgs, xs))
<1> DEFINE N == Len(xs)
<1>0. N \in Nat /\ \A i \in 1..N : xs[i] \in Shown
  OBVIOUS
<1>1. PICK F : Upserts(F, msgs, xs)
  BY UpsertAllIsRecursive
<1>2. /\ F \in [0..N -> Seq(Shown)]
      /\ F[0] = msgs
      /\ \A i \in 1..N : F[i] = Upsert(F[i - 1], xs[i])
      /\ UpsertAll(msgs, xs) = F[N]
  BY <1>1 DEF Upserts
<1>3. UpsertAll(msgs, xs) \in Seq(Shown)
  BY <1>0, <1>2
<1>4. ASSUME Drafts(msgs), Drafts(xs) PROVE Drafts(F[N])
  <2> DEFINE T == {n \in Nat : n <= N => Drafts(F[n])}
  <2>1. 0 \in T
    BY <1>2, <1>4
  <2>2. ASSUME NEW n \in Nat, n \in T PROVE n + 1 \in T
    <3> SUFFICES ASSUME n + 1 <= N PROVE Drafts(F[n + 1])
      OBVIOUS
    <3>1. n \in 0..N /\ n + 1 \in 1..N /\ (n + 1) - 1 = n
      BY <1>0
    <3>2. Drafts(F[n]) /\ F[n] \in Seq(Shown)
      BY <2>2, <3>1, <1>2
    <3>3. F[n + 1] = Upsert(F[n], xs[n + 1]) /\ xs[n + 1] \in Shown
      BY <3>1, <1>0, <1>2
    <3>4. Draft(xs[n + 1])
      BY <1>4, <3>1 DEF Drafts
    <3> DEFINE before == F[n]
               after == F[n + 1]
               x == xs[n + 1]
    <3>5. before \in Seq(Shown) /\ x \in Shown /\ after = Upsert(before, x)
          /\ Drafts(before) /\ Draft(x)
      BY <3>2, <3>3, <3>4
    <3> HIDE DEF before, after, x
    <3>6. \A i \in 1..Len(after) :
             \/ i \in 1..Len(before) /\ after[i] = before[i]
             \/ after[i] = x
      BY <3>5, UpsertFacts
    <3>7. Drafts(after)
      BY <3>5, <3>6 DEF Drafts
    <3> QED BY <3>7 DEF after
  <2> HIDE DEF T
  <2>3. Nat \subseteq T
    BY <2>1, <2>2, CountUp
  <2> QED BY <2>3, <1>0 DEF T
<1> QED BY <1>2, <1>3, <1>4

\* A subsequence that leaves nothing out before its end.
LEMMA PrefixFacts ==
    ASSUME NEW msgs \in Seq(Shown), NEW n \in 0..Len(msgs)
    PROVE  /\ SubSeq(msgs, 1, n) \in Seq(Shown)
           /\ Ids(SubSeq(msgs, 1, n)) \subseteq Ids(msgs)
           /\ \A m \in Ids(SubSeq(msgs, 1, n)) :
                 Seen(SubSeq(msgs, 1, n), m) = Seen(msgs, m)
           /\ \A m \in Ids(msgs) :
                 m \in Ids(SubSeq(msgs, 1, n)) \/ IndexOf(msgs, m) > n
<1> DEFINE p == SubSeq(msgs, 1, n)
<1>1. /\ p \in Seq(Shown) /\ Len(p) = n
      /\ \A i \in 1..n : p[i] = msgs[i]
      /\ n \in Nat /\ Len(msgs) \in Nat /\ n <= Len(msgs)
  BY SubSeqProperties
<1> HIDE DEF p
<1>2. Ids(p) \subseteq Ids(msgs)
  <2>1. \A i \in 1..n : i \in 1..Len(msgs)
    BY <1>1
  <2> QED BY <2>1, <1>1 DEF Ids
<1>3. ASSUME NEW m \in Ids(p) PROVE Seen(p, m) = Seen(msgs, m)
  <2>0. m \in Messages
    BY <1>1, ShownFacts
  <2> DEFINE i == IndexOf(p, m)
  <2>1. FirstAt(p, m, i)
    BY <2>0, <1>1, IndexFacts
  <2>2. i \in 1..n /\ p[i].id = m /\ \A j \in 1..(i - 1) : p[j].id # m
    BY <2>1, <1>1 DEF FirstAt
  <2> HIDE DEF i
  <2>3. i \in 1..Len(msgs) /\ msgs[i] = p[i] /\ \A j \in 1..(i - 1) : j \in 1..n
    BY <2>2, <1>1
  <2>4. FirstAt(msgs, m, i)
    BY <2>2, <2>3, <1>1 DEF FirstAt
  <2> QED BY <2>0, <2>1, <2>3, <2>4, <1>1, FirstIsSeen
<1>4. ASSUME NEW m \in Ids(msgs), ~(IndexOf(msgs, m) > n) PROVE m \in Ids(p)
  <2>0. m \in Messages
    BY ShownFacts
  <2>1. FirstAt(msgs, m, IndexOf(msgs, m))
    BY <2>0, IndexFacts
  <2>2. IndexOf(msgs, m) \in 1..n /\ msgs[IndexOf(msgs, m)].id = m
    BY <2>1, <1>1, <1>4 DEF FirstAt
  <2> QED BY <2>2, <1>1 DEF Ids
<1> QED BY <1>1, <1>2, <1>3, <1>4 DEF p

\* A page of history in front of what is held: what is held wins.
LEMMA PrependFacts ==
    ASSUME NEW proj \in Projection, NEW page, page.msgs \in Seq(Shown)
    PROVE  /\ Prepend(proj, page).msgs \in Seq(Shown)
           /\ Prepend(proj, page) = [msgs |-> Prepend(proj, page).msgs,
                                     older |-> page.older]
           /\ \A m \in Messages :
                 Seen(Prepend(proj, page).msgs, m) =
                    IF m \in Ids(proj.msgs) THEN Seen(proj.msgs, m)
                    ELSE Seen(page.msgs, m)
           /\ Ids(Prepend(proj, page).msgs) = Ids(page.msgs) \cup Ids(proj.msgs)
           /\ \A m \in Ids(proj.msgs) \ Ids(page.msgs) :
                 \A i \in 1..Len(Prepend(proj, page).msgs) :
                    IndexOf(Prepend(proj, page).msgs, m) <= i
                    => \E q \in 1..Len(proj.msgs) :
                          /\ IndexOf(proj.msgs, m) <= q
                          /\ Prepend(proj, page).msgs[i] = proj.msgs[q]
<1> DEFINE held == proj.msgs
           old == page.msgs
           s == [i \in DOMAIN old |->
                   IF old[i].id \in Ids(held)
                   THEN held[IndexOf(held, old[i].id)] ELSE old[i]]
           t == Without(held, Ids(old))
           p == Prepend(proj, page).msgs
<1>1. held \in Seq(Shown) /\ old \in Seq(Shown)
  BY DEF Projection
<1>2. p = s \o t /\ Prepend(proj, page) = [msgs |-> s \o t, older |-> page.older]
  BY DEF Prepend
<1>3. DOMAIN old = 1..Len(old) /\ Len(old) \in Nat
      /\ \A i \in 1..Len(old) : old[i] \in Shown /\ old[i].id \in Messages
                                /\ old[i].id \in Ids(old)
  BY <1>1, ShownFacts
<1> HIDE DEF held, old
<1>4. ASSUME NEW i \in 1..Len(old)
      PROVE  /\ s[i] \in Shown /\ s[i].id = old[i].id
             /\ s[i].ver = IF old[i].id \in Ids(held)
                           THEN Seen(held, old[i].id) ELSE old[i].ver
  <2> DEFINE x == old[i].id
  <2>1. s[i] = IF x \in Ids(held) THEN held[IndexOf(held, x)] ELSE old[i]
    BY <1>3
  <2>2. x \in Ids(held) => IndexOf(held, x) \in 1..Len(held)
                           /\ held[IndexOf(held, x)].id = x
                           /\ Seen(held, x) = held[IndexOf(held, x)].ver
    BY <1>1, <1>3, SeenFacts
  <2>3. x \in Ids(held) => held[IndexOf(held, x)] \in Shown
    BY <1>1, <2>2, ShownFacts
  <2> HIDE DEF s
  <2> QED BY <2>1, <2>2, <2>3, <1>3
<1>5. s \in Seq(Shown) /\ Len(s) = Len(old)
  BY <1>3, <1>4
<1>6. t \in Seq(Shown) /\ Ids(t) = Ids(held) \ Ids(old)
  BY <1>1, WithoutFacts
<1> HIDE DEF s, t, p
<1>7. Ids(s) = Ids(old)
  <2>1. DOMAIN s = 1..Len(old)
    BY <1>5, ShownFacts
  <2>2. \A i \in 1..Len(old) : s[i].id = old[i].id
    BY <1>4
  <2> QED BY <2>1, <2>2, <1>3 DEF Ids
<1>8. p \in Seq(Shown) /\ Ids(p) = Ids(old) \cup Ids(held)
  BY <1>2, <1>5, <1>6, <1>7, ConcatFacts
<1>9. ASSUME NEW m \in Messages
      PROVE  Seen(p, m) = IF m \in Ids(held) THEN Seen(held, m) ELSE Seen(old, m)
  <2>1. Seen(p, m) = IF m \in Ids(s) THEN Seen(s, m) ELSE Seen(t, m)
    BY <1>2, <1>5, <1>6, SeenConcat
  <2>2. CASE m \in Ids(old)
    <3> DEFINE j == IndexOf(old, m)
    <3>1. FirstAt(old, m, j)
      BY <2>2, <1>1, IndexFacts
    <3>2. /\ j \in 1..Len(old) /\ old[j].id = m
          /\ \A q \in 1..(j - 1) : old[q].id # m /\ q \in 1..Len(old)
      BY <3>1, <1>3 DEF FirstAt
    <3>3. Seen(old, m) = old[j].ver
      BY <3>1, <1>1, FirstIsSeen
    <3> HIDE DEF j
    <3>4. FirstAt(s, m, j)
      BY <3>2, <1>4, <1>5 DEF FirstAt
    <3>5. Seen(s, m) = s[j].ver
      BY <3>4, <1>5, FirstIsSeen
    <3>6. s[j].ver = IF m \in Ids(held) THEN Seen(held, m) ELSE old[j].ver
      BY <3>2, <1>4
    <3> QED BY <2>1, <2>2, <3>3, <3>5, <3>6, <1>7
  <2>3. CASE m \notin Ids(old)
    <3>1. Seen(t, m) = Seen(held, m)
      BY <2>3, <1>1, WithoutFacts DEF t
    <3>2. m \notin Ids(held) => Seen(held, m) = -1
      BY <1>1, SeenFacts
    <3>3. Seen(old, m) = -1
      BY <2>3, <1>1, SeenFacts
    <3> QED BY <2>1, <2>3, <3>1, <3>2, <3>3, <1>7
  <2> QED BY <2>2, <2>3
<1>10. ASSUME NEW m \in Ids(held) \ Ids(old), NEW i \in 1..Len(p),
              IndexOf(p, m) <= i
       PROVE  \E q \in 1..Len(held) : IndexOf(held, m) <= q /\ p[i] = held[q]
  <2>1. m \in Messages /\ m \in Ids(t) /\ m \notin Ids(s)
    BY <1>1, <1>6, <1>7, ShownFacts
  <2>2. IndexOf(p, m) = Len(s) + IndexOf(t, m)
    BY <2>1, <1>2, <1>5, <1>6, SeenConcat
  <2>3. IndexOf(t, m) \in 1..Len(t)
    BY <2>1, <1>6, SeenFacts
  <2>4. /\ Len(p) = Len(s) + Len(t)
        /\ \A j \in 1..Len(t) : p[Len(s) + j] = t[j]
        /\ Len(s) \in Nat /\ Len(t) \in Nat
    <3>1. /\ Len(s \o t) = Len(s) + Len(t)
          /\ \A j \in 1..Len(t) : (s \o t)[Len(s) + j] = t[j]
      BY <1>5, <1>6, ConcatFacts
    <3>2. Len(s) \in Nat /\ Len(t) \in Nat
      BY <1>5, <1>6, ShownFacts
    <3> QED BY <3>1, <3>2, <1>2
  <2> DEFINE j == i - Len(s)
  <2>5. j \in 1..Len(t) /\ i = Len(s) + j /\ IndexOf(t, m) <= j
    BY <2>2, <2>3, <2>4, <1>10
  <2>6. p[i] = t[j]
    BY <2>4, <2>5
  <2> HIDE DEF j
  <2>7. PICK q \in 1..Len(held) :
           /\ t[j] = held[q]
           /\ \A x \in Ids(t) : IndexOf(t, x) <= j => IndexOf(held, x) <= q
    BY <2>5, <1>1, WithoutFacts DEF t
  <2> QED BY <2>1, <2>5, <2>6, <2>7
<1> QED BY <1>2, <1>8, <1>9, <1>10 DEF p, held, old

-----------------------------------------------------------------------------
(* The log and its table *)

\* How message m stands at version n: the version of its row, or -1 without one.
Stands(n, m) == IF RowsAt(n)[m].seq = 0 THEN -1 ELSE RowsAt(n)[m].ver

\* A row names the event that made it and one that has been committed.
RowOK(n, m) ==
    LET r == RowsAt(n)[m] IN
    \/ r = NoRow
    \/ /\ r.seq \in 1..n
       /\ r.ver \in 1..n
       /\ log[r.seq].event = [kind |-> "message", id |-> m]

\* A message comes back under another sequence only after it was away.
ComesBack(m) ==
    \A n \in 0..Len(log) : \A k \in n..Len(log) :
       RowsAt(n)[m].seq > 0 /\ RowsAt(k)[m].seq # RowsAt(n)[m].seq
       => \E i \in n..k : RowsAt(i)[m].seq = 0

\* The log with the tables its transactions left.
LogOK ==
    /\ log \in Seq(Transaction)
    /\ Len(log) <= MaxEvents
    /\ \A n \in 1..Len(log) :
          log[n].rows = Project(RowsAt(n - 1), log[n].event, n)
    /\ \A n \in 0..Len(log), m \in Messages : RowOK(n, m)
    /\ \A m \in Messages : ComesBack(m)

\* The table as of a version of the log.
LEMMA TablesAreTyped ==
    ASSUME log \in Seq(Transaction), NEW n \in 0..Len(log)
    PROVE  RowsAt(n) \in [Messages -> Row]
<1>1. CASE n = 0
  BY <1>1, StreamConstants DEF RowsAt, NoRows, NoRow, Row, Versions
<1>2. CASE n # 0
  <2>1. log[n] \in Transaction
    BY <1>2
  <2>2. log[n].rows \in [Messages -> Row]
    BY <2>1 DEF Transaction
  <2> QED BY <1>2, <2>2 DEF RowsAt
<1> QED BY <1>1, <1>2

\* A row of the messages table names the event that inserted it.
LEMMA RowFacts ==
    ASSUME LogOK, NEW n \in 0..Len(log), NEW m \in Messages
    PROVE  /\ RowsAt(n)[m].seq \in 0..n
           /\ RowsAt(n)[m].ver \in 0..n
           /\ RowsAt(n)[m].seq = 0 <=> RowsAt(n)[m].ver = 0
           /\ RowsAt(n)[m].seq = 0 <=> RowsAt(n)[m] = NoRow
           /\ RowsAt(n)[m].seq # 0 =>
                 log[RowsAt(n)[m].seq].event = [kind |-> "message", id |-> m]
           /\ RowsAt(n)[m].seq # 0 => InLog(m)
           /\ Len(log) \in Nat
<1>1. RowOK(n, m) /\ Len(log) \in Nat /\ n \in Nat
  BY DEF LogOK
<1>2. RowsAt(n)[m].seq \in 1..n => RowsAt(n)[m].seq \in 1..Len(log)
  BY <1>1
<1> QED BY <1>1, <1>2 DEF RowOK, NoRow, InLog

\* The sequences below a place: all of them, in order.
LEMMA BelowFacts ==
    ASSUME LogOK, NEW before \in 1..(MaxEvents + 1)
    PROVE  /\ Below(Rows, before) \in Seq(Nat)
           /\ \A j \in 1..Len(Below(Rows, before)) :
                 /\ Below(Rows, before)[j] \in 1..(before - 1)
                 /\ \E m \in Messages : Rows[m].seq = Below(Rows, before)[j]
           /\ \A i, j \in 1..Len(Below(Rows, before)) :
                 i < j => Below(Rows, before)[i] < Below(Rows, before)[j]
           /\ \A m \in Messages :
                 Rows[m].seq \in 1..(before - 1)
                 => \E j \in 1..Len(Below(Rows, before)) :
                       Below(Rows, before)[j] = Rows[m].seq
<1> DEFINE s == [i \in 1..Len(log) |-> i]
           P == {Rows[m].seq : m \in Messages} \cap 1..(before - 1)
           b == Below(Rows, before)
<1>1. Len(log) \in Nat /\ before \in Nat
  BY StreamConstants DEF LogOK
<1>2. s \in Seq(Nat) /\ Len(s) = Len(log) /\ \A i \in 1..Len(log) : s[i] = i
  BY <1>1
<1>3. P \in SUBSET (1..Len(s))
  <2>1. Len(log) \in 0..Len(log)
    BY <1>1
  <2>2. \A m \in Messages : Rows[m].seq \in 0..Len(log)
    BY <2>1, RowFacts DEF Rows
  <2> QED BY <2>2, <1>1, <1>2
<1>4. b = Selected(s, P)
  BY DEF Below
<1> HIDE DEF s, P, b
<1>5. b \in Seq(Nat) /\ \E k : Picks(k, b, s, P)
  BY <1>2, <1>3, <1>4, SelectedFacts, Zenon
<1>6. PICK k : Picks(k, b, s, P)
  BY <1>5
<1>7. /\ k \in [1..Len(b) -> P]
      /\ \A j \in 1..Len(b) : b[j] = s[k[j]]
      /\ \A i, j \in 1..Len(b) : i < j => k[i] < k[j]
      /\ \A p \in P : \E j \in 1..Len(b) : k[j] = p
  BY <1>6 DEF Picks
<1>8. \A j \in 1..Len(b) : b[j] = k[j] /\ k[j] \in P
  BY <1>2, <1>3, <1>7
<1>9. \A p \in P : p \in 1..(before - 1) /\ \E m \in Messages : Rows[m].seq = p
  BY DEF P
<1>10. \A m \in Messages : Rows[m].seq \in 1..(before - 1) => Rows[m].seq \in P
  BY DEF P
<1> QED BY <1>5, <1>7, <1>8, <1>9, <1>10 DEF b

\* What a page says of a table: all messages of the rows between its end and
\* the place it was asked for, as the table has them.
PageFacts(page, before, rows) ==
    /\ page.msgs \in Seq(Shown)
    /\ page.older \in 0..(before - 1)
    /\ \A m \in Messages :
          m \in Ids(page.msgs) <=> /\ rows[m].seq \in 1..(before - 1)
                                   /\ page.older <= rows[m].seq
    /\ \A i \in 1..Len(page.msgs) :
          page.msgs[i].ver = rows[page.msgs[i].id].ver

\* The rows of a page are in order.
PageInOrder(page, rows) ==
    \A i, j \in 1..Len(page.msgs) :
       i < j => rows[page.msgs[i].id].seq < rows[page.msgs[j].id].seq

\* A page of history is what the table holds below its upper end and not below
\* its own lower end, in the order of the table.
LEMMA MessagePageFacts ==
    ASSUME LogOK, NEW before \in 1..(MaxEvents + 1)
    PROVE  /\ PageFacts(MessagePage(before), before, Rows)
           /\ PageInOrder(MessagePage(before), Rows)
<1> DEFINE b == Below(Rows, before)
           n == Len(b)
           f == IF n > PageSize THEN n - PageSize + 1 ELSE 1
           items == SubSeq(b, f, n)
           page == MessagePage(before)
<1>1. /\ b \in Seq(Nat)
      /\ \A j \in 1..n : /\ b[j] \in 1..(before - 1)
                         /\ \E m \in Messages : Rows[m].seq = b[j]
      /\ \A i, j \in 1..n : i < j => b[i] < b[j]
      /\ \A m \in Messages :
            Rows[m].seq \in 1..(before - 1) => \E j \in 1..n : b[j] = Rows[m].seq
  BY BelowFacts
<1>2. /\ page.msgs = [i \in DOMAIN items |-> Holds(Rows, items[i])]
      /\ page.older = IF n > PageSize THEN items[1] ELSE 0
  BY DEF MessagePage, PageOf, Page
<1> HIDE DEF b, page
<1>3. n \in Nat /\ PageSize \in Nat /\ PageSize > 0 /\ before \in Nat
      /\ Len(log) \in Nat
  BY <1>1, StreamConstants DEF LogOK
<1> HIDE DEF n
<1>4. f \in Nat /\ f >= 1 /\ f <= n + 1 /\ (n > PageSize => f <= n)
      /\ (n <= PageSize => f = 1)
  BY <1>3
<1> HIDE DEF f
<1>5. /\ items \in Seq(Nat) /\ Len(items) = n - f + 1
      /\ \A i \in 1..Len(items) : items[i] = b[f + i - 1]
      /\ DOMAIN items = 1..Len(items)
  <2>1. SubSeq(b, f, n) = [i \in 1..(n - f + 1) |-> b[f + i - 1]]
    BY <1>1, <1>3, <1>4 DEF n
  <2>2. \A i \in 1..(n - f + 1) : f + i - 1 \in 1..n
    BY <1>3, <1>4
  <2>3. \A i \in 1..(n - f + 1) : b[f + i - 1] \in Nat
    BY <2>2, <1>1
  <2> QED BY <2>1, <2>2, <2>3, <1>3, <1>4
<1> HIDE DEF items
<1> DEFINE L == Len(items)
<1>6. L \in Nat /\ \A i \in 1..L : f + i - 1 \in 1..n
  BY <1>3, <1>4, <1>5
<1> HIDE DEF L
<1>7. ASSUME NEW i \in 1..L
      PROVE  \E m \in Messages :
                /\ page.msgs[i] = [id |-> m, ver |-> Rows[m].ver]
                /\ Rows[m].seq = items[i]
                /\ items[i] \in 1..(before - 1)
  <2>1. items[i] = b[f + i - 1] /\ f + i - 1 \in 1..n
    BY <1>5, <1>6 DEF L
  <2>2. PICK m \in Messages : Rows[m].seq = items[i]
    BY <2>1, <1>1
  <2>3. items[i] \in 1..(before - 1)
    BY <2>1, <1>1
  <2>4. log[items[i]].event = [kind |-> "message", id |-> m]
    <3>1. Len(log) \in 0..Len(log)
      BY <1>3
    <3> QED BY <3>1, <2>2, <2>3, RowFacts DEF Rows
  <2>5. page.msgs[i] = Holds(Rows, items[i])
    BY <1>2, <1>5 DEF L
  <2>6. Holds(Rows, items[i]) = [id |-> m, ver |-> Rows[m].ver]
    BY <2>4 DEF Holds
  <2> QED BY <2>2, <2>3, <2>5, <2>6
<1>8. page.msgs \in Seq(Shown) /\ Len(page.msgs) = L
  <2>1. Rows \in [Messages -> Row]
    BY <1>3, TablesAreTyped DEF LogOK, Rows
  <2>2. \A m \in Messages : [id |-> m, ver |-> Rows[m].ver] \in Shown
    BY <2>1 DEF Shown, Row
  <2>3. \A i \in 1..L : page.msgs[i] \in Shown
    BY <1>7, <2>2
  <2>4. page.msgs = [i \in 1..L |-> page.msgs[i]]
    BY <1>2, <1>5 DEF L
  <2> QED BY <2>3, <2>4, <1>6
<1>9. \A i \in 1..L : /\ Rows[page.msgs[i].id].seq = items[i]
                      /\ page.msgs[i].ver = Rows[page.msgs[i].id].ver
                      /\ page.msgs[i].id \in Messages
                      /\ items[i] \in 1..(before - 1)
  <2> SUFFICES ASSUME NEW i \in 1..L
               PROVE  /\ Rows[page.msgs[i].id].seq = items[i]
                      /\ page.msgs[i].ver = Rows[page.msgs[i].id].ver
                      /\ page.msgs[i].id \in Messages
                      /\ items[i] \in 1..(before - 1)
    OBVIOUS
  <2>1. PICK m \in Messages :
                /\ page.msgs[i] = [id |-> m, ver |-> Rows[m].ver]
                /\ Rows[m].seq = items[i]
                /\ items[i] \in 1..(before - 1)
    BY <1>7
  <2>2. page.msgs[i].id = m /\ page.msgs[i].ver = Rows[m].ver
    BY <2>1
  <2> QED BY <2>1, <2>2
<1>10. \A i, j \in 1..L : i < j => items[i] < items[j]
  <2> SUFFICES ASSUME NEW i \in 1..L, NEW j \in 1..L, i < j
               PROVE  items[i] < items[j]
    OBVIOUS
  <2>1. items[i] = b[f + i - 1] /\ items[j] = b[f + j - 1]
    BY <1>5 DEF L
  <2>2. f + i - 1 \in 1..n /\ f + j - 1 \in 1..n /\ f + i - 1 < f + j - 1
    BY <1>4, <1>6
  <2> QED BY <2>1, <2>2, <1>1
<1>11. n > PageSize => L >= 1
  BY <1>3, <1>4, <1>5 DEF L
<1>12. page.older \in 0..(before - 1)
  <2>1. n > PageSize => items[1] \in 1..(before - 1)
    BY <1>6, <1>9, <1>11
  <2> QED BY <2>1, <1>2, <1>3
<1>13. ASSUME NEW m \in Ids(page.msgs)
       PROVE  Rows[m].seq \in 1..(before - 1) /\ page.older <= Rows[m].seq
  <2>1. PICK i \in 1..L : page.msgs[i].id = m
    BY <1>8, ShownFacts DEF Ids
  <2>2. Rows[m].seq = items[i] /\ items[i] \in 1..(before - 1)
    BY <2>1, <1>9
  <2>3. n > PageSize => items[1] <= items[i]
    <3>1. 1 \in 1..L /\ (i = 1 \/ 1 < i)
      BY <1>6
    <3>2. items[1] \in Nat /\ items[i] \in Nat
      BY <3>1, <1>9
    <3> QED BY <3>1, <3>2, <1>10
  <2> QED BY <2>2, <2>3, <1>2, <1>3
<1>14. ASSUME NEW m \in Messages, Rows[m].seq \in 1..(before - 1),
              page.older <= Rows[m].seq
       PROVE  m \in Ids(page.msgs)
  <2>1. PICK j \in 1..n : b[j] = Rows[m].seq
    BY <1>1, <1>14
  <2>2. j >= f
    <3> SUFFICES ASSUME j < f PROVE FALSE
      BY <1>3, <1>4
    <3>1. n > PageSize /\ f <= n /\ f \in 1..n
      BY <1>3, <1>4
    <3>2. 1 \in 1..L /\ f + 1 - 1 = f
      BY <3>1, <1>4, <1>6, <1>11
    <3>3. items[1] = b[f]
      BY <3>2, <1>5 DEF L
    <3>4. b[j] < b[f] /\ b[j] \in Nat /\ b[f] \in Nat
      BY <3>1, <1>1
    <3> QED BY <3>1, <3>3, <3>4, <2>1, <1>2, <1>14
  <2> DEFINE i == j - f + 1
  <2>3. i \in 1..L /\ f + i - 1 = j
    BY <2>2, <1>3, <1>4, <1>5 DEF L
  <2> HIDE DEF i
  <2>4. items[i] = Rows[m].seq
    BY <2>1, <2>3, <1>5 DEF L
  <2>5. PICK x \in Messages : /\ page.msgs[i] = [id |-> x, ver |-> Rows[x].ver]
                              /\ Rows[x].seq = items[i]
    BY <2>3, <1>7
  <2>6. x = m
    <3>1. Len(log) \in 0..Len(log)
      BY <1>3
    <3>2. Rows[x].seq = Rows[m].seq /\ Rows[m].seq # 0
      BY <2>4, <2>5, <1>14
    <3>3. /\ log[Rows[m].seq].event = [kind |-> "message", id |-> m]
          /\ log[Rows[x].seq].event = [kind |-> "message", id |-> x]
      BY <3>1, <3>2, RowFacts DEF Rows
    <3> QED BY <3>2, <3>3
  <2> QED BY <2>3, <2>5, <2>6, <1>8, ShownFacts
<1>15. PageFacts(page, before, Rows)
  BY <1>8, <1>9, <1>12, <1>13, <1>14 DEF PageFacts
<1>16. PageInOrder(page, Rows)
  BY <1>8, <1>9, <1>10 DEF PageInOrder
<1> QED BY <1>15, <1>16 DEF page

-----------------------------------------------------------------------------
(* What is faithful to the log *)

\* What is seen of m is allowed under version v; see Faithful.
Fits(s, m, older, v) ==
    \/ \E n \in v..Len(log) : s = Stands(n, m)
    \/ s = 0 /\ m \in Users
    \/ s = -1 /\ RowsAt(v)[m].seq < older

\* A list is faithful when every message fits the log, as it is seen.
LEMMA FaithfulFits ==
    ASSUME LogOK, NEW msgs \in Seq(Shown), NEW older, NEW v \in 0..Len(log)
    PROVE  Faithful(msgs, older, v)
           <=> \A m \in Messages : Fits(Seen(msgs, m), m, older, v)
<1> SUFFICES ASSUME NEW m \in Messages
             PROVE  (\/ \E n \in v..Len(log) : ShownAsOf(msgs, m, n)
                     \/ OwnDraft(msgs, m)
                     \/ m \notin Ids(msgs) /\ RowsAt(v)[m].seq < older)
                    <=> Fits(Seen(msgs, m), m, older, v)
  BY DEF Faithful
<1>0. Len(log) \in Nat /\ v \in Nat /\ \A n \in v..Len(log) : n \in 0..Len(log)
  BY DEF LogOK
<1>1. /\ m \in Ids(msgs) => Seen(msgs, m) # -1 /\ Seen(msgs, m) \in Nat
      /\ m \notin Ids(msgs) => Seen(msgs, m) = -1
      /\ m \in Ids(msgs) => Seen(msgs, m) = ShownVer(msgs, m)
      /\ m \notin Ids(msgs) => ShownVer(msgs, m) = 0
  BY SeenFacts, StreamConstants DEF ShownVer, Versions
<1>2. ASSUME NEW n \in v..Len(log)
      PROVE  ShownAsOf(msgs, m, n) <=> Seen(msgs, m) = Stands(n, m)
  <2>0. n \in 0..Len(log)
    BY <1>0
  <2>1. /\ RowsAt(n)[m].seq \in 0..n /\ RowsAt(n)[m].ver \in 0..n
        /\ RowsAt(n)[m].seq = 0 <=> RowsAt(n)[m].ver = 0
    BY <2>0, RowFacts
  <2>2. ShownAsOf(msgs, m, n) <=> /\ (m \in Ids(msgs)) = (RowsAt(n)[m].seq > 0)
                                  /\ ShownVer(msgs, m) = RowsAt(n)[m].ver
    BY DEF ShownAsOf
  <2> QED BY <2>1, <2>2, <1>1 DEF Stands
<1>3. OwnDraft(msgs, m) <=> Seen(msgs, m) = 0 /\ m \in Users
  BY <1>1 DEF OwnDraft
<1>4. m \notin Ids(msgs) <=> Seen(msgs, m) = -1
  BY <1>1
<1> QED BY <1>2, <1>3, <1>4 DEF Fits

\* How a message stands at a version: -1 while it has no row.
LEMMA StandsFacts ==
    ASSUME LogOK, NEW m \in Messages, NEW n \in 0..Len(log)
    PROVE  /\ RowsAt(n)[m].seq = 0 <=> Stands(n, m) = -1
           /\ RowsAt(n)[m].seq # 0 => Stands(n, m) = RowsAt(n)[m].ver
           /\ ~InLog(m) => Stands(n, m) = -1
<1>1. /\ RowsAt(n)[m].seq \in 0..n /\ RowsAt(n)[m].ver \in 0..n
      /\ RowsAt(n)[m].seq = 0 <=> RowsAt(n)[m].ver = 0
      /\ RowsAt(n)[m].seq # 0 => InLog(m)
  BY RowFacts
<1>2. \A x \in 0..n : x # -1
  BY DEF LogOK
<1> QED BY <1>1, <1>2 DEF Stands

\* The newest page, whatever its budget leaves out, is faithful at the head.
LEMMA HeadIsFaithful ==
    ASSUME LogOK, NEW cut \in Nat, cut <= Len(MessagePage(MaxEvents + 1).msgs)
    PROVE  /\ NewestPage(cut).msgs \in Seq(Shown)
           /\ NewestPage(cut).older \in 0..(MaxEvents + 1)
           /\ Faithful(NewestPage(cut).msgs, NewestPage(cut).older, Len(log))
<1> DEFINE page == MessagePage(MaxEvents + 1)
           old == page.msgs
           n == Len(old)
           kept == SubSeq(old, cut + 1, n)
           older == NewestPage(cut).older
           top == MaxEvents + 1
<1>0. Len(log) \in Nat /\ Len(log) <= MaxEvents /\ MaxEvents \in Nat
      /\ top \in 1..(MaxEvents + 1) /\ Len(log) \in 0..Len(log)
  BY StreamConstants DEF LogOK
<1>1. PageFacts(page, top, Rows) /\ PageInOrder(page, Rows)
  BY <1>0, MessagePageFacts
<1>2. /\ NewestPage(cut).msgs = kept
      /\ older = IF cut = 0 THEN page.older
                 ELSE IF kept = <<>> THEN Rows[Last(old).id].seq + 1
                 ELSE Rows[kept[1].id].seq
  BY DEF NewestPage, Bounded
<1> HIDE DEF page, older
<1>3. old \in Seq(Shown) /\ n \in Nat /\ page.older \in 0..MaxEvents
  BY <1>0, <1>1 DEF PageFacts
<1> HIDE DEF old
<1>4. /\ kept \in Seq(Shown)
      /\ Len(kept) = n - cut
      /\ \A i \in 1..Len(kept) : kept[i] = old[cut + i] /\ cut + i \in 1..n
  <2>1. cut <= n
    BY DEF n, old, page
  <2>2. kept = [i \in 1..(n - cut) |-> old[cut + i]]
    <3>1. kept = [i \in 1..(n - (cut + 1) + 1) |-> old[(cut + 1) + i - 1]]
      BY <1>3, <2>1
    <3>2. n - (cut + 1) + 1 = n - cut /\ \A i \in Nat : (cut + 1) + i - 1 = cut + i
      BY <1>3
    <3>3. \A i \in 1..(n - cut) : i \in Nat
      BY <1>3
    <3> QED BY <3>1, <3>2, <3>3
  <2>3. \A i \in 1..(n - cut) : cut + i \in 1..n
    BY <1>3, <2>1
  <2>4. \A i \in 1..(n - cut) : old[cut + i] \in Shown
    BY <1>3, <2>3
  <2>5. n - cut \in Nat
    BY <1>3, <2>1
  <2> QED BY <2>2, <2>3, <2>4, <2>5
<1>5. cut <= n
  BY DEF n, old, page
<1>6. \A i \in 1..n : /\ old[i].id \in Messages
                      /\ old[i].id \in Ids(old)
                      /\ old[i].ver = Rows[old[i].id].ver
                      /\ Rows[old[i].id].seq \in 1..MaxEvents
                      /\ page.older <= Rows[old[i].id].seq
  <2> SUFFICES ASSUME NEW i \in 1..n
               PROVE  /\ old[i].id \in Messages
                      /\ old[i].id \in Ids(old)
                      /\ old[i].ver = Rows[old[i].id].ver
                      /\ Rows[old[i].id].seq \in 1..MaxEvents
                      /\ page.older <= Rows[old[i].id].seq
    OBVIOUS
  <2>1. old[i].id \in Messages /\ old[i].id \in Ids(old)
    BY <1>3, ShownFacts
  <2>2. (MaxEvents + 1) - 1 = MaxEvents
    BY <1>0
  <2> QED BY <2>1, <2>2, <1>1 DEF PageFacts, old
<1>7. \A i, j \in 1..n : i < j => Rows[old[i].id].seq < Rows[old[j].id].seq
  BY <1>1 DEF PageInOrder, old
<1> HIDE DEF kept
<1>8. kept # <<>> => Len(kept) >= 1
  BY <1>4, EmptySeq
<1>9. kept = <<>> => Len(kept) = 0
  BY EmptySeq
<1>10. CASE cut = 0
  <2>1. older = page.older
    BY <1>2, <1>10
  <2>2. \A i \in 1..n : i \in 1..Len(kept) /\ kept[i] = old[i]
    BY <1>3, <1>4, <1>10
  <2>3. kept = old
    BY <1>3, <1>4, <1>10, <2>2
  <2>4. ASSUME NEW m \in Messages PROVE Fits(Seen(old, m), m, older, Len(log))
    <3>1. CASE m \in Ids(old)
      <4>1. IndexOf(old, m) \in 1..n /\ old[IndexOf(old, m)].id = m
            /\ Seen(old, m) = old[IndexOf(old, m)].ver
        BY <3>1, <1>3, SeenFacts
      <4>2. Seen(old, m) = Rows[m].ver /\ Rows[m].seq # 0
        BY <4>1, <1>6
      <4>3. Seen(old, m) = Stands(Len(log), m)
        BY <4>2 DEF Stands, Rows
      <4> QED BY <4>3, <1>0 DEF Fits
    <3>2. CASE m \notin Ids(old)
      <4>1. Seen(old, m) = -1
        BY <3>2, <1>3, SeenFacts
      <4>2. CASE Rows[m].seq = 0
        BY <4>1, <4>2, <1>0 DEF Fits, Stands, Rows
      <4>3. CASE Rows[m].seq # 0
        <5>1. Rows[m].seq \in 1..Len(log)
          <6>1. Rows[m].seq \in 0..Len(log)
            BY <1>0, RowFacts DEF Rows
          <6> QED BY <6>1, <4>3, <1>0
        <5>2. Rows[m].seq \in 1..(top - 1)
          BY <5>1, <1>0
        <5>3. ~(page.older <= Rows[m].seq)
          BY <3>2, <5>2, <1>1 DEF PageFacts, old
        <5>4. Rows[m].seq < older
          BY <5>1, <5>3, <2>1, <1>0, <1>3
        <5> QED BY <4>1, <5>4 DEF Fits, Rows
      <4> QED BY <4>2, <4>3
    <3> QED BY <3>1, <3>2
  <2>5. Faithful(old, older, Len(log))
    BY <2>4, <1>0, <1>3, FaithfulFits
  <2>6. older \in 0..(MaxEvents + 1)
    BY <2>1, <1>0, <1>3
  <2> QED BY <2>3, <2>5, <2>6, <1>2, <1>4 DEF older
<1>11. CASE cut # 0
  <2>1. cut \in 1..n
    BY <1>3, <1>5, <1>11
  <2>2. /\ older \in 1..(MaxEvents + 1)
        /\ Rows[old[cut].id].seq < older
    <3>1. CASE kept = <<>>
      <4>1. cut = n
        BY <3>1, <1>3, <1>4, <1>5, <1>9
      <4>2. Last(old) = old[n]
        BY DEF Last
      <4>3. older = Rows[old[cut].id].seq + 1
        BY <3>1, <4>1, <4>2, <1>2, <1>11
      <4>4. Rows[old[cut].id].seq \in 1..MaxEvents
        BY <2>1, <1>6
      <4> QED BY <4>3, <4>4, <1>0
    <3>2. CASE kept # <<>>
      <4>1. 1 \in 1..Len(kept)
        BY <3>2, <1>3, <1>4, <1>8
      <4>2. cut + 1 \in 1..n /\ kept[1] = old[cut + 1]
        BY <4>1, <1>4
      <4>3. older = Rows[old[cut + 1].id].seq
        BY <3>2, <4>2, <1>2, <1>11
      <4>4. Rows[old[cut].id].seq < Rows[old[cut + 1].id].seq
        BY <2>1, <4>2, <1>7
      <4>5. Rows[old[cut + 1].id].seq \in 1..MaxEvents
        BY <4>2, <1>6
      <4> QED BY <4>3, <4>4, <4>5, <1>0
    <3> QED BY <3>1, <3>2
  <2>3. \A i \in 1..n : i <= cut => Rows[old[i].id].seq < older
    <3> SUFFICES ASSUME NEW i \in 1..n, i <= cut
                 PROVE  Rows[old[i].id].seq < older
      OBVIOUS
    <3>1. i = cut \/ Rows[old[i].id].seq < Rows[old[cut].id].seq
      BY <2>1, <1>7
    <3>2. Rows[old[i].id].seq \in Nat /\ Rows[old[cut].id].seq \in Nat
      BY <2>1, <1>6
    <3> QED BY <3>1, <3>2, <2>2, <1>0
  <2>4. page.older < older
    <3>1. page.older <= Rows[old[cut].id].seq /\ Rows[old[cut].id].seq \in Nat
      BY <2>1, <1>6
    <3> QED BY <3>1, <2>2, <1>3, <1>0
  <2>5. ASSUME NEW m \in Messages PROVE Fits(Seen(kept, m), m, older, Len(log))
    <3>1. CASE m \in Ids(kept)
      <4> DEFINE i == IndexOf(kept, m)
      <4>1. i \in 1..Len(kept) /\ kept[i].id = m /\ Seen(kept, m) = kept[i].ver
        BY <3>1, <1>4, SeenFacts
      <4> HIDE DEF i
      <4>2. kept[i] = old[cut + i] /\ cut + i \in 1..n
        BY <4>1, <1>4
      <4>3. Seen(kept, m) = Rows[m].ver /\ Rows[m].seq # 0
        BY <4>1, <4>2, <1>6
      <4>4. Seen(kept, m) = Stands(Len(log), m)
        BY <4>3 DEF Stands, Rows
      <4> QED BY <4>4, <1>0 DEF Fits
    <3>2. CASE m \notin Ids(kept)
      <4>1. Seen(kept, m) = -1
        BY <3>2, <1>4, SeenFacts
      <4>2. CASE Rows[m].seq = 0
        BY <4>1, <4>2, <1>0 DEF Fits, Stands, Rows
      <4>3. CASE Rows[m].seq # 0
        <5>1. Rows[m].seq \in 1..Len(log)
          <6>1. Rows[m].seq \in 0..Len(log)
            BY <1>0, RowFacts DEF Rows
          <6> QED BY <6>1, <4>3, <1>0
        <5>2. Rows[m].seq \in 1..(top - 1)
          BY <5>1, <1>0
        <5>3. Rows[m].seq < older
          <6>1. CASE m \in Ids(old)
            <7> DEFINE j == IndexOf(old, m)
            <7>1. j \in 1..n /\ old[j].id = m
              BY <6>1, <1>3, SeenFacts
            <7> HIDE DEF j
            <7>2. j <= cut
              <8> SUFFICES ASSUME j > cut PROVE FALSE
                BY <7>1, <1>3
              <8>1. j - cut \in 1..Len(kept) /\ cut + (j - cut) = j
                BY <7>1, <1>3, <1>4
              <8>2. kept[j - cut] = old[j]
                BY <8>1, <1>4
              <8>3. kept[j - cut].id \in Ids(kept)
                BY <8>1, <1>4, ShownFacts
              <8> QED BY <8>2, <8>3, <7>1, <3>2
            <7> QED BY <7>1, <7>2, <2>3
          <6>2. CASE m \notin Ids(old)
            <7>1. ~(page.older <= Rows[m].seq)
              BY <6>2, <5>2, <1>1 DEF PageFacts, old
            <7> QED BY <7>1, <5>1, <2>2, <2>4, <1>0, <1>3
          <6> QED BY <6>1, <6>2
        <5> QED BY <4>1, <5>3 DEF Fits, Rows
      <4> QED BY <4>2, <4>3
    <3> QED BY <3>1, <3>2
  <2>6. Faithful(kept, older, Len(log))
    BY <2>5, <1>0, <1>4, FaithfulFits
  <2>7. older \in 0..(MaxEvents + 1)
    BY <2>2
  <2> QED BY <2>6, <2>7, <1>2, <1>4 DEF older
<1> QED BY <1>10, <1>11

\* Drafts alone are faithful to an empty timeline, however the log is.
LEMMA DraftsAreFaithful ==
    ASSUME LogOK, NEW msgs \in Seq(Shown), Drafts(msgs), NEW older
    PROVE  Faithful(msgs, older, 0)
<1>0. Len(log) \in Nat /\ 0 \in 0..Len(log)
  BY DEF LogOK
<1>1. ASSUME NEW m \in Messages PROVE Fits(Seen(msgs, m), m, older, 0)
  <2>1. CASE m \in Ids(msgs)
    <3>1. Seen(msgs, m) = 0 /\ m \in Users
      BY <2>1, SeenFacts DEF Drafts, Draft
    <3> QED BY <3>1 DEF Fits
  <2>2. CASE m \notin Ids(msgs)
    <3>1. Seen(msgs, m) = -1
      BY <2>2, SeenFacts
    <3>2. Stands(0, m) = -1
      BY DEF Stands, RowsAt, NoRows, NoRow
    <3> QED BY <3>1, <3>2, <1>0 DEF Fits
  <2> QED BY <2>1, <2>2
<1> QED BY <1>0, <1>1, FaithfulFits

\* A page put before a faithful list that begins where the page ends leaves it
\* faithful, with history from where the page begins.
LEMMA PrependIsFaithful ==
    ASSUME LogOK, NEW proj \in Projection, NEW page, NEW before \in Nat,
           NEW v \in 0..Len(log), NEW n \in v..Len(log),
           PageFacts(page, before, RowsAt(n)),
           Faithful(proj.msgs, before, v)
    PROVE  Faithful(Prepend(proj, page).msgs, page.older, v)
<1> DEFINE p == Prepend(proj, page).msgs
<1>0. /\ Len(log) \in Nat /\ v \in Nat /\ n \in Nat /\ n \in 0..Len(log)
      /\ \A i \in v..n : i \in v..Len(log) /\ i \in 0..Len(log)
  BY DEF LogOK
<1>1. proj.msgs \in Seq(Shown) /\ page.msgs \in Seq(Shown)
      /\ page.older \in 0..(before - 1)
  BY DEF Projection, PageFacts
<1>2. p \in Seq(Shown)
      /\ \A m \in Messages :
            Seen(p, m) = IF m \in Ids(proj.msgs) THEN Seen(proj.msgs, m)
                         ELSE Seen(page.msgs, m)
  BY <1>1, PrependFacts
<1> HIDE DEF p
<1>3. ASSUME NEW m \in Messages PROVE Fits(Seen(p, m), m, page.older, v)
  <2>1. Fits(Seen(proj.msgs, m), m, before, v)
    BY <1>1, FaithfulFits
  <2>2. CASE m \in Ids(proj.msgs)
    <3>1. Seen(proj.msgs, m) # -1 /\ Seen(p, m) = Seen(proj.msgs, m)
      BY <2>2, <1>1, <1>2, SeenFacts
    <3> QED BY <2>1, <3>1 DEF Fits
  <2>3. CASE m \notin Ids(proj.msgs) /\ m \in Ids(page.msgs)
    <3>1. /\ IndexOf(page.msgs, m) \in 1..Len(page.msgs)
          /\ page.msgs[IndexOf(page.msgs, m)].id = m
          /\ Seen(page.msgs, m) = page.msgs[IndexOf(page.msgs, m)].ver
      BY <2>3, <1>1, SeenFacts
    <3>2. Seen(p, m) = RowsAt(n)[m].ver
      BY <2>3, <3>1, <1>2 DEF PageFacts
    <3>3. RowsAt(n)[m].seq # 0
      BY <2>3 DEF PageFacts
    <3> QED BY <3>2, <3>3, <1>0 DEF Fits, Stands
  <2>4. CASE m \notin Ids(proj.msgs) /\ m \notin Ids(page.msgs)
    <3>1. Seen(p, m) = -1 /\ Seen(proj.msgs, m) = -1
      BY <2>4, <1>1, <1>2, SeenFacts
    <3>2. CASE \E i \in v..Len(log) : Stands(i, m) = -1
      BY <3>1, <3>2 DEF Fits
    <3>3. CASE \A i \in v..Len(log) : Stands(i, m) # -1
      <4>1. RowsAt(v)[m].seq < before
        BY <2>1, <3>1, <3>3 DEF Fits
      <4>2. \A i \in v..Len(log) : RowsAt(i)[m].seq # 0
        BY <3>3 DEF Stands
      <4>3. RowsAt(v)[m].seq \in 0..v
        BY RowFacts
      <4>4. RowsAt(v)[m].seq \in 1..v
        BY <4>2, <4>3, <1>0
      <4>5. RowsAt(n)[m].seq = RowsAt(v)[m].seq
        <5>1. ComesBack(m)
          BY DEF LogOK
        <5>2. ~ \E i \in v..n : RowsAt(i)[m].seq = 0
          BY <4>2, <1>0
        <5> QED BY <4>4, <5>1, <5>2, <1>0 DEF ComesBack
      <4>6. RowsAt(n)[m].seq \in 1..(before - 1)
        BY <4>1, <4>4, <4>5, <1>0
      <4>7. ~(page.older <= RowsAt(n)[m].seq)
        BY <2>4, <4>6 DEF PageFacts
      <4>8. RowsAt(v)[m].seq < page.older
        BY <4>4, <4>5, <4>7, <1>0, <1>1
      <4> QED BY <3>1, <4>8 DEF Fits
    <3> QED BY <3>2, <3>3
  <2> QED BY <2>2, <2>3, <2>4
<1> QED BY <1>2, <1>3, FaithfulFits DEF p

\* An event of the log brings what is shown one version further.
LEMMA EventIsFaithful ==
    ASSUME LogOK, NEW proj \in Projection, NEW v \in 0..Len(log),
           v + 1 <= Len(log)
    PROVE  /\ Applied(proj, EventFrame(v + 1)) \in Projection
           /\ Applied(proj, EventFrame(v + 1)).older = proj.older
           /\ Faithful(proj.msgs, proj.older, v)
              => Faithful(Applied(proj, EventFrame(v + 1)).msgs, proj.older, v + 1)
<1> DEFINE w == v + 1
           f == EventFrame(w)
           e == log[w].event
           q == Applied(proj, f).msgs
           x == [id |-> e.id, ver |-> w]
<1>0. /\ Len(log) \in Nat /\ v \in Nat /\ w \in Nat /\ w \in 1..Len(log)
      /\ w \in 0..Len(log) /\ w - 1 = v /\ w \in Versions /\ w # 0
      /\ \A i \in v..Len(log) : i = v \/ i \in w..Len(log)
      /\ w \in w..Len(log)
  BY StreamConstants DEF LogOK, Versions
<1>1. proj.msgs \in Seq(Shown)
      /\ proj = [msgs |-> proj.msgs, older |-> proj.older]
  BY DEF Projection
<1>2. e \in Event
  <2>1. log[w] \in Transaction
    BY <1>0 DEF LogOK
  <2> QED BY <2>1 DEF Transaction
<1>3. f.event = e /\ f.cursor.version = w
      /\ f.rolled = IF e.kind # "rollback" THEN {}
                    ELSE {m \in Messages : RowsAt(v)[m].seq > e.after}
  BY <1>0 DEF EventFrame, At
<1>4. RowsAt(w) = Project(RowsAt(v), e, w)
  <2>1. RowsAt(w) = log[w].rows
    BY <1>0 DEF RowsAt
  <2>2. log[w].rows = Project(RowsAt(w - 1), e, w)
    BY <1>0 DEF LogOK
  <2> QED BY <2>1, <2>2, <1>0
<1>5. RowsAt(v) \in [Messages -> Row]
  BY TablesAreTyped DEF LogOK
<1> HIDE DEF f, e, w
\* What changes for m: its entry and its row, or neither.
<1>6. /\ q \in Seq(Shown)
      /\ Applied(proj, f) = [msgs |-> q, older |-> proj.older]
      /\ \A m \in Messages :
            \/ Seen(q, m) = Stands(w, m)
            \/ Seen(q, m) = Seen(proj.msgs, m) /\ RowsAt(w)[m] = RowsAt(v)[m]
  <2>1. CASE e.kind = "message"
    <3>1. e.id \in Messages
      BY <2>1, <1>2 DEF Event
    <3>2. x \in Shown /\ x.id = e.id /\ x.ver = w
      BY <3>1, <1>0 DEF Shown
    <3>3. q = Upsert(proj.msgs, x)
          /\ Applied(proj, f) = [msgs |-> q, older |-> proj.older]
      BY <2>1, <1>1, <1>3 DEF Applied
    <3> HIDE DEF x, q
    <3>4. /\ q \in Seq(Shown)
          /\ Seen(q, e.id) = w
          /\ \A m \in Messages \ {e.id} : Seen(q, m) = Seen(proj.msgs, m)
      BY <3>2, <3>3, <1>1, UpsertFacts
    <3>5. RowsAt(w) = [RowsAt(v) EXCEPT ![e.id] =
                         [seq |-> IF @.seq = 0 THEN w ELSE @.seq, ver |-> w]]
      BY <2>1, <1>4 DEF Project
    <3>6. \A m \in Messages \ {e.id} : RowsAt(w)[m] = RowsAt(v)[m]
      BY <3>5, <1>5
    <3>7. RowsAt(w)[e.id].ver = w /\ RowsAt(w)[e.id].seq # 0
      BY <3>1, <3>5, <1>0, <1>5
    <3>8. Stands(w, e.id) = w
      BY <3>7 DEF Stands
    <3> QED BY <3>3, <3>4, <3>6, <3>8
  <2>2. CASE e.kind = "rollback"
    <3> DEFINE gone == {m \in Messages : RowsAt(v)[m].seq > e.after}
    <3>1. q = Without(proj.msgs, gone)
          /\ Applied(proj, f) = [msgs |-> q, older |-> proj.older]
      BY <2>2, <1>1, <1>3 DEF Applied
    <3> HIDE DEF q
    <3>2. /\ q \in Seq(Shown)
          /\ Ids(q) = Ids(proj.msgs) \ gone
          /\ \A m \in Messages \ gone : Seen(q, m) = Seen(proj.msgs, m)
      BY <3>1, <1>1, WithoutFacts
    <3>3. RowsAt(w) = [m \in Messages |-> IF RowsAt(v)[m].seq > e.after THEN NoRow
                                          ELSE RowsAt(v)[m]]
      BY <2>2, <1>4 DEF Project
    <3>4. \A m \in Messages \ gone : RowsAt(w)[m] = RowsAt(v)[m]
      BY <3>3
    <3>5. ASSUME NEW m \in gone PROVE Seen(q, m) = Stands(w, m)
      <4>1. Seen(q, m) = -1
        BY <3>2 DEF Seen
      <4>2. RowsAt(w)[m].seq = 0
        BY <3>3 DEF NoRow
      <4> QED BY <4>1, <4>2 DEF Stands
    <3> HIDE DEF gone
    <3> QED BY <3>1, <3>2, <3>4, <3>5
  <2>3. CASE e.kind \notin {"message", "rollback"}
    <3>1. Applied(proj, f) = proj
      BY <2>3, <1>3 DEF Applied
    <3>2. RowsAt(w) = RowsAt(v)
      BY <2>3, <1>4 DEF Project
    <3> QED BY <3>1, <3>2, <1>1
  <2> QED BY <2>1, <2>2, <2>3
<1> HIDE DEF q
<1>7. Applied(proj, f) \in Projection /\ Applied(proj, f).older = proj.older
      /\ Applied(proj, f).msgs = q
  BY <1>6 DEF Projection
<1>8. ASSUME Faithful(proj.msgs, proj.older, v)
      PROVE  Faithful(q, proj.older, w)
  <2>1. ASSUME NEW m \in Messages PROVE Fits(Seen(q, m), m, proj.older, w)
    <3>1. CASE Seen(q, m) = Stands(w, m)
      BY <3>1, <1>0 DEF Fits
    <3>2. CASE Seen(q, m) = Seen(proj.msgs, m) /\ RowsAt(w)[m] = RowsAt(v)[m]
      <4>1. Fits(Seen(proj.msgs, m), m, proj.older, v)
        BY <1>1, <1>8, FaithfulFits
      <4>2. Stands(w, m) = Stands(v, m)
        BY <3>2 DEF Stands
      <4> QED BY <3>2, <4>1, <4>2, <1>0 DEF Fits
    <3> QED BY <3>1, <3>2, <1>6
  <2> QED BY <2>1, <1>0, <1>6, FaithfulFits
<1> QED BY <1>7, <1>8 DEF f, w

\* Drafts after the messages that are shown hide nothing of them.
LEMMA DraftsAfter ==
    ASSUME LogOK, NEW s \in Seq(Shown), NEW t \in Seq(Shown), Drafts(t),
           NEW older, NEW v \in 0..Len(log), Faithful(s, older, v)
    PROVE  Faithful(s \o t, older, v)
<1>1. s \o t \in Seq(Shown)
  BY ConcatFacts
<1>2. ASSUME NEW m \in Messages PROVE Fits(Seen(s \o t, m), m, older, v)
  <2>1. Seen(s \o t, m) = IF m \in Ids(s) THEN Seen(s, m) ELSE Seen(t, m)
    BY SeenConcat
  <2>2. Fits(Seen(s, m), m, older, v)
    BY FaithfulFits
  <2>3. CASE m \in Ids(s)
    BY <2>1, <2>2, <2>3
  <2>4. CASE m \notin Ids(s) /\ m \in Ids(t)
    <3>1. Seen(t, m) = 0 /\ m \in Users
      BY <2>4, SeenFacts DEF Drafts, Draft
    <3> QED BY <2>1, <2>4, <3>1 DEF Fits
  <2>5. CASE m \notin Ids(s) /\ m \notin Ids(t)
    <3>1. Seen(t, m) = Seen(s, m)
      BY <2>5, SeenFacts
    <3> QED BY <2>1, <2>2, <2>5, <3>1
  <2> QED BY <2>3, <2>4, <2>5
<1> QED BY <1>1, <1>2, FaithfulFits

\* Writing a draft keeps a list faithful.
LEMMA DraftIn ==
    ASSUME LogOK, NEW msgs \in Seq(Shown), NEW x \in Shown, Draft(x),
           NEW older, NEW v \in 0..Len(log), Faithful(msgs, older, v)
    PROVE  Faithful(Upsert(msgs, x), older, v)
<1>1. /\ Upsert(msgs, x) \in Seq(Shown)
      /\ Seen(Upsert(msgs, x), x.id) = x.ver
      /\ \A m \in Messages \ {x.id} : Seen(Upsert(msgs, x), m) = Seen(msgs, m)
  BY UpsertFacts
<1>2. ASSUME NEW m \in Messages
      PROVE  Fits(Seen(Upsert(msgs, x), m), m, older, v)
  <2>1. Fits(Seen(msgs, m), m, older, v)
    BY FaithfulFits
  <2>2. CASE m = x.id
    BY <2>2, <1>1 DEF Draft, Fits
  <2>3. CASE m # x.id
    BY <2>1, <2>3, <1>1
  <2> QED BY <2>2, <2>3
<1> QED BY <1>1, <1>2, FaithfulFits

\* Taking out a message that was never committed keeps a list faithful.
LEMMA DraftOut ==
    ASSUME LogOK, NEW msgs \in Seq(Shown), NEW x \in Messages, ~InLog(x),
           NEW older, NEW v \in 0..Len(log), Faithful(msgs, older, v)
    PROVE  Faithful(Without(msgs, {x}), older, v)
<1> DEFINE w == Without(msgs, {x})
<1>0. Len(log) \in Nat /\ v \in v..Len(log)
  BY DEF LogOK
<1>1. /\ w \in Seq(Shown)
      /\ Ids(w) = Ids(msgs) \ {x}
      /\ \A m \in Messages \ {x} : Seen(w, m) = Seen(msgs, m)
  BY WithoutFacts
<1> HIDE DEF w
<1>2. ASSUME NEW m \in Messages PROVE Fits(Seen(w, m), m, older, v)
  <2>1. Fits(Seen(msgs, m), m, older, v)
    BY FaithfulFits
  <2>2. CASE m = x
    <3>1. Seen(w, m) = -1
      BY <2>2, <1>1, SeenFacts
    <3>2. Stands(v, m) = -1
      BY <2>2, StandsFacts
    <3> QED BY <3>1, <3>2, <1>0 DEF Fits
  <2>3. CASE m # x
    BY <2>1, <2>3, <1>1
  <2> QED BY <2>2, <2>3
<1> QED BY <1>1, <1>2, FaithfulFits DEF w

\* Drafts remain drafts when some are taken out.
LEMMA WithoutDrafts ==
    ASSUME NEW msgs \in Seq(Shown), NEW ids, Drafts(msgs)
    PROVE  Drafts(Without(msgs, ids))
<1>1. \A i \in 1..Len(Without(msgs, ids)) :
         \E q \in 1..Len(msgs) : Without(msgs, ids)[i] = msgs[q]
  BY WithoutFacts
<1> QED BY <1>1 DEF Drafts

\* A snapshot and the history that is kept before it.
LEMMA PreserveIsTyped ==
    ASSUME NEW d, d.proj \in Projection \cup {None}, NEW f,
           f.msgs \in Seq(Shown), f.older \in 0..(MaxEvents + 1)
    PROVE  Preserve(d, [msgs |-> f.msgs, older |-> f.older], f.cursor)
              \in Projection
<1> DEFINE next == [msgs |-> f.msgs, older |-> f.older]
           first == FirstKept(d, next, f.cursor)
           head == SubSeq(d.proj.msgs, 1, first - 1)
<1>1. next \in Projection
  BY DEF Projection
<1>2. CASE first <= 1
  BY <1>1, <1>2 DEF Preserve
<1>3. CASE ~(first <= 1)
  <2>1. /\ d.proj # None /\ next.msgs # <<>>
        /\ first = IndexOf(d.proj.msgs, f.msgs[1].id)
    BY <1>3 DEF FirstKept
  <2>2. d.proj \in Projection /\ d.proj.msgs \in Seq(Shown)
        /\ d.proj.older \in 0..(MaxEvents + 1)
    BY <2>1 DEF Projection
  <2>3. f.msgs[1].id \in Messages
    <3>1. 1 \in 1..Len(f.msgs)
      BY <2>1, EmptySeq
    <3> QED BY <3>1, ShownFacts
  <2>4. first \in 1..Len(d.proj.msgs)
    BY <2>1, <2>2, <2>3, <1>3, IndexFacts DEF FirstAt
  <2> HIDE DEF first
  <2>5. head \in Seq(Shown)
    <3>1. first - 1 \in 0..Len(d.proj.msgs)
      BY <2>4
    <3> QED BY <3>1, <2>2, PrefixFacts
  <2>6. Preserve(d, next, f.cursor) = [msgs |-> head \o f.msgs,
                                       older |-> d.proj.older]
    BY <1>3 DEF Preserve, first
  <2>7. head \o f.msgs \in Seq(Shown)
    BY <2>5, ConcatFacts
  <2>8. [msgs |-> head \o f.msgs, older |-> d.proj.older] \in Projection
    <3> HIDE DEF head
    <3> QED BY <2>2, <2>7 DEF Projection
  <2> QED BY <2>6, <2>8
<1> QED BY <1>2, <1>3

\* A snapshot is faithful with the history kept before it, unless it displaces a
\* committed message.
LEMMA SnapshotIsFaithful ==
    ASSUME LogOK,
           NEW d, d.proj \in Projection \cup {None},
           NEW f, f.kind = "snapshot", f.msgs \in Seq(Shown),
           f.older \in 0..(MaxEvents + 1),
           NEW v \in 0..Len(log), Faithful(f.msgs, f.older, v),
           d.proj # None /\ d.cursor = f.cursor
              => Faithful(d.proj.msgs, d.proj.older, v),
           ~Displaces(d, f)
    PROVE  LET next == Preserve(d, [msgs |-> f.msgs, older |-> f.older], f.cursor)
           IN  /\ Faithful(next.msgs, next.older, v)
               /\ Faithful(next.msgs, f.older, v)
<1> DEFINE new == [msgs |-> f.msgs, older |-> f.older]
           next == Preserve(d, new, f.cursor)
           first == FirstKept(d, new, f.cursor)
           held == d.proj.msgs
           head == SubSeq(held, 1, first - 1)
<1>1. CASE first <= 1
  <2>1. next = new
    BY <1>1 DEF Preserve
  <2> QED BY <2>1
<1>2. CASE ~(first <= 1)
  <2>1. /\ d.proj # None /\ f.msgs # <<>> /\ d.cursor = f.cursor
        /\ first = IndexOf(held, f.msgs[1].id)
    BY <1>2 DEF FirstKept
  <2>2. d.proj \in Projection /\ held \in Seq(Shown)
    BY <2>1 DEF Projection
  <2>3. f.msgs[1].id \in Messages
    <3>1. 1 \in 1..Len(f.msgs)
      BY <2>1, EmptySeq
    <3> QED BY <3>1, ShownFacts
  <2>4. first \in 1..Len(held) /\ Len(held) \in Nat
    BY <2>1, <2>2, <2>3, <1>2, IndexFacts DEF FirstAt
  <2>5. FirstKept(d, f, f.cursor) = first
    BY DEF FirstKept
  <2>6. \A i \in first..Len(held) :
           InLog(held[i].id) => held[i].id \in Ids(f.msgs)
    BY <2>4, <2>5, <1>2 DEF Displaces
  <2>7. next = [msgs |-> head \o f.msgs, older |-> d.proj.older]
    BY <1>2 DEF Preserve
  <2> HIDE DEF first, held, next
  <2>8. /\ head \in Seq(Shown)
        /\ Ids(head) \subseteq Ids(held)
        /\ \A m \in Ids(head) : Seen(head, m) = Seen(held, m)
        /\ \A m \in Ids(held) : m \in Ids(head) \/ IndexOf(held, m) > first - 1
    <3>1. first - 1 \in 0..Len(held)
      BY <2>4
    <3> QED BY <3>1, <2>2, PrefixFacts
  <2> HIDE DEF head
  <2>9. head \o f.msgs \in Seq(Shown)
    BY <2>8, ConcatFacts
  <2>10. ASSUME NEW m \in Messages
         PROVE  /\ Fits(Seen(head \o f.msgs, m), m, d.proj.older, v)
                /\ Fits(Seen(head \o f.msgs, m), m, f.older, v)
    <3>1. Seen(head \o f.msgs, m) = IF m \in Ids(head) THEN Seen(head, m)
                                    ELSE Seen(f.msgs, m)
      BY <2>8, SeenConcat
    <3>2. Fits(Seen(held, m), m, d.proj.older, v)
      BY <2>1, <2>2, FaithfulFits DEF held
    <3>3. Fits(Seen(f.msgs, m), m, f.older, v)
      BY FaithfulFits
    <3>4. CASE m \in Ids(head)
      <4>1. Seen(head \o f.msgs, m) = Seen(held, m) /\ m \in Ids(held)
        BY <3>1, <3>4, <2>8
      <4>2. Seen(held, m) # -1
        BY <4>1, <2>2, SeenFacts
      <4> QED BY <3>2, <4>1, <4>2 DEF Fits
    <3>5. CASE m \notin Ids(head) /\ m \in Ids(f.msgs)
      <4>1. Seen(f.msgs, m) # -1
        BY <3>5, SeenFacts
      <4> QED BY <3>1, <3>3, <3>5, <4>1 DEF Fits
    <3>6. CASE m \notin Ids(head) /\ m \notin Ids(f.msgs)
      <4>1. Seen(f.msgs, m) = -1
        BY <3>6, SeenFacts
      <4>2. CASE m \notin Ids(held)
        <5>1. Seen(held, m) = -1
          BY <4>2, <2>2, SeenFacts
        <5> QED BY <3>1, <3>2, <3>3, <3>6, <4>1, <5>1
      <4>3. CASE m \in Ids(held)
        <5>1. IndexOf(held, m) \in 1..Len(held) /\ held[IndexOf(held, m)].id = m
          BY <4>3, <2>2, SeenFacts
        <5>2. IndexOf(held, m) \in first..Len(held)
          BY <5>1, <4>3, <3>6, <2>4, <2>8
        <5>3. ~InLog(m)
          BY <5>1, <5>2, <3>6, <2>6
        <5>4. Stands(v, m) = -1
          BY <5>3, StandsFacts
        <5>5. v \in v..Len(log)
          BY DEF LogOK
        <5> QED BY <3>1, <3>6, <4>1, <5>4, <5>5 DEF Fits
      <4> QED BY <4>2, <4>3
    <3> QED BY <3>4, <3>5, <3>6
  <2>11. Faithful(head \o f.msgs, d.proj.older, v)
         /\ Faithful(head \o f.msgs, f.older, v)
    BY <2>9, <2>10, FaithfulFits
  <2>12. Faithful(next.msgs, next.older, v) /\ Faithful(next.msgs, f.older, v)
    BY <2>7, <2>11
  <2> QED BY <2>12 DEF next
<1> QED BY <1>1, <1>2

-----------------------------------------------------------------------------
(* Events *)

\* The table that an event leaves.
LEMMA ProjectIsTyped ==
    ASSUME NEW rows \in [Messages -> Row], NEW e \in Event, NEW i \in Versions
    PROVE  Project(rows, e, i) \in [Messages -> Row]
<1>1. CASE e.kind = "message"
  <2>1. e.id \in Messages
    BY <1>1 DEF Event
  <2>2. [seq |-> IF rows[e.id].seq = 0 THEN i ELSE rows[e.id].seq, ver |-> i]
           \in Row
    BY <2>1 DEF Row
  <2> QED BY <1>1, <2>1, <2>2 DEF Project
<1>2. CASE e.kind = "rollback"
  BY <1>2, StreamConstants DEF Project, NoRow, Row, Versions
<1>3. CASE e.kind \notin {"message", "rollback"}
  BY <1>3 DEF Project
<1> QED BY <1>1, <1>2, <1>3

\* What an event does to the row of one message.
LEMMA ProjectFacts ==
    ASSUME NEW rows \in [Messages -> Row], NEW e \in Event, NEW i \in Nat,
           NEW m \in Messages
    PROVE  \/ Project(rows, e, i)[m] = rows[m]
           \/ Project(rows, e, i)[m] = NoRow
           \/ /\ e = [kind |-> "message", id |-> m]
              /\ Project(rows, e, i)[m] =
                    [seq |-> IF rows[m].seq = 0 THEN i ELSE rows[m].seq, ver |-> i]
<1>1. CASE e.kind = "message"
  <2>1. e.id \in Messages /\ e = [kind |-> "message", id |-> e.id]
    BY <1>1 DEF Event
  <2>2. Project(rows, e, i) =
           [rows EXCEPT ![e.id] =
              [seq |-> IF @.seq = 0 THEN i ELSE @.seq, ver |-> i]]
    BY <1>1 DEF Project
  <2>3. CASE m = e.id
    BY <2>1, <2>2, <2>3
  <2>4. CASE m # e.id
    BY <2>2, <2>4
  <2> QED BY <2>3, <2>4
<1>2. CASE e.kind = "rollback"
  BY <1>2 DEF Project
<1>3. CASE e.kind \notin {"message", "rollback"}
  BY <1>3 DEF Project
<1> QED BY <1>1, <1>2, <1>3

\* What a commit does to the log.
LEMMA CommitFacts ==
    ASSUME LogOK, NEW e \in Event, Append1(e)
    PROVE  /\ LogOK'
           /\ Len(log') = Len(log) + 1
           /\ \A i \in 1..Len(log) : log'[i] = log[i]
<1>0. PICK L \in Nat : L = Len(log)
  BY DEF LogOK
<1>a. PICK n \in Nat : n = L + 1
  BY <1>0
<1> DEFINE t == [event |-> e, rows |-> Project(Rows, e, n)]
<1>1. /\ log \in Seq(Transaction) /\ n <= MaxEvents
      /\ L \in 0..L /\ n \in Versions /\ n # 0
  BY <1>0, <1>a, StreamConstants DEF LogOK, Append1, Versions
<1>2. Rows \in [Messages -> Row] /\ Rows = RowsAt(L)
  BY <1>0, <1>1, TablesAreTyped DEF Rows
<1>3. t \in Transaction
  BY <1>1, <1>2, ProjectIsTyped DEF Transaction
<1>4. log' = Append(log, t)
  BY <1>0, <1>a DEF Append1
<1>5. /\ log' \in Seq(Transaction) /\ Len(log') = n /\ log'[n] = t
      /\ \A i \in 1..L : log'[i] = log[i]
  BY <1>0, <1>a, <1>1, <1>3, <1>4
<1>6. \A i \in 0..L : RowsAt(i)' = RowsAt(i)
  BY <1>1, <1>5 DEF RowsAt
<1>7. RowsAt(n)' = Project(Rows, e, n)
  BY <1>1, <1>5 DEF RowsAt
<1> DEFINE row(m) == Project(Rows, e, n)[m]
<1>8. \A m \in Messages :
         \/ row(m) = Rows[m]
         \/ row(m) = NoRow
         \/ /\ e = [kind |-> "message", id |-> m]
            /\ row(m) = [seq |-> IF Rows[m].seq = 0 THEN n ELSE Rows[m].seq,
                         ver |-> n]
  BY <1>1, <1>2, ProjectFacts
<1>b. log'[n].event = e /\ log'[n].rows = Project(Rows, e, n)
  BY <1>5
<1> HIDE DEF t
<1>9. \A i \in 1..Len(log') :
         log'[i].rows = Project(RowsAt(i - 1)', log'[i].event, i)
  <2> SUFFICES ASSUME NEW i \in 1..n
               PROVE  log'[i].rows = Project(RowsAt(i - 1)', log'[i].event, i)
    BY <1>5
  <2>1. CASE i = n
    <3>1. i - 1 = L /\ RowsAt(L)' = Rows
      BY <2>1, <1>a, <1>1, <1>2, <1>6
    <3>2. log'[i].event = e /\ log'[i].rows = Project(Rows, e, i)
      BY <2>1, <1>b
    <3> QED BY <3>1, <3>2
  <2>2. CASE i # n
    <3>1. i \in 1..L /\ i - 1 \in 0..L
      BY <2>2, <1>a, <1>1
    <3>2. log'[i] = log[i] /\ RowsAt(i - 1)' = RowsAt(i - 1)
      BY <3>1, <1>5, <1>6
    <3>3. log[i].rows = Project(RowsAt(i - 1), log[i].event, i)
      BY <3>1, <1>0 DEF LogOK
    <3> QED BY <3>2, <3>3
  <2> QED BY <2>1, <2>2
<1>10. ASSUME NEW i \in 0..n, NEW m \in Messages PROVE RowOK(i, m)'
  <2>1. ASSUME NEW j \in 0..L, NEW r, r = RowsAt(j)[m]
        PROVE  r = NoRow \/ /\ r.seq \in 1..j /\ r.ver \in 1..j
                            /\ log'[r.seq].event = [kind |-> "message", id |-> m]
    <3>1. RowOK(j, m)
      BY <1>0 DEF LogOK
    <3>2. r.seq \in 1..j => log'[r.seq] = log[r.seq]
      BY <1>a, <1>1, <1>5
    <3> QED BY <2>1, <3>1, <3>2 DEF RowOK
  <2>2. CASE i \in 0..L
    <3>1. RowsAt(i)'[m] = RowsAt(i)[m]
      BY <2>2, <1>6
    <3> QED BY <3>1, <2>1, <2>2 DEF RowOK
  <2>3. CASE i = n
    <3>1. RowsAt(i)'[m] = row(m)
      BY <2>3, <1>7
    <3>2. Rows[m] = NoRow
          \/ /\ Rows[m].seq \in 1..L /\ Rows[m].ver \in 1..L
             /\ log'[Rows[m].seq].event = [kind |-> "message", id |-> m]
      BY <2>1, <1>1, <1>2
    <3> HIDE DEF row
    <3>3. CASE row(m) = Rows[m]
      BY <2>3, <3>1, <3>2, <3>3, <1>a, <1>1 DEF RowOK
    <3>4. CASE row(m) = NoRow
      BY <3>1, <3>4 DEF RowOK
    <3>5. CASE /\ e = [kind |-> "message", id |-> m]
               /\ row(m) = [seq |-> IF Rows[m].seq = 0 THEN n ELSE Rows[m].seq,
                            ver |-> n]
      <4>2. /\ row(m).seq \in 1..n /\ row(m).ver \in 1..n
            /\ log'[row(m).seq].event = [kind |-> "message", id |-> m]
        BY <3>2, <3>5, <1>b, <1>a, <1>1 DEF NoRow
      <4> QED BY <2>3, <3>1, <4>2 DEF RowOK
    <3> QED BY <3>3, <3>4, <3>5, <1>8 DEF row
  <2>4. i \in 0..L \/ i = n
    BY <1>a, <1>1
  <2> QED BY <2>2, <2>3, <2>4
<1>11. ASSUME NEW m \in Messages, NEW i \in 0..n, NEW k \in i..n,
              RowsAt(i)'[m].seq > 0, RowsAt(k)'[m].seq # RowsAt(i)'[m].seq
       PROVE  \E j \in i..k : RowsAt(j)'[m].seq = 0
  <2>0. ASSUME NEW a \in 0..L, NEW b \in a..L,
               RowsAt(a)[m].seq > 0, RowsAt(b)[m].seq # RowsAt(a)[m].seq
        PROVE  \E j \in a..b : RowsAt(j)[m].seq = 0
    <3>1. ComesBack(m)
      BY <1>0 DEF LogOK
    <3> QED BY <3>1, <2>0, <1>0 DEF ComesBack
  <2>1. i \in 0..L
    BY <1>a, <1>1, <1>11
  <2>2. CASE k \in 0..L
    <3>1. RowsAt(i)' = RowsAt(i) /\ RowsAt(k)' = RowsAt(k)
      BY <2>1, <2>2, <1>6
    <3>2. k \in i..L
      BY <2>1, <2>2, <1>a, <1>1
    <3>3. PICK j \in i..k : RowsAt(j)[m].seq = 0
      BY <2>0, <2>1, <3>1, <3>2, <1>11
    <3>4. j \in 0..L
      BY <2>1, <2>2, <1>a, <1>1
    <3> QED BY <3>3, <3>4, <1>6
  <2>3. CASE k = n
    <3>1. RowsAt(i)' = RowsAt(i) /\ RowsAt(k)'[m] = row(m)
      BY <2>1, <2>3, <1>6, <1>7
    <3>2. CASE Rows[m].seq = RowsAt(i)[m].seq
      <4>1. row(m).seq # Rows[m].seq /\ Rows[m].seq # 0
        BY <3>1, <3>2, <1>1, <1>11
      <4>2. row(m) = NoRow
        <5>1. \/ row(m) = Rows[m]
              \/ row(m) = NoRow
              \/ row(m) = [seq |-> IF Rows[m].seq = 0 THEN n ELSE Rows[m].seq,
                           ver |-> n]
          BY <1>8
        <5> HIDE DEF row
        <5>2. row(m) # Rows[m]
          BY <4>1
        <5>3. row(m) # [seq |-> IF Rows[m].seq = 0 THEN n ELSE Rows[m].seq,
                        ver |-> n]
          BY <4>1
        <5> QED BY <5>1, <5>2, <5>3
      <4>3. k \in i..k
        BY <1>1, <2>1, <2>3
      <4> QED BY <4>2, <4>3, <3>1 DEF NoRow
    <3>3. CASE Rows[m].seq # RowsAt(i)[m].seq
      <4>1. L \in i..L
        BY <2>1, <1>a, <1>1
      <4>2. PICK j \in i..L : RowsAt(j)[m].seq = 0
        BY <2>0, <2>1, <3>1, <3>3, <4>1, <1>2, <1>11
      <4>3. j \in i..k /\ j \in 0..L
        BY <2>1, <2>3, <1>a, <1>1
      <4> QED BY <4>2, <4>3, <1>6
    <3> QED BY <3>2, <3>3
  <2>4. k \in 0..L \/ k = n
    BY <1>a, <1>0, <1>1, <2>1, <1>11
  <2> QED BY <2>2, <2>3, <2>4
<1>12. \A m \in Messages : ComesBack(m)'
  BY <1>5, <1>11 DEF ComesBack
<1>13. \A i \in 0..Len(log'), m \in Messages : RowOK(i, m)'
  BY <1>5, <1>10
<1>14. Len(log') <= MaxEvents
  BY <1>a, <1>1, <1>5
<1>15. \A i \in 1..Len(log') :
          log'[i].rows = Project(RowsAt(i - 1), log[i].event, i)'
  BY <1>9 DEF Project
<1>16. LogOK'
  BY <1>5, <1>12, <1>13, <1>14, <1>15 DEF LogOK
<1> QED BY <1>0, <1>a, <1>5, <1>16

-----------------------------------------------------------------------------
(* How the log changes *)

\* The log of a restored database is a beginning of the log.
LEMMA RestoredFacts ==
    ASSUME LogOK, NEW n \in 0..Len(log), log' = SubSeq(log, 1, n)
    PROVE  /\ LogOK'
           /\ Len(log') = n
<1>1. /\ log \in Seq(Transaction) /\ Len(log) \in Nat /\ Len(log) <= MaxEvents
      /\ n \in Nat /\ MaxEvents \in Nat
  BY StreamConstants DEF LogOK
<1>2. /\ log' \in Seq(Transaction) /\ Len(log') = n
      /\ \A i \in 1..n : log'[i] = log[i]
  BY <1>1
<1>3. \A i \in 0..n : RowsAt(i)' = RowsAt(i)
  BY <1>1, <1>2 DEF RowsAt
<1>4. ASSUME NEW i \in 1..n
      PROVE  log'[i].rows = Project(RowsAt(i - 1)', log'[i].event, i)
  <2>1. i \in 1..Len(log) /\ i - 1 \in 0..n
    BY <1>1
  <2>2. log[i].rows = Project(RowsAt(i - 1), log[i].event, i)
    BY <2>1 DEF LogOK
  <2> QED BY <2>1, <2>2, <1>2, <1>3
<1>5. ASSUME NEW i \in 0..n, NEW m \in Messages PROVE RowOK(i, m)'
  <2>1. RowOK(i, m) /\ RowsAt(i)' = RowsAt(i)
    BY <1>1, <1>3 DEF LogOK
  <2>2. \A q \in 1..i : log'[q] = log[q]
    BY <1>1, <1>2
  <2> QED BY <2>1, <2>2 DEF RowOK
<1>6. ASSUME NEW m \in Messages, NEW i \in 0..n, NEW k \in i..n,
             RowsAt(i)'[m].seq > 0, RowsAt(k)'[m].seq # RowsAt(i)'[m].seq
      PROVE  \E j \in i..k : RowsAt(j)'[m].seq = 0
  <2>1. /\ i \in 0..Len(log) /\ k \in i..Len(log) /\ k \in 0..n
        /\ \A j \in i..k : j \in 0..n
    BY <1>1
  <2>2. RowsAt(i)' = RowsAt(i) /\ RowsAt(k)' = RowsAt(k)
    BY <2>1, <1>3
  <2>3. ComesBack(m)
    BY DEF LogOK
  <2>4. PICK j \in i..k : RowsAt(j)[m].seq = 0
    BY <2>1, <2>2, <2>3, <1>6 DEF ComesBack
  <2> QED BY <2>1, <2>4, <1>3
<1>7. \A m \in Messages : ComesBack(m)'
  BY <1>2, <1>6 DEF ComesBack
<1>8. \A i \in 0..Len(log'), m \in Messages : RowOK(i, m)'
  BY <1>2, <1>5
<1>9. \A i \in 1..Len(log') :
          log'[i].rows = Project(RowsAt(i - 1), log[i].event, i)'
  BY <1>2, <1>4 DEF Project
<1> QED BY <1>1, <1>2, <1>7, <1>8, <1>9 DEF LogOK

\* The log only became longer, or stayed.
Longer ==
    /\ LogOK'
    /\ Len(log) <= Len(log')
    /\ \A i \in 1..Len(log) : log'[i] = log[i]

\* A log that only becomes longer still says the same of its versions.
LEMMA LongerFacts ==
    ASSUME LogOK, Longer
    PROVE  /\ \A n \in 0..Len(log) : RowsAt(n)' = RowsAt(n)
           /\ \A m : InLog(m) => InLog(m)'
           /\ Len(log) \in Nat /\ Len(log') \in Nat
           /\ \A v \in 0..Len(log) : v \in 0..Len(log')
<1>1. Len(log) \in Nat /\ Len(log') \in Nat
  BY DEF LogOK, Longer
<1>2. \A n \in 0..Len(log) : RowsAt(n)' = RowsAt(n)
  BY <1>1 DEF Longer, RowsAt
<1>3. DOMAIN log = 1..Len(log) /\ DOMAIN log' = 1..Len(log')
  BY DEF LogOK, Longer
<1>4. \A i \in DOMAIN log : i \in DOMAIN log' /\ log'[i] = log[i]
  BY <1>1, <1>3 DEF Longer
<1>5. ASSUME NEW m, InLog(m) PROVE InLog(m)'
  BY <1>4, <1>5 DEF InLog
<1> QED BY <1>1, <1>2, <1>5 DEF Longer

\* What was shown faithfully stays so when more is committed.
LEMMA FaithfulForLonger ==
    ASSUME LogOK, Longer, NEW msgs, NEW older, NEW v \in 0..Len(log),
           Faithful(msgs, older, v)
    PROVE  Faithful(msgs, older, v)'
<1>1. /\ \A n \in 0..Len(log) : RowsAt(n)' = RowsAt(n)
      /\ Len(log) \in Nat /\ Len(log') \in Nat /\ Len(log) <= Len(log')
  BY LongerFacts DEF Longer
<1>2. \A n \in v..Len(log) : n \in v..Len(log') /\ RowsAt(n)' = RowsAt(n)
  BY <1>1
<1>5. ASSUME NEW m PROVE /\ (m \in Ids(msgs))' <=> m \in Ids(msgs)
                         /\ ShownVer(msgs, m)' = ShownVer(msgs, m)
  <2>1. Ids(msgs)' = Ids(msgs)
    BY DEF Ids
  <2>2. IndexOf(msgs, m)' = IndexOf(msgs, m)
    BY DEF IndexOf, SelectInSeq
  <2>3. ShownVer(msgs, m)' = ShownVer(msgs, m)
    BY <2>1, <2>2 DEF ShownVer
  <2> QED BY <2>1, <2>3
<1>3. ASSUME NEW m \in Messages, NEW n \in v..Len(log), ShownAsOf(msgs, m, n)
      PROVE  ShownAsOf(msgs, m, n)'
  <2>1. /\ (m \in Ids(msgs)) = (RowsAt(n)[m].seq > 0)
        /\ ShownVer(msgs, m) = RowsAt(n)[m].ver
    BY <1>3 DEF ShownAsOf
  <2>2. /\ (m \in Ids(msgs))' = (RowsAt(n)[m].seq > 0)'
        /\ ShownVer(msgs, m)' = RowsAt(n)'[m].ver
    BY <2>1, <1>2, <1>5
  <2> QED BY <2>2 DEF ShownAsOf
<1>4. ASSUME NEW m \in Messages, OwnDraft(msgs, m) PROVE OwnDraft(msgs, m)'
  BY <1>4, <1>5 DEF OwnDraft
<1>6. RowsAt(v)' = RowsAt(v)
  BY <1>1
<1> SUFFICES ASSUME NEW m \in Messages
             PROVE  (\/ \E n \in v..Len(log) : ShownAsOf(msgs, m, n)
                     \/ OwnDraft(msgs, m)
                     \/ m \notin Ids(msgs) /\ RowsAt(v)[m].seq < older)'
  BY DEF Faithful
<1>7. CASE \E n \in v..Len(log) : ShownAsOf(msgs, m, n)
  BY <1>2, <1>3, <1>7
<1>8. CASE OwnDraft(msgs, m)
  BY <1>4, <1>8
<1>9. CASE m \notin Ids(msgs) /\ RowsAt(v)[m].seq < older
  BY <1>5, <1>6, <1>9
<1>10. \/ \E n \in v..Len(log) : ShownAsOf(msgs, m, n)
       \/ OwnDraft(msgs, m)
       \/ m \notin Ids(msgs) /\ RowsAt(v)[m].seq < older
  BY DEF Faithful
<1> QED BY <1>7, <1>8, <1>9, <1>10
=============================================================================
