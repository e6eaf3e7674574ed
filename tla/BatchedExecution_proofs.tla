---------------------- MODULE BatchedExecution_proofs ----------------------
(***************************************************************************)
(* A proof that batching is invisible (BatchedExecution!BatchingInvisible), *)
(* for any requests, prompts, limits, executor and order of steps.          *)
(*                                                                         *)
(* The entries of a sequence are a recursion over its tokens.  First comes  *)
(* what the provers need of lists, and of that recursion: it has one        *)
(* solution, its prefixes are those of the tokens, and a sequence may be    *)
(* run in segments.  From it a row of every kind of call is exact whatever  *)
(* it is padded to.  Then the calls have every row, promotion and commit    *)
(* write what the rows give, and every step keeps ExecutionInvariant.       *)
(***************************************************************************)
EXTENDS BatchedExecution, CollectionTheorems

-----------------------------------------------------------------------------
(* Lists.                                                                 *)

\* A sequence, of whatever.
List(s) == \E S : s \in Seq(S)

\* A list is a function on 1 .. Len.
LEMMA ListFacts ==
  ASSUME NEW s, List(s)
  PROVE  Len(s) \in Nat /\ DOMAIN s = 1 .. Len(s) /\ s = [i \in 1 .. Len(s) |-> s[i]]
<1>1. PICK S : s \in Seq(S)
  BY DEF List
<1>2. QED BY <1>1

\* A function on 1 .. n is a list.
LEMMA ListMade ==
  ASSUME NEW n \in Nat, NEW s, s = [i \in 1 .. n |-> s[i]]
  PROVE  List(s) /\ Len(s) = n
<1> DEFINE S == {s[i] : i \in 1 .. n}
<1>1. s \in [1 .. n -> S]
  OBVIOUS
<1> HIDE DEF S
<1>2. s \in Seq(S) /\ Len(s) = n
  BY <1>1
<1>3. QED BY <1>2 DEF List

\* Lists of the same length with the same elements are equal.
LEMMA ListEqual ==
  ASSUME NEW s, NEW t, List(s), List(t), Len(s) = Len(t), \A i \in 1 .. Len(s) : s[i] = t[i]
  PROVE  s = t
BY ListFacts

\* Two lists are sequences over one set.
LEMMA TwoLists ==
  ASSUME NEW s, NEW t, List(s), List(t)
  PROVE  \E S : s \in Seq(S) /\ t \in Seq(S)
<1>1. PICK S : s \in Seq(S)
  BY DEF List
<1>2. PICK T : t \in Seq(T)
  BY DEF List
<1> DEFINE U == S \cup T
<1>3. S \subseteq U /\ T \subseteq U
  OBVIOUS
<1> HIDE DEF U
<1>4. s \in Seq(U) /\ t \in Seq(U)
  BY <1>1, <1>2, <1>3, SeqMonotonic
<1>5. QED BY <1>4

\* The elements of a concatenation.
LEMMA ListConcat ==
  ASSUME NEW s, NEW t, List(s), List(t)
  PROVE  /\ List(s \o t)
         /\ Len(s \o t) = Len(s) + Len(t)
         /\ \A i \in 1 .. Len(s) + Len(t) : (s \o t)[i] = IF i <= Len(s) THEN s[i] ELSE t[i - Len(s)]
<1>1. PICK S : s \in Seq(S) /\ t \in Seq(S)
  BY TwoLists
<1>2. /\ s \o t \in Seq(S)
      /\ Len(s \o t) = Len(s) + Len(t)
      /\ \A i \in 1 .. Len(s) + Len(t) : (s \o t)[i] = IF i <= Len(s) THEN s[i] ELSE t[i - Len(s)]
  BY <1>1, ConcatProperties
<1>3. QED BY <1>2 DEF List

\* The elements of a list with one more.
LEMMA ListAppend ==
  ASSUME NEW s, NEW x, List(s)
  PROVE  /\ List(Append(s, x))
         /\ Len(Append(s, x)) = Len(s) + 1
         /\ \A i \in 1 .. Len(s) : Append(s, x)[i] = s[i]
         /\ Append(s, x)[Len(s) + 1] = x
         /\ Append(s, x) = s \o <<x>>
<1>1. PICK S : s \in Seq(S)
  BY DEF List
<1> DEFINE U == S \cup {x}
<1>2. S \subseteq U /\ x \in U
  OBVIOUS
<1> HIDE DEF U
<1>3. s \in Seq(U) /\ x \in U
  BY <1>1, <1>2, SeqMonotonic
<1>4. /\ Append(s, x) \in Seq(U)
      /\ Len(Append(s, x)) = Len(s) + 1
      /\ \A i \in 1 .. Len(s) : Append(s, x)[i] = s[i]
      /\ Append(s, x)[Len(s) + 1] = x
  BY <1>3
<1>5. Append(s, x) = s \o <<x>>
  BY <1>3
<1>6. QED BY <1>4, <1>5 DEF List

\* The empty list and the list of one element.
LEMMA ListOne ==
  ASSUME NEW x
  PROVE  List(<<x>>) /\ Len(<<x>>) = 1 /\ <<x>>[1] = x /\ List(<<>>) /\ Len(<<>>) = 0
<1>1. <<x>> \in Seq({x}) /\ <<>> \in Seq({x})
  OBVIOUS
<1>2. QED BY <1>1 DEF List

\* The elements of a part of a list.
LEMMA ListSub ==
  ASSUME NEW s, List(s), NEW m \in Nat, NEW n \in Nat, 1 <= m, m <= n + 1, n <= Len(s)
  PROVE  /\ List(SubSeq(s, m, n))
         /\ Len(SubSeq(s, m, n)) = n - m + 1
         /\ \A i \in 1 .. n - m + 1 : SubSeq(s, m, n)[i] = s[m + i - 1]
<1>1. PICK S : s \in Seq(S)
  BY DEF List
<1>2. \A i \in m .. n : s[i] \in S
  BY <1>1
<1>3. m \in Int /\ n \in Int
  OBVIOUS
<1>4. /\ SubSeq(s, m, n) \in Seq(S)
      /\ Len(SubSeq(s, m, n)) = IF m <= n THEN n - m + 1 ELSE 0
      /\ \A i \in 1 .. n - m + 1 : SubSeq(s, m, n)[i] = s[m + i - 1]
  BY <1>2, <1>3, SubSeqProperties
<1>5. List(SubSeq(s, m, n))
  BY <1>4 DEF List
<1>6. QED BY <1>4, <1>5

\* The first elements of a sequence.
First(s, k) == SubSeq(s, 1, k)

\* The first elements of a list.
LEMMA ListFirst ==
  ASSUME NEW s, List(s), NEW k \in Nat, k <= Len(s)
  PROVE  /\ List(First(s, k))
         /\ Len(First(s, k)) = k
         /\ \A i \in 1 .. k : First(s, k)[i] = s[i]
<1>1. 1 \in Nat /\ 1 <= 1 /\ 1 <= k + 1 /\ k - 1 + 1 = k /\ \A i \in 1 .. k : 1 + i - 1 = i
  OBVIOUS
<1>2. /\ List(SubSeq(s, 1, k))
      /\ Len(SubSeq(s, 1, k)) = k - 1 + 1
      /\ \A i \in 1 .. k - 1 + 1 : SubSeq(s, 1, k)[i] = s[1 + i - 1]
  BY <1>1, ListSub
<1>3. QED BY <1>1, <1>2 DEF First

\* The two parts of a sequence.
LEMMA ConcatParts ==
  ASSUME NEW s, NEW t, List(s), List(t)
  PROVE  /\ SubSeq(s \o t, 1, Len(s)) = s
         /\ SubSeq(s \o t, Len(s) + 1, Len(s) + Len(t)) = t
<1>1. /\ List(s \o t)
      /\ Len(s \o t) = Len(s) + Len(t)
      /\ \A i \in 1 .. Len(s) + Len(t) : (s \o t)[i] = IF i <= Len(s) THEN s[i] ELSE t[i - Len(s)]
  BY ListConcat
<1> DEFINE u == s \o t
           m == Len(s)
           n == Len(s) + Len(t)
<1>2. m \in Nat /\ n \in Nat /\ m <= n /\ 1 <= m + 1 /\ m + 1 <= n + 1 /\ 1 <= 1 /\ 1 <= m + 1
      /\ m <= Len(u) /\ n <= Len(u) /\ 1 \in Nat /\ m + 1 \in Nat
  BY <1>1, ListFacts
<1>3. List(u) /\ n - m = Len(t) /\ n - (m + 1) + 1 = Len(t) /\ m - 1 + 1 = m
  BY <1>1, ListFacts
<1>4. /\ List(SubSeq(u, 1, m))
      /\ Len(SubSeq(u, 1, m)) = m
      /\ \A i \in 1 .. m : SubSeq(u, 1, m)[i] = u[i]
  <2> HIDE DEF u, m
  <2>1. /\ List(SubSeq(u, 1, m))
        /\ Len(SubSeq(u, 1, m)) = m - 1 + 1
        /\ \A i \in 1 .. m - 1 + 1 : SubSeq(u, 1, m)[i] = u[1 + i - 1]
    BY <1>2, <1>3, ListSub
  <2>2. QED BY <2>1, <1>2
<1>5. /\ List(SubSeq(u, m + 1, n))
      /\ Len(SubSeq(u, m + 1, n)) = Len(t)
      /\ \A i \in 1 .. Len(t) : SubSeq(u, m + 1, n)[i] = u[m + i]
  <2> DEFINE k == m + 1
  <2>1. k \in Nat /\ 1 <= k /\ k <= n + 1 /\ n <= Len(u) /\ n \in Nat /\ List(u)
    BY <1>2, <1>3
  <2>2. n - k + 1 = Len(t) /\ Len(t) \in Nat
    BY <1>3, ListFacts
  <2> HIDE DEF u, m, n, k
  <2>3. /\ List(SubSeq(u, k, n))
        /\ Len(SubSeq(u, k, n)) = n - k + 1
        /\ \A i \in 1 .. n - k + 1 : SubSeq(u, k, n)[i] = u[k + i - 1]
    BY <2>1, ListSub
  <2>4. \A i \in 1 .. Len(t) : SubSeq(u, k, n)[i] = u[m + i]
    <3>1. \A i \in 1 .. Len(t) : k + i - 1 = m + i
      BY <1>2, <2>2 DEF k
    <3>2. QED BY <3>1, <2>2, <2>3
  <2>5. QED BY <2>2, <2>3, <2>4 DEF k
<1>6. SubSeq(u, 1, m) = s
  <2>1. \A i \in 1 .. m : SubSeq(u, 1, m)[i] = s[i]
    BY <1>1, <1>2, <1>4
  <2>2. QED BY <1>4, <2>1, ListEqual
<1>7. SubSeq(u, m + 1, n) = t
  <2>1. \A i \in 1 .. Len(t) : u[m + i] = t[i]
    BY <1>1, <1>2, <1>3, ListFacts
  <2>2. \A i \in 1 .. Len(t) : SubSeq(u, m + 1, n)[i] = t[i]
    BY <1>5, <2>1
  <2> HIDE DEF u, m, n
  <2>3. QED BY <1>5, <2>2, ListEqual
<1>8. QED BY <1>6, <1>7

-----------------------------------------------------------------------------
(* The recursion of the model.                                            *)

\* The entries of f, as the recursion of Causal has them.
Recursion(f, n, past, start, tokens) ==
  f = [i \in 1 .. n |-> <<start + i - 1, tokens[i], past \o [j \in 1 .. i - 1 |-> f[j]]>>]

\* The recursion of Causal has a solution, of any length.
LEMMA RecursionExists ==
  ASSUME NEW past, NEW start, NEW tokens, NEW n \in Nat
  PROVE  \E f : Recursion(f, n, past, start, tokens)
<1> DEFINE bad == {k \in Nat : ~ \E f : Recursion(f, k, past, start, tokens)}
<1>1. ASSUME bad # {}
      PROVE  FALSE
  <2>1. bad \in SUBSET Nat
    OBVIOUS
  <2>2. PICK k \in bad : \A m \in bad : k <= m
    <3> HIDE DEF bad
    <3>1. QED BY <1>1, <2>1, LeastNumber
  <2>3. k \in Nat /\ ~ \E f : Recursion(f, k, past, start, tokens)
    BY <2>2
  <2>4. k # 0
    <3> DEFINE e == [i \in 1 .. 0 |-> 0]
    <3>1. e = [i \in 1 .. 0 |-> <<start + i - 1, tokens[i], past \o [j \in 1 .. i - 1 |-> e[j]]>>]
      OBVIOUS
    <3>2. Recursion(e, 0, past, start, tokens)
      BY <3>1 DEF Recursion
    <3>3. QED BY <2>3, <3>2
  <2>5. k - 1 \in Nat /\ k - 1 \notin bad
    <3> HIDE DEF bad
    <3>1. QED BY <2>2, <2>3, <2>4
  <2>6. PICK f : Recursion(f, k - 1, past, start, tokens)
    BY <2>5
  <2> DEFINE Entry(i, g) == <<start + i - 1, tokens[i], past \o [j \in 1 .. i - 1 |-> g[j]]>>
             h == [i \in 1 .. k |-> IF i < k THEN f[i] ELSE Entry(k, f)]
  <2>7. \A i \in 1 .. k : [j \in 1 .. i - 1 |-> h[j]] = [j \in 1 .. i - 1 |-> f[j]]
    <3> SUFFICES ASSUME NEW i \in 1 .. k
                 PROVE  [j \in 1 .. i - 1 |-> h[j]] = [j \in 1 .. i - 1 |-> f[j]]
      OBVIOUS
    <3>1. \A j \in 1 .. i - 1 : j \in 1 .. k /\ j < k
      BY <2>3
    <3>2. \A j \in 1 .. i - 1 : h[j] = f[j]
      BY <3>1
    <3> HIDE DEF h
    <3>3. QED BY <3>2
  <2>8. \A i \in 1 .. k : Entry(i, h) = Entry(i, f)
    <3> HIDE DEF h
    <3>1. QED BY <2>7
  <2>9. \A i \in 1 .. k : i < k => f[i] = Entry(i, f)
    <3> SUFFICES ASSUME NEW i \in 1 .. k, i < k
                 PROVE  f[i] = Entry(i, f)
      OBVIOUS
    <3>1. i \in 1 .. k - 1
      BY <2>3
    <3>2. f = [l \in 1 .. k - 1 |-> Entry(l, f)]
      BY <2>6 DEF Recursion
    <3> HIDE DEF Entry
    <3>3. QED BY <3>1, <3>2
  <2>10. \A i \in 1 .. k : h[i] = Entry(i, h)
    <3> SUFFICES ASSUME NEW i \in 1 .. k
                 PROVE  h[i] = Entry(i, h)
      OBVIOUS
    <3>1. h[i] = IF i < k THEN f[i] ELSE Entry(k, f)
      OBVIOUS
    <3>2. ~(i < k) => i = k
      BY <2>3
    <3> HIDE DEF h, Entry
    <3>3. QED BY <2>8, <2>9, <3>1, <3>2
  <2>11. h = [i \in 1 .. k |-> h[i]]
    OBVIOUS
  <2>12. h = [i \in 1 .. k |-> Entry(i, h)]
    <3> HIDE DEF h, Entry
    <3>1. QED BY <2>10, <2>11
  <2>13. Recursion(h, k, past, start, tokens)
    BY <2>12 DEF Recursion
  <2>14. QED BY <2>3, <2>13
<1>2. QED BY <1>1

\* What the entries of some tokens are.
IsCausal(c, past, start, tokens) ==
  /\ List(c) /\ Len(c) = Len(tokens)
  /\ \A i \in 1 .. Len(tokens) : c[i] = <<start + i - 1, tokens[i], past \o First(c, i - 1)>>

\* Causal is that solution: entry i comes from token i, its position and the
\* entries before it.
LEMMA CausalFacts ==
  ASSUME NEW past, NEW start, NEW tokens, List(tokens)
  PROVE  IsCausal(Causal(past, start, tokens), past, start, tokens)
<1> DEFINE n == Len(tokens)
           e == CHOOSE f : f = [i \in DOMAIN tokens |->
                                 <<start + i - 1, tokens[i], past \o [j \in 1 .. i - 1 |-> f[j]]>>]
           c == Causal(past, start, tokens)
<1>1. n \in Nat /\ DOMAIN tokens = 1 .. n
  BY ListFacts
<1>2. PICK g : Recursion(g, n, past, start, tokens)
  BY <1>1, RecursionExists
<1>3. g = [i \in DOMAIN tokens |-> <<start + i - 1, tokens[i], past \o [j \in 1 .. i - 1 |-> g[j]]>>]
  BY <1>1, <1>2 DEF Recursion
<1>4. e = [i \in DOMAIN tokens |-> <<start + i - 1, tokens[i], past \o [j \in 1 .. i - 1 |-> e[j]]>>]
  BY <1>3
<1>5. c = [i \in DOMAIN tokens |-> e[i]]
  BY Zenon DEF Causal
<1> HIDE DEF e, c, n
<1>6. c = [i \in 1 .. n |-> e[i]] /\ c = [i \in 1 .. n |-> c[i]] /\ \A i \in 1 .. n : c[i] = e[i]
  BY <1>1, <1>5
<1>7. List(c) /\ Len(c) = n
  BY <1>1, <1>6, ListMade
<1>8. \A i \in 1 .. n : e[i] = <<start + i - 1, tokens[i], past \o [j \in 1 .. i - 1 |-> e[j]]>>
  BY <1>1, <1>4
<1>9. ASSUME NEW i \in 1 .. n
      PROVE  c[i] = <<start + i - 1, tokens[i], past \o First(c, i - 1)>>
  <2> DEFINE k == i - 1
             d == [j \in 1 .. k |-> e[j]]
  <2>1. k \in Nat /\ 1 \in Nat /\ 1 <= 1 /\ 1 <= k + 1 /\ k <= Len(c) /\ k - 1 + 1 = k
    BY <1>1, <1>7
  <2>2. /\ List(First(c, k))
        /\ Len(First(c, k)) = k
        /\ \A j \in 1 .. k : First(c, k)[j] = c[j]
    <3> HIDE DEF k
    <3>1. QED BY <1>7, <2>1, ListFirst
  <2>3. \A j \in 1 .. k : j \in 1 .. n
    BY <1>1
  <2>4. List(d) /\ Len(d) = k
    <3>1. d = [j \in 1 .. k |-> d[j]]
      OBVIOUS
    <3> HIDE DEF k, d
    <3>2. QED BY <2>1, <3>1, ListMade
  <2>5. \A j \in 1 .. k : d[j] = c[j]
    BY <1>6, <2>3
  <2>6. First(c, k) = d
    <3> HIDE DEF k, d
    <3>1. QED BY <2>2, <2>4, <2>5, ListEqual
  <2>7. c[i] = <<start + i - 1, tokens[i], past \o d>>
    BY <1>6, <1>8
  <2>8. QED BY <2>6, <2>7
<1>10. QED BY <1>7, <1>9 DEF IsCausal, c, n

\* The recursion has one solution only.
LEMMA CausalUnique ==
  ASSUME NEW past, NEW start, NEW tokens, List(tokens), NEW c, IsCausal(c, past, start, tokens)
  PROVE  c = Causal(past, start, tokens)
<1> DEFINE d == Causal(past, start, tokens)
           n == Len(tokens)
           bad == {i \in 1 .. n : c[i] # d[i]}
<1>1. n \in Nat
  BY ListFacts
<1>2. IsCausal(d, past, start, tokens)
  BY CausalFacts
<1> HIDE DEF d
<1>3. List(c) /\ List(d) /\ Len(c) = n /\ Len(d) = n
  BY <1>2 DEF IsCausal
<1>4. ASSUME bad # {}
      PROVE  FALSE
  <2>1. bad \in SUBSET Nat
    BY <1>1
  <2>2. PICK i \in bad : \A m \in bad : i <= m
    <3> HIDE DEF bad
    <3>1. QED BY <1>4, <2>1, LeastNumber
  <2>3. i \in 1 .. n /\ c[i] # d[i]
    BY <2>2
  <2>4. \A j \in 1 .. n : j < i => c[j] = d[j]
    BY <2>2, <1>1
  <2> DEFINE k == i - 1
  <2>5. k \in Nat /\ 1 \in Nat /\ 1 <= 1 /\ 1 <= k + 1 /\ k <= n /\ k - 1 + 1 = k
    BY <1>1, <2>3
  <2>6. \A j \in 1 .. k : c[j] = d[j] /\ 1 + j - 1 = j
    BY <1>1, <2>3, <2>4
  <2>7. First(c, k) = First(d, k)
    <3> HIDE DEF k
    <3>1. /\ List(First(c, k)) /\ Len(First(c, k)) = k 
          /\ \A j \in 1 .. k : First(c, k)[j] = c[j]
      BY <1>3, <2>5, ListFirst
    <3>2. /\ List(First(d, k)) /\ Len(First(d, k)) = k 
          /\ \A j \in 1 .. k : First(d, k)[j] = d[j]
      BY <1>3, <2>5, ListFirst
    <3>3. \A j \in 1 .. k : First(c, k)[j] = First(d, k)[j]
      BY <2>5, <2>6, <3>1, <3>2
    <3>4. QED BY <2>5, <3>1, <3>2, <3>3, ListEqual
  <2>8. c[i] = <<start + i - 1, tokens[i], past \o First(c, k)>>
    BY <2>3 DEF IsCausal
  <2>9. d[i] = <<start + i - 1, tokens[i], past \o First(d, k)>>
    BY <1>2, <2>3 DEF IsCausal
  <2>10. QED BY <2>3, <2>7, <2>8, <2>9
<1>5. \A i \in 1 .. Len(c) : c[i] = d[i]
  BY <1>3, <1>4
<1>6. c = d
  BY <1>3, <1>5, ListEqual
<1>7. QED BY <1>6 DEF d

\* The first elements of the first ones.
LEMMA FirstOfFirst ==
  ASSUME NEW s, List(s), NEW k \in Nat, k <= Len(s), NEW i \in Nat, i <= k
  PROVE  First(First(s, k), i) = First(s, i)
<1> DEFINE t == First(s, k)
<1>1. /\ List(t) /\ Len(t) = k
      /\ \A j \in 1 .. k : t[j] = s[j]
  BY ListFirst
<1> HIDE DEF t
<1>2. i <= Len(s) /\ \A j \in 1 .. i : j \in 1 .. k
  BY ListFacts
<1>3. /\ List(First(t, i)) /\ Len(First(t, i)) = i
      /\ \A j \in 1 .. i : First(t, i)[j] = t[j]
  BY <1>1, ListFirst
<1>4. /\ List(First(s, i)) /\ Len(First(s, i)) = i
      /\ \A j \in 1 .. i : First(s, i)[j] = s[j]
  BY <1>2, ListFirst
<1>5. First(t, i) = First(s, i)
  BY <1>1, <1>2, <1>3, <1>4, ListEqual
<1>6. QED BY <1>5 DEF t

\* The first Len elements are all.
LEMMA FirstAll ==
  ASSUME NEW s, List(s)
  PROVE  First(s, Len(s)) = s
BY SubSeqFull DEF List, First

\* Concatenation is associative.
LEMMA ListAssociative ==
  ASSUME NEW s, NEW t, NEW u, List(s), List(t), List(u)
  PROVE  (s \o t) \o u = s \o (t \o u)
<1>1. PICK S : s \in Seq(S)
  BY DEF List
<1>2. PICK T : t \in Seq(T) /\ u \in Seq(T)
  BY TwoLists
<1> DEFINE U == S \cup T
<1>3. S \subseteq U /\ T \subseteq U
  OBVIOUS
<1> HIDE DEF U
<1>4. s \in Seq(U) /\ t \in Seq(U) /\ u \in Seq(U)
  BY <1>1, <1>2, <1>3, SeqMonotonic
<1>5. QED BY <1>4, ConcatAssociative

\* Concatenating nothing changes nothing.
LEMMA ConcatEmpty ==
  ASSUME NEW s, List(s)
  PROVE  s \o <<>> = s /\ <<>> \o s = s
BY ConcatEmptySeq DEF List

\* The first elements of two sequences, from the first and from both.
LEMMA FirstOfConcat ==
  ASSUME NEW s, NEW t, List(s), List(t), NEW i \in Nat
  PROVE  /\ i <= Len(s) => First(s \o t, i) = First(s, i)
         /\ i <= Len(t) => First(s \o t, Len(s) + i) = s \o First(t, i)
<1> DEFINE u == s \o t
           m == Len(s)
           n == Len(t)
<1>1. List(u) /\ Len(u) = m + n /\ m \in Nat /\ n \in Nat
  BY ListConcat, ListFacts
<1>2. \A j \in 1 .. m + n : u[j] = IF j <= m THEN s[j] ELSE t[j - m]
  BY ListConcat
<1>3. ASSUME i <= m
      PROVE  First(u, i) = First(s, i)
  <2>1. i <= Len(u) /\ i <= Len(s) /\ \A j \in 1 .. i : j \in 1 .. m + n /\ j <= m
    BY <1>1, <1>3
  <2> HIDE DEF u
  <2>2. /\ List(First(u, i)) /\ Len(First(u, i)) = i
        /\ \A j \in 1 .. i : First(u, i)[j] = u[j]
    BY <1>1, <2>1, ListFirst
  <2>3. /\ List(First(s, i)) /\ Len(First(s, i)) = i
        /\ \A j \in 1 .. i : First(s, i)[j] = s[j]
    BY <2>1, ListFirst
  <2> HIDE DEF m, n
  <2>4. \A j \in 1 .. i : First(u, i)[j] = First(s, i)[j]
    BY <1>2, <2>1, <2>2, <2>3
  <2>5. QED BY <2>2, <2>3, <2>4, ListEqual
<1>4. ASSUME i <= n
      PROVE  First(u, m + i) = s \o First(t, i)
  <2> DEFINE k == m + i
             v == First(t, i)
             w == First(u, k)
  <2>1. k \in Nat /\ k <= Len(u) /\ \A j \in 1 .. k : j \in 1 .. m + n /\ (~(j <= m) => j - m \in 1 .. i)
    BY <1>1, <1>4
  <2>2. /\ List(v) /\ Len(v) = i
        /\ \A j \in 1 .. i : v[j] = t[j]
    BY <1>4, ListFirst
  <2> HIDE DEF u
  <2>3. /\ List(w) /\ Len(w) = k
        /\ \A j \in 1 .. k : w[j] = u[j]
    <3> HIDE DEF k
    <3>1. QED BY <1>1, <2>1, ListFirst
  <2> HIDE DEF v, w
  <2>4. /\ List(s \o v) /\ Len(s \o v) = m + i
        /\ \A j \in 1 .. m + i : (s \o v)[j] = IF j <= m THEN s[j] ELSE v[j - m]
    BY <2>2, ListConcat
  <2>5. \A j \in 1 .. k : w[j] = (s \o v)[j]
    <3> HIDE DEF m, n
    <3> SUFFICES ASSUME NEW j \in 1 .. k
                 PROVE  w[j] = (s \o v)[j]
      OBVIOUS
    <3>1. w[j] = IF j <= m THEN s[j] ELSE t[j - m]
      BY <1>2, <2>1, <2>3
    <3>2. (s \o v)[j] = IF j <= m THEN s[j] ELSE v[j - m]
      BY <2>4
    <3>3. ~(j <= m) => v[j - m] = t[j - m]
      BY <2>1, <2>2
    <3>4. QED BY <3>1, <3>2, <3>3
  <2>6. w = s \o v
    <3> HIDE DEF m, n
    <3>1. QED BY <2>3, <2>4, <2>5, ListEqual
  <2>7. QED BY <2>6 DEF w, v
<1>5. QED BY <1>3, <1>4

\* The first elements of a concatenation that go beyond its first part.
LEMMA FirstOfBoth ==
  ASSUME NEW s, NEW t, List(s), List(t), NEW i \in Nat, i <= Len(t)
  PROVE  First(s \o t, Len(s) + i) = s \o First(t, i)
BY FirstOfConcat

\* No entry depends on a later token: the first entries are those of the first
\* tokens.
LEMMA CausalFirst ==
  ASSUME NEW past, NEW start, NEW tokens, List(tokens), NEW k \in Nat, k <= Len(tokens)
  PROVE  First(Causal(past, start, tokens), k) = Causal(past, start, First(tokens, k))
<1> DEFINE c == Causal(past, start, tokens)
           d == First(c, k)
           first == First(tokens, k)
<1>1. IsCausal(c, past, start, tokens)
  BY CausalFacts
<1> HIDE DEF c
<1>2. List(c) /\ Len(c) = Len(tokens)
  BY <1>1 DEF IsCausal
<1>3. List(d) /\ Len(d) = k /\ \A i \in 1 .. k : d[i] = c[i]
  BY <1>2, ListFirst
<1>4. List(first) /\ Len(first) = k /\ \A i \in 1 .. k : first[i] = tokens[i]
  BY ListFirst
<1>5. ASSUME NEW i \in 1 .. k
      PROVE  d[i] = <<start + i - 1, first[i], past \o First(d, i - 1)>>
  <2> DEFINE j == i - 1
  <2>1. i \in 1 .. Len(tokens) /\ j \in Nat /\ j <= k
    BY ListFacts
  <2>2. c[i] = <<start + i - 1, tokens[i], past \o First(c, j)>>
    BY <1>1, <2>1 DEF IsCausal
  <2>3. First(d, j) = First(c, j)
    <3> HIDE DEF j
    <3>1. QED BY <1>2, <2>1, FirstOfFirst
  <2> HIDE DEF d, first
  <2>4. QED BY <1>3, <1>4, <2>2, <2>3
<1> HIDE DEF d, first
<1>6. IsCausal(d, past, start, first)
  BY <1>3, <1>4, <1>5 DEF IsCausal
<1>7. d = Causal(past, start, first)
  BY <1>4, <1>6, CausalUnique
<1>8. QED BY <1>7 DEF d, first, c

\* Running a segment after another one, over what the first left in the cache,
\* gives what running both at once does.
LEMMA CausalConcat ==
  ASSUME NEW past, List(past), NEW start \in Int, NEW s, NEW t, List(s), List(t)
  PROVE  Causal(past, start, s \o t)
           = Causal(past, start, s) \o Causal(past \o Causal(past, start, s), start + Len(s), t)
<1> DEFINE a == Causal(past, start, s)
           p == past \o a
           l == start + Len(s)
           b == Causal(p, l, t)
           c == a \o b
           m == Len(s)
           n == Len(t)
           u == s \o t
<1>1. IsCausal(a, past, start, s) /\ IsCausal(b, p, l, t)
  BY CausalFacts
<1>2. List(a) /\ Len(a) = m /\ m \in Nat /\ n \in Nat
  BY <1>1, ListFacts DEF IsCausal
<1>3. List(b) /\ Len(b) = n
  BY <1>1 DEF IsCausal
<1>4. /\ List(u) /\ Len(u) = m + n
      /\ \A i \in 1 .. m + n : u[i] = IF i <= m THEN s[i] ELSE t[i - m]
  BY ListConcat
<1> HIDE DEF a, b, u
<1>5. /\ List(c) /\ Len(c) = m + n
      /\ \A i \in 1 .. m + n : c[i] = IF i <= m THEN a[i] ELSE b[i - m]
  BY <1>2, <1>3, ListConcat
<1>6. ASSUME NEW i \in 1 .. m + n, i <= m
      PROVE  c[i] = <<start + i - 1, u[i], past \o First(c, i - 1)>>
  <2> DEFINE j == i - 1
  <2>1. i \in 1 .. m /\ j \in Nat /\ j <= Len(a)
    BY <1>2, <1>6
  <2>2. First(c, j) = First(a, j)
    <3> HIDE DEF j
    <3>1. QED BY <1>2, <1>3, <2>1, FirstOfConcat
  <2>3. a[i] = <<start + i - 1, s[i], past \o First(a, j)>>
    BY <1>1, <2>1 DEF IsCausal
  <2> HIDE DEF m, n, c
  <2>4. c[i] = a[i] /\ u[i] = s[i]
    BY <1>4, <1>5, <1>6
  <2>5. QED BY <2>2, <2>3, <2>4
<1>7. ASSUME NEW i \in 1 .. m + n, ~(i <= m)
      PROVE  c[i] = <<start + i - 1, u[i], past \o First(c, i - 1)>>
  <2> DEFINE j == i - m
             k == j - 1
  <2>1. j \in 1 .. n /\ k \in Nat /\ k <= Len(b) /\ m + k = i - 1 /\ l + j - 1 = start + i - 1 /\ k <= n
    BY <1>2, <1>3, <1>7
  <2>2. First(c, m + k) = a \o First(b, k)
    <3> HIDE DEF k, m, n
    <3>1. k \in Nat /\ k <= Len(b)
      BY <2>1
    <3>2. First(a \o b, Len(a) + k) = a \o First(b, k)
      BY <1>2, <1>3, <3>1, FirstOfBoth
    <3>3. QED BY <1>2, <3>2
  <2>3. b[j] = <<l + j - 1, t[j], p \o First(b, k)>>
    BY <1>1, <2>1 DEF IsCausal
  <2>4. List(First(b, k))
    <3> HIDE DEF k
    <3>1. QED BY <1>3, <2>1, ListFirst
  <2>5. p \o First(b, k) = past \o First(c, i - 1)
    <3>1. p \o First(b, k) = past \o (a \o First(b, k))
      <4> DEFINE v == First(b, k)
      <4>1. List(v) /\ List(a) /\ List(past)
        BY <1>2, <2>4
      <4> HIDE DEF v
      <4>2. (past \o a) \o v = past \o (a \o v)
        BY <4>1, ListAssociative, SMTT(30)
      <4>3. QED BY <4>2 DEF v
    <3> HIDE DEF k, c
    <3>2. QED BY <2>1, <2>2, <3>1
  <2>6. c[i] = b[j] /\ u[i] = t[j]
    <3> HIDE DEF c
    <3>1. QED BY <1>4, <1>5, <1>7
  <2> HIDE DEF j, k, c, p, l
  <2>7. QED BY <2>1, <2>3, <2>5, <2>6
<1>8. IsCausal(c, past, start, u)
  <2>1. \A i \in 1 .. m + n : c[i] = <<start + i - 1, u[i], past \o First(c, i - 1)>>
    BY <1>6, <1>7
  <2> HIDE DEF m, n, c
  <2>2. QED BY <1>4, <1>5, <2>1 DEF IsCausal
<1>9. c = Causal(past, start, u)
  <2> HIDE DEF c
  <2>1. QED BY <1>4, <1>8, CausalUnique
<1>10. QED BY <1>9 DEF a, b, u

\* What the model alone computes of a prefix is the prefix of what it computes.
LEMMA AloneFacts ==
  ASSUME NEW s, List(s)
  PROVE  /\ List(Alone(s)) /\ Len(Alone(s)) = Len(s)
         /\ \A k \in Nat : k <= Len(s) => First(Alone(s), k) = Alone(First(s, k))
<1> DEFINE none == <<>>
           zero == 0
           a == Causal(none, zero, s)
<1>1. Alone(s) = a /\ \A k : Alone(First(s, k)) = Causal(none, zero, First(s, k))
  BY DEF Alone
<1> HIDE DEF none, zero
<1>2. IsCausal(a, none, zero, s)
  BY CausalFacts
<1>3. ASSUME NEW k \in Nat, k <= Len(s)
      PROVE  First(a, k) = Causal(none, zero, First(s, k))
  <2> HIDE DEF a
  <2>1. First(Causal(none, zero, s), k) = Causal(none, zero, First(s, k))
    BY <1>3, CausalFirst
  <2>2. QED BY <2>1 DEF a
<1> HIDE DEF a
<1>4. QED BY <1>1, <1>2, <1>3 DEF IsCausal

\* The same for a whole history run in two segments.
LEMMA AloneConcat ==
  ASSUME NEW s, NEW t, List(s), List(t)
  PROVE  Alone(s \o t) = Alone(s) \o Causal(Alone(s), Len(s), t)
<1> DEFINE a == Alone(s)
           none == <<>>
<1>1. List(a)
  BY AloneFacts
<1>2. List(none) /\ Len(s) \in Nat
  BY ListOne, ListFacts
<1>3. none \o a = a /\ 0 + Len(s) = Len(s)
  BY <1>1, <1>2, ConcatEmpty
<1>4. a = Causal(none, 0, s) /\ Alone(s \o t) = Causal(none, 0, s \o t)
  BY DEF Alone
<1> HIDE DEF none, a
<1> DEFINE zero == 0
<1>5. zero \in Int
  OBVIOUS
<1> HIDE DEF zero
<1>6. Causal(none, zero, s \o t)
        = Causal(none, zero, s) \o Causal(none \o Causal(none, zero, s), zero + Len(s), t)
  BY <1>2, <1>5, CausalConcat
<1>7. Causal(none, 0, s \o t) = a \o Causal(none \o a, 0 + Len(s), t)
  BY <1>4, <1>6 DEF zero
<1>8. QED BY <1>3, <1>4, <1>7 DEF a

\* The entry of one token.
LEMMA CausalOne ==
  ASSUME NEW past, List(past), NEW start \in Int, NEW x
  PROVE  Causal(past, start, <<x>>) = << <<start, x, past>> >>
<1> DEFINE one == <<x>>
           c == Causal(past, start, one)
           d == << <<start, x, past>> >>
<1>1. List(one) /\ Len(one) = 1 /\ one[1] = x
  BY ListOne
<1>2. IsCausal(c, past, start, one)
  BY <1>1, CausalFacts
<1> HIDE DEF c, one
<1>3. List(c) /\ Len(c) = 1 /\ c[1] = <<start + 1 - 1, x, past \o First(c, 1 - 1)>>
  BY <1>1, <1>2 DEF IsCausal
<1>4. First(c, 1 - 1) = <<>> /\ start + 1 - 1 = start
  BY DEF First
<1>5. c[1] = <<start, x, past>>
  BY <1>3, <1>4, ConcatEmpty
<1>6. List(d) /\ Len(d) = 1 /\ d[1] = <<start, x, past>>
  BY ListOne
<1> HIDE DEF d
<1>7. c = d
  BY <1>3, <1>5, <1>6, ListEqual
<1>8. QED BY <1>7 DEF c, d, one

\* One more token adds one entry.
LEMMA AloneAppend ==
  ASSUME NEW s, List(s), NEW x
  PROVE  Alone(Append(s, x)) = Append(Alone(s), <<Len(s), x, Alone(s)>>)
<1>1. List(Alone(s)) /\ List(<<x>>) /\ Len(s) \in Int
  BY AloneFacts, ListOne, ListFacts
<1>2. Append(s, x) = s \o <<x>>
  BY ListAppend
<1>3. Alone(s \o <<x>>) = Alone(s) \o Causal(Alone(s), Len(s), <<x>>)
  BY <1>1, AloneConcat
<1>4. Causal(Alone(s), Len(s), <<x>>) = << <<Len(s), x, Alone(s)>> >>
  BY <1>1, CausalOne
<1>5. Append(Alone(s), <<Len(s), x, Alone(s)>>) = Alone(s) \o << <<Len(s), x, Alone(s)>> >>
  BY <1>1, ListAppend
<1>6. QED BY <1>2, <1>3, <1>4, <1>5

-----------------------------------------------------------------------------
(* Rows are exact.                                                        *)

\* Padding is a list, of whatever length.
LEMMA Padding ==
  ASSUME NEW n \in Int, NEW x
  PROVE  List([i \in 1 .. n |-> x])
<1> DEFINE p == [i \in 1 .. n |-> x]
<1>1. CASE n >= 0
  <2>1. n \in Nat /\ p = [i \in 1 .. n |-> p[i]]
    BY <1>1
  <2> HIDE DEF p
  <2>2. List(p)
    BY <2>1, ListMade
  <2>3. QED BY <2>2 DEF p
<1>2. CASE n < 0
  <2>1. p = [i \in 1 .. 0 |-> p[i]]
    BY <1>2
  <2> HIDE DEF p
  <2> DEFINE zero == 0
  <2>2. p = [i \in 1 .. zero |-> p[i]] /\ zero \in Nat
    BY <2>1
  <2> HIDE DEF zero
  <2>3. List(p)
    BY <2>2, ListMade
  <2>4. QED BY <2>3 DEF p
<1>3. QED BY <1>1, <1>2

\* The last entry of the model alone.
LEMMA AloneLast ==
  ASSUME NEW s, List(s), Len(s) # 0
  PROVE  Last(Alone(s)) = Alone(s)[Len(s)]
BY AloneFacts DEF Last

\* A row of a batch of prompts is as if it had had the model for itself.
LEMMA PrefillExact ==
  ASSUME NEW tokens, List(tokens), Len(tokens) # 0, NEW padded \in Int
  PROVE  /\ PrefillRow(tokens, padded).logits = Last(Alone(tokens))
         /\ PrefillRow(tokens, padded).entries = Alone(tokens)
<1> DEFINE n == Len(tokens)
           a == Alone(tokens)
           p == [i \in 1 .. padded - n |-> 0]
           b == Causal(a, n, p)
           d == Alone(tokens \o p)
<1>1. n \in Nat /\ n # 0 /\ padded - n \in Int
  BY ListFacts
<1>2. List(p)
  <2> DEFINE w == padded - n
  <2>1. w \in Int
    BY <1>1
  <2> HIDE DEF w
  <2>2. List([i \in 1 .. w |-> 0])
    BY <2>1, Padding
  <2>3. QED BY <2>2 DEF w
<1>3. /\ PrefillRow(tokens, padded).logits = d[n]
      /\ PrefillRow(tokens, padded).entries = First(d, n)
  BY DEF PrefillRow, First
<1> HIDE DEF p
<1>4. d = a \o b
  BY <1>2, AloneConcat
<1>5. List(a) /\ Len(a) = n /\ List(b)
  BY <1>2, AloneFacts, CausalFacts DEF IsCausal
<1>6. a[n] = Last(a)
  BY AloneLast
<1> HIDE DEF n, a, b, d
<1>7. d[n] = a[n]
  <2>1. /\ Len(b) \in Nat
        /\ \A i \in 1 .. Len(a) + Len(b) : (a \o b)[i] = IF i <= Len(a) THEN a[i] ELSE b[i - Len(a)]
    BY <1>5, ListConcat, ListFacts
  <2>2. n \in 1 .. Len(a) + Len(b) /\ n <= Len(a)
    BY <1>1, <1>5, <2>1
  <2>3. QED BY <1>4, <2>1, <2>2
<1>8. First(d, n) = a
  <2>1. n <= Len(a)
    BY <1>1, <1>5
  <2>2. First(a \o b, n) = First(a, n)
    BY <1>1, <1>5, <2>1, FirstOfConcat
  <2>3. First(a, n) = a
    BY <1>5, FirstAll
  <2>4. QED BY <1>4, <2>2, <2>3
<1>9. QED BY <1>3, <1>6, <1>7, <1>8 DEF a

\* And so is a row of a decode over padded caches.
LEMMA DecodeExact ==
  ASSUME NEW h, List(h), NEW token, NEW padded \in Int, NEW past, past = Alone(h)
  PROVE  /\ DecodeRow(past, token, padded).logits = Last(Alone(Append(h, token)))
         /\ DecodeRow(past, token, padded).entries = Alone(Append(h, token))
         /\ Append(past, Last(DecodeRow(past, token, padded).entries)) = Alone(Append(h, token))
<1> DEFINE n == Len(past)
           p == [i \in 1 .. padded - n |-> Zero]
           d == past \o p
           new == <<n, token, First(d, n)>>
           next == Append(d, new)
           e == Alone(Append(h, token))
<1>1. List(past) /\ n = Len(h) /\ n \in Nat /\ padded - n \in Int
  BY AloneFacts, ListFacts
<1>2. List(p)
  <2> DEFINE w == padded - n
  <2>1. w \in Int
    BY <1>1
  <2> HIDE DEF w
  <2>2. List([i \in 1 .. w |-> Zero])
    BY <2>1, Padding
  <2>3. QED BY <2>2 DEF w
<1>3. /\ DecodeRow(past, token, padded).logits = new
      /\ DecodeRow(past, token, padded).entries = Append(First(next, n), Last(next))
  BY DEF DecodeRow, First
<1> HIDE DEF p
<1>4. List(d) /\ Len(d) = n + Len(p) /\ Len(p) \in Nat
  BY <1>1, <1>2, ListConcat, ListFacts
<1>5. First(past, n) = past
  BY <1>1, FirstAll
<1>6. First(d, n) = past
  <2>1. n <= Len(past)
    BY <1>1
  <2>2. First(past \o p, n) = First(past, n)
    BY <1>1, <1>2, <2>1, FirstOfConcat
  <2>3. QED BY <1>5, <2>2
<1>7. e = Append(past, <<n, token, past>>)
  BY <1>1, AloneAppend
<1>8. new = <<n, token, past>>
  BY <1>6
<1> HIDE DEF d, new
<1>9. List(next) /\ Len(next) = Len(d) + 1 /\ next[Len(d) + 1] = new /\ next = d \o <<new>>
  BY <1>4, ListAppend
<1>10. List(<<new>>)
  BY ListOne
<1>11. First(next, n) = past
  <2>1. n <= Len(d)
    BY <1>1, <1>4
  <2> DEFINE one == <<new>>
  <2>2. List(one) /\ next = d \o one
    BY <1>9, <1>10
  <2> HIDE DEF one, n, next
  <2>3. First(d \o one, n) = First(d, n)
    BY <1>1, <1>4, <2>1, <2>2, FirstOfConcat
  <2>4. QED BY <1>6, <2>2, <2>3
<1>12. Last(next) = new
  BY <1>9 DEF Last
<1> HIDE DEF next, e
<1>13. DecodeRow(past, token, padded).entries = e
  BY <1>3, <1>7, <1>8, <1>11, <1>12
<1>14. Last(e) = new
  <2>1. Len(e) = n + 1 /\ e[n + 1] = new
    BY <1>1, <1>7, <1>8, ListAppend
  <2>2. QED BY <2>1 DEF Last
<1>15. QED BY <1>3, <1>7, <1>8, <1>13, <1>14 DEF e

\* And of a batch of segments.
LEMMA SegmentExact ==
  ASSUME NEW s, List(s), NEW tokens, List(tokens), Len(tokens) # 0, NEW padded \in Int,
         NEW past, past = Alone(s)
  PROVE  /\ SegmentRow(past, tokens, padded).logits = Last(Alone(s \o tokens))
         /\ SegmentRow(past, tokens, padded).entries = Causal(past, Len(s), tokens)
         /\ SegmentRow(past, tokens, padded).rows = Causal(past, Len(s), tokens)
<1> DEFINE n == Len(tokens)
           c == Causal(past, Len(past), tokens)
           p == [i \in 1 .. padded - n |-> <<0, 0, <<>> >>]
           d == c \o p
           e == Alone(s \o tokens)
<1>1. n \in Nat /\ n # 0 /\ padded - n \in Int
  BY ListFacts
<1>2. List(p)
  <2> DEFINE w == padded - n
             z == <<0, 0, <<>> >>
  <2>1. w \in Int
    BY <1>1
  <2> HIDE DEF w, z
  <2>2. List([i \in 1 .. w |-> z])
    BY <2>1, Padding
  <2>3. QED BY <2>2 DEF w, z
<1>3. /\ SegmentRow(past, tokens, padded).logits = d[n]
      /\ SegmentRow(past, tokens, padded).entries = First(d, n)
      /\ SegmentRow(past, tokens, padded).rows = First(d, n)
  BY DEF SegmentRow, First
<1> HIDE DEF p
<1>4. List(past) /\ Len(past) = Len(s)
  BY AloneFacts
<1>5. List(c) /\ Len(c) = n
  BY CausalFacts DEF IsCausal
<1>6. e = past \o c
  <2>1. Alone(s \o tokens) = Alone(s) \o Causal(Alone(s), Len(s), tokens)
    BY AloneConcat
  <2>2. QED BY <1>4, <2>1
<1>7. First(d, n) = c
  <2> HIDE DEF c
  <2>1. n <= Len(c)
    BY <1>1, <1>5
  <2> HIDE DEF n
  <2>2. First(c \o p, n) = First(c, n)
    BY <1>1, <1>2, <1>5, <2>1, FirstOfConcat
  <2>3. First(c, n) = c
    BY <1>5, FirstAll
  <2>4. QED BY <2>2, <2>3
<1> HIDE DEF c, e
<1>8. d[n] = c[n]
  <2>1. /\ Len(p) \in Nat
        /\ \A i \in 1 .. Len(c) + Len(p) : (c \o p)[i] = IF i <= Len(c) THEN c[i] ELSE p[i - Len(c)]
    BY <1>2, <1>5, ListConcat, ListFacts
  <2>2. n \in 1 .. Len(c) + Len(p) /\ n <= Len(c)
    BY <1>1, <1>5, <2>1
  <2> HIDE DEF n
  <2>3. QED BY <2>1, <2>2
<1>9. Last(e) = c[n]
  <2>1. /\ List(past \o c) /\ Len(past \o c) = Len(past) + n
        /\ \A i \in 1 .. Len(past) + n : (past \o c)[i] = IF i <= Len(past) THEN past[i] ELSE c[i - Len(past)]
    BY <1>4, <1>5, ListConcat
  <2> DEFINE m == Len(past)
             l == m + n
  <2>2. m \in Nat
    BY <1>4, ListFacts
  <2>3. l \in 1 .. l /\ ~(l <= m) /\ l - m = n
    BY <1>1, <2>2
  <2>4. Len(e) = l /\ e[l] = IF l <= m THEN past[l] ELSE c[l - m]
    <3> HIDE DEF n
    <3>1. QED BY <1>6, <2>1, <2>3
  <2> HIDE DEF m, l, n
  <2>5. e[l] = c[n]
    BY <2>3, <2>4
  <2>6. QED BY <2>4, <2>5 DEF Last
<1>10. QED BY <1>3, <1>4, <1>7, <1>8, <1>9 DEF e, c

-----------------------------------------------------------------------------
(* Sequences of sequences.                                                *)

\* The recursion of FlattenSeq.
Flattening(f, n, s) == f = [i \in 1 .. n |-> IF i = 1 THEN s[i] ELSE f[i - 1] \o s[i]]

\* The recursion of FlattenSeq has a solution, of any length.
LEMMA FlatteningExists ==
  ASSUME NEW s, NEW n \in Nat
  PROVE  \E f : Flattening(f, n, s)
<1> DEFINE bad == {k \in Nat : ~ \E f : Flattening(f, k, s)}
<1>1. ASSUME bad # {}
      PROVE  FALSE
  <2>1. bad \in SUBSET Nat
    OBVIOUS
  <2>2. PICK k \in bad : \A m \in bad : k <= m
    <3> HIDE DEF bad
    <3>1. QED BY <1>1, <2>1, LeastNumber
  <2>3. k \in Nat /\ ~ \E f : Flattening(f, k, s)
    BY <2>2
  <2>4. k # 0
    <3> DEFINE e == [i \in 1 .. 0 |-> 0]
    <3>1. e = [i \in 1 .. 0 |-> IF i = 1 THEN s[i] ELSE e[i - 1] \o s[i]]
      OBVIOUS
    <3>2. Flattening(e, 0, s)
      BY <3>1 DEF Flattening
    <3>3. QED BY <2>3, <3>2
  <2>5. k - 1 \in Nat /\ k - 1 \notin bad
    <3> HIDE DEF bad
    <3>1. QED BY <2>2, <2>3, <2>4
  <2>6. PICK f : Flattening(f, k - 1, s)
    BY <2>5
  <2> DEFINE Part(i, g) == IF i = 1 THEN s[i] ELSE g[i - 1] \o s[i]
             h == [i \in 1 .. k |-> IF i < k THEN f[i] ELSE Part(k, f)]
  <2>7. \A i \in 1 .. k : Part(i, h) = Part(i, f)
    <3> SUFFICES ASSUME NEW i \in 1 .. k
                 PROVE  Part(i, h) = Part(i, f)
      OBVIOUS
    <3>1. i # 1 => i - 1 \in 1 .. k /\ i - 1 < k
      BY <2>3
    <3>2. i # 1 => h[i - 1] = f[i - 1]
      BY <3>1
    <3> HIDE DEF h
    <3>3. QED BY <3>2
  <2>8. \A i \in 1 .. k : i < k => f[i] = Part(i, f)
    <3> SUFFICES ASSUME NEW i \in 1 .. k, i < k
                 PROVE  f[i] = Part(i, f)
      OBVIOUS
    <3>1. i \in 1 .. k - 1
      BY <2>3
    <3>2. f = [l \in 1 .. k - 1 |-> Part(l, f)]
      BY <2>6 DEF Flattening
    <3> HIDE DEF Part
    <3>3. QED BY <3>1, <3>2
  <2>9. \A i \in 1 .. k : h[i] = Part(i, h)
    <3> SUFFICES ASSUME NEW i \in 1 .. k
                 PROVE  h[i] = Part(i, h)
      OBVIOUS
    <3>1. h[i] = IF i < k THEN f[i] ELSE Part(k, f)
      OBVIOUS
    <3>2. ~(i < k) => i = k
      BY <2>3
    <3> HIDE DEF h, Part
    <3>3. QED BY <2>7, <2>8, <3>1, <3>2
  <2>10. h = [i \in 1 .. k |-> h[i]]
    OBVIOUS
  <2>11. h = [i \in 1 .. k |-> Part(i, h)]
    <3> HIDE DEF h, Part
    <3>1. QED BY <2>9, <2>10
  <2>12. Flattening(h, k, s)
    BY <2>11 DEF Flattening
  <2>13. QED BY <2>3, <2>12
<1>2. QED BY <1>1

\* FlattenSeq is that solution.
LEMMA FlattenedBy ==
  ASSUME NEW s, List(s), Len(s) # 0, NEW f, Flattening(f, Len(s), s)
  PROVE  FlattenSeq(s) = f[Len(s)]
<1> DEFINE n == Len(s)
           e == CHOOSE g : g = [i \in 1 .. Len(s) |-> IF i = 1 THEN s[i] ELSE g[i - 1] \o s[i]]
           bad == {i \in 1 .. n : e[i] # f[i]}
<1>1. n \in Nat /\ n # 0 /\ n \in 1 .. n
  BY ListFacts
<1>2. f = [i \in 1 .. n |-> IF i = 1 THEN s[i] ELSE f[i - 1] \o s[i]]
  BY DEF Flattening
<1>3. e = [i \in 1 .. n |-> IF i = 1 THEN s[i] ELSE e[i - 1] \o s[i]]
  BY <1>2
<1>4. FlattenSeq(s) = e[n]
  BY Zenon DEF FlattenSeq
<1> HIDE DEF e
<1>5. \A i \in 1 .. n : f[i] = IF i = 1 THEN s[i] ELSE f[i - 1] \o s[i]
  BY <1>2
<1>6. \A i \in 1 .. n : e[i] = IF i = 1 THEN s[i] ELSE e[i - 1] \o s[i]
  BY <1>3
<1>7. ASSUME bad # {}
      PROVE  FALSE
  <2>1. bad \in SUBSET Nat
    BY <1>1
  <2>2. PICK i \in bad : \A m \in bad : i <= m
    <3> HIDE DEF bad
    <3>1. QED BY <1>7, <2>1, LeastNumber
  <2>3. i \in 1 .. n /\ e[i] # f[i]
    BY <2>2
  <2>4. i # 1 => i - 1 \in 1 .. n /\ i - 1 < i
    BY <1>1, <2>3
  <2>5. i # 1 => i - 1 \notin bad
    <3> HIDE DEF bad, n
    <3>1. i \in Int
      BY <1>1, <2>3
    <3>2. QED BY <2>2, <2>4, <3>1
  <2>6. i # 1 => e[i - 1] = f[i - 1]
    BY <2>4, <2>5
  <2>7. e[i] = IF i = 1 THEN s[i] ELSE e[i - 1] \o s[i]
    BY <1>6, <2>3
  <2>8. f[i] = IF i = 1 THEN s[i] ELSE f[i - 1] \o s[i]
    BY <1>5, <2>3
  <2> HIDE DEF bad, n
  <2>9. QED BY <2>3, <2>6, <2>7, <2>8
<1>8. QED BY <1>1, <1>4, <1>7

\* Sequences of sequences.
Nested(s) == List(s) /\ \A i \in 1 .. Len(s) : List(s[i])

\* Flattening no lists gives nothing.
LEMMA FlattenNone == FlattenSeq(<<>>) = <<>>
BY DEF FlattenSeq

\* Flattening one more list appends it.
LEMMA FlattenAppend ==
  ASSUME NEW s, Nested(s), NEW x, List(x)
  PROVE  FlattenSeq(Append(s, x)) = FlattenSeq(s) \o x
<1> DEFINE n == Len(s)
           t == Append(s, x)
<1>1. n \in Nat /\ List(s)
  BY ListFacts DEF Nested
<1>2. List(t) /\ Len(t) = n + 1 /\ t[n + 1] = x /\ \A i \in 1 .. n : t[i] = s[i]
  BY <1>1, ListAppend, ZenonT(60)
<1> HIDE DEF t
<1>3. CASE n = 0
  <2> DEFINE f == [i \in 1 .. 1 |-> t[i]]
  <2>1. s = <<>> /\ Len(t) = 1 /\ t[1] = x
    BY <1>1, <1>2, <1>3
  <2>2. f = [i \in 1 .. 1 |-> IF i = 1 THEN t[i] ELSE f[i - 1] \o t[i]]
    OBVIOUS
  <2>3. Flattening(f, Len(t), t) /\ f[Len(t)] = x
    BY <2>1, <2>2 DEF Flattening
  <2> HIDE DEF f
  <2>4. FlattenSeq(t) = x
    <3>1. Len(t) # 0
      BY <2>1
    <3>2. QED BY <1>2, <2>3, <3>1, FlattenedBy
  <2>5. FlattenSeq(s) \o x = x
    BY <2>1, FlattenNone, ConcatEmpty
  <2>6. QED BY <2>4, <2>5 DEF t
<1>4. CASE n # 0
  <2>1. PICK f : Flattening(f, n, s)
    BY <1>1, FlatteningExists
  <2>2. FlattenSeq(s) = f[n]
    BY <1>1, <1>4, <2>1, FlattenedBy
  <2> DEFINE k == n + 1
             h == [i \in 1 .. k |-> IF i <= n THEN f[i] ELSE f[n] \o x]
  <2>3. \A i \in 1 .. n : f[i] = IF i = 1 THEN s[i] ELSE f[i - 1] \o s[i]
    BY <2>1 DEF Flattening
  <2>4. k \in Nat /\ k # 0 /\ k \in 1 .. k /\ ~(k <= n) /\ k # 1 /\ k - 1 = n
    BY <1>1, <1>4
  <2>5. \A i \in 1 .. n : i \in 1 .. k /\ i <= n /\ (i # 1 => i - 1 \in 1 .. k /\ i - 1 <= n)
    BY <1>1
  <2>6. \A i \in 1 .. n : h[i] = IF i = 1 THEN t[i] ELSE h[i - 1] \o t[i]
    <3> SUFFICES ASSUME NEW i \in 1 .. n
                 PROVE  h[i] = IF i = 1 THEN t[i] ELSE h[i - 1] \o t[i]
      OBVIOUS
    <3>1. h[i] = f[i] /\ (i # 1 => h[i - 1] = f[i - 1])
      BY <2>5
    <3>2. t[i] = s[i] /\ f[i] = IF i = 1 THEN s[i] ELSE f[i - 1] \o s[i]
      BY <1>2, <2>3
    <3> HIDE DEF h, n, k
    <3>3. QED BY <3>1, <3>2
  <2>7. h[k] = f[n] \o x /\ h[k - 1] = f[n]
    <3>1. n \in 1 .. k /\ n <= n
      BY <1>1, <1>4
    <3> HIDE DEF n
    <3>2. QED BY <2>4, <3>1
  <2>8. h[k] = IF k = 1 THEN t[k] ELSE h[k - 1] \o t[k]
    <3>1. t[k] = x
      BY <1>2
    <3> HIDE DEF h, k, n
    <3>2. QED BY <2>4, <2>7, <3>1
  <2>9. \A i \in 1 .. k : h[i] = IF i = 1 THEN t[i] ELSE h[i - 1] \o t[i]
    <3>1. \A i \in 1 .. k : i \in 1 .. n \/ i = k
      BY <1>1
    <3> HIDE DEF h, k, n
    <3>2. QED BY <2>6, <2>8, <3>1
  <2>10. h = [i \in 1 .. k |-> h[i]]
    OBVIOUS
  <2> HIDE DEF h
  <2>11. h = [i \in 1 .. k |-> IF i = 1 THEN t[i] ELSE h[i - 1] \o t[i]]
    <3> HIDE DEF k, n
    <3>1. QED BY <2>9, <2>10
  <2>12. Flattening(h, Len(t), t)
    BY <1>2, <2>11 DEF Flattening
  <2>13. FlattenSeq(t) = h[Len(t)]
    <3>1. Len(t) # 0
      BY <1>2, <2>4
    <3>2. QED BY <1>2, <2>12, <3>1, FlattenedBy
  <2>14. FlattenSeq(t) = h[k]
    BY <1>2, <2>13
  <2> HIDE DEF k, n
  <2>15. QED BY <2>2, <2>7, <2>14 DEF t
<1>5. QED BY <1>3, <1>4

\* A sequence is its front and its last element.
LEMMA FrontLast ==
  ASSUME NEW s, List(s), Len(s) # 0
  PROVE  /\ List(Front(s)) /\ Len(Front(s)) = Len(s) - 1
         /\ s = Append(Front(s), Last(s))
         /\ \A i \in 1 .. Len(s) - 1 : Front(s)[i] = s[i]
         /\ Last(s) = s[Len(s)] /\ Len(s) - 1 \in Nat
<1> DEFINE n == Len(s) - 1
           f == First(s, n)
<1>1. n \in Nat /\ n <= Len(s) /\ n + 1 = Len(s) /\ Len(s) \in Nat
  BY ListFacts
<1>2. Front(s) = f /\ Last(s) = s[n + 1]
  BY <1>1 DEF Front, Last, First
<1>3. List(f) /\ Len(f) = n /\ \A i \in 1 .. n : f[i] = s[i]
  <2> HIDE DEF n
  <2>1. QED BY <1>1, ListFirst
<1> HIDE DEF f
<1> DEFINE g == Append(f, Last(s))
<1>4. List(g) /\ Len(g) = n + 1 /\ g[n + 1] = Last(s) /\ \A i \in 1 .. n : g[i] = f[i]
  <2> DEFINE x == Last(s)
  <2> HIDE DEF x
  <2>1. List(f)
    BY <1>3
  <2>2. /\ List(Append(f, x)) /\ Len(Append(f, x)) = Len(f) + 1
        /\ Append(f, x)[Len(f) + 1] = x
        /\ \A i \in 1 .. Len(f) : Append(f, x)[i] = f[i]
    BY <2>1, ListAppend
  <2>3. g = Append(f, x)
    BY DEF x
  <2> HIDE DEF n, g
  <2>4. QED BY <1>3, <2>2, <2>3 DEF x
<1>5. \A i \in 1 .. Len(s) : s[i] = g[i]
  <2> HIDE DEF n, g
  <2>1. \A i \in 1 .. Len(s) : i \in 1 .. n \/ i = n + 1
    BY <1>1
  <2>2. QED BY <1>2, <1>3, <1>4, <2>1
<1> HIDE DEF g
<1>6. s = g
  <2> HIDE DEF n
  <2>1. QED BY <1>1, <1>4, <1>5, ListEqual
<1>7. QED BY <1>1, <1>2, <1>3, <1>6 DEF g

\* Flattening lists gives a list.
LEMMA FlattenList ==
  ASSUME NEW s, Nested(s)
  PROVE  List(FlattenSeq(s))
<1> DEFINE n == Len(s)
<1>1. n \in Nat /\ List(s)
  BY ListFacts DEF Nested
<1>2. CASE n = 0
  <2>1. s = <<>>
    BY <1>1, <1>2
  <2>2. QED BY <2>1, FlattenNone, ListOne
<1>3. CASE n # 0
  <2>1. PICK f : Flattening(f, n, s)
    BY <1>1, FlatteningExists
  <2>2. FlattenSeq(s) = f[n]
    BY <1>1, <1>3, <2>1, FlattenedBy
  <2>3. \A i \in 1 .. n : f[i] = IF i = 1 THEN s[i] ELSE f[i - 1] \o s[i]
    BY <2>1 DEF Flattening
  <2> DEFINE bad == {i \in 1 .. n : ~List(f[i])}
  <2>4. ASSUME bad # {}
        PROVE  FALSE
    <3>1. bad \in SUBSET Nat
      BY <1>1
    <3>2. PICK i \in bad : \A m \in bad : i <= m
      <4> HIDE DEF bad
      <4>1. QED BY <2>4, <3>1, LeastNumber
    <3>3. i \in 1 .. n /\ ~List(f[i]) /\ i \in Int
      BY <1>1, <3>2
    <3>4. i # 1 => i - 1 \in 1 .. n /\ i - 1 < i
      BY <1>1, <3>3
    <3>5. i # 1 => i - 1 \notin bad
      <4> HIDE DEF bad, n
      <4>1. QED BY <3>2, <3>3, <3>4
    <3>6. i # 1 => List(f[i - 1])
      BY <3>4, <3>5
    <3>7. List(s[i])
      BY <3>3 DEF Nested
    <3>8. f[i] = IF i = 1 THEN s[i] ELSE f[i - 1] \o s[i]
      BY <2>3, <3>3
    <3>9. i # 1 => List(f[i - 1] \o s[i])
      BY <3>6, <3>7, ListConcat
    <3> HIDE DEF bad, n
    <3>10. QED BY <3>3, <3>7, <3>8, <3>9
  <2>5. n \in 1 .. n
    BY <1>1, <1>3
  <2>6. QED BY <2>2, <2>4, <2>5
<1>4. QED BY <1>2, <1>3

-----------------------------------------------------------------------------
(* Batches.                                                               *)

\* Batches of the first n rows: none is empty or too large, none was cut short,
\* and in their order they are these rows.
Batched(b, n, rows, length) ==
  /\ Nested(b) /\ \A i \in 1 .. Len(b) : Len(b[i]) # 0
  /\ \A i \in 1 .. Len(b) : Len(b[i]) = 1 \/ Fits(b[i], length)
  /\ \A i \in 1 .. Len(b) : i < Len(b) => ~Fits(Append(b[i], b[i + 1][1]), length)
  /\ FlattenSeq(b) = First(rows, n)
  /\ \A k \in 1 .. n : \E i \in 1 .. Len(b) : \E j \in 1 .. Len(b[i]) : b[i][j] = rows[k]
  /\ \A i \in 1 .. Len(b) : \A j \in 1 .. Len(b[i]) : \E k \in 1 .. n : b[i][j] = rows[k]

\* The first n + 1 elements, from the first n.
LEMMA FirstNext ==
  ASSUME NEW s, List(s), NEW n \in Nat, n + 1 <= Len(s)
  PROVE  First(s, n + 1) = Append(First(s, n), s[n + 1])
<1> DEFINE a == First(s, n)
           k == n + 1
           b == First(s, k)
           c == Append(a, s[k])
<1>1. Len(s) \in Nat /\ n <= Len(s) /\ k \in Nat /\ k <= Len(s) /\ k \in 1 .. k
      /\ \A i \in 1 .. k : i \in 1 .. n \/ i = k
  BY ListFacts
<1>2. List(a) /\ Len(a) = n /\ \A i \in 1 .. n : a[i] = s[i]
  BY <1>1, ListFirst
<1> HIDE DEF a
<1>3. List(b) /\ Len(b) = k /\ \A i \in 1 .. k : b[i] = s[i]
  <2> HIDE DEF k
  <2>1. QED BY <1>1, ListFirst
<1>4. List(c) /\ Len(c) = n + 1 /\ c[n + 1] = s[k] /\ \A i \in 1 .. n : c[i] = a[i]
  <2> DEFINE x == s[k]
  <2> HIDE DEF x
  <2>1. List(a)
    BY <1>2
  <2>2. /\ List(Append(a, x)) /\ Len(Append(a, x)) = Len(a) + 1
        /\ Append(a, x)[Len(a) + 1] = x
        /\ \A i \in 1 .. Len(a) : Append(a, x)[i] = a[i]
    BY <2>1, ListAppend, ZenonT(60)
  <2>3. c = Append(a, x)
    BY DEF x
  <2> HIDE DEF k, c
  <2>4. QED BY <1>2, <2>2, <2>3 DEF x
<1> HIDE DEF b, c
<1>5. \A i \in 1 .. k : b[i] = c[i]
  <2>1. c[k] = s[k]
    BY <1>4
  <2> HIDE DEF k
  <2>2. QED BY <1>1, <1>2, <1>3, <1>4, <2>1
<1>6. Len(b) = Len(c)
  BY <1>3, <1>4
<1>7. b = c
  <2> HIDE DEF k
  <2>1. QED BY <1>3, <1>4, <1>5, <1>6, ListEqual
<1>8. QED BY <1>7 DEF a, b, c

\* One more row keeps the batches sound: none empty, none beyond the limits
\* unless it is a single row, and no row lost.
LEMMA JoinedSound ==
  ASSUME NEW rows, List(rows), NEW length, NEW n \in Nat, n + 1 <= Len(rows),
         NEW b, Batched(b, n, rows, length)
  PROVE  Batched(Joined(b, rows[n + 1], length), n + 1, rows, length)
<1> DEFINE k == n + 1
           r == rows[k]
           m == Len(b)
           c == Joined(b, r, length)
<1>1. /\ List(b) /\ \A i \in 1 .. m : List(b[i]) /\ Len(b[i]) # 0
      /\ m \in Nat
  <2>1. List(b)
    BY DEF Batched, Nested
  <2>2. m \in Nat
    BY <2>1, ListFacts
  <2>3. QED BY <2>1, <2>2 DEF Batched, Nested
<1>2. \A i \in 1 .. m : Len(b[i]) \in Nat \ {0} /\ 1 \in 1 .. Len(b[i])
  BY <1>1, ListFacts
<1>3. List(First(rows, n)) /\ List(First(rows, k)) /\ First(rows, k) = First(rows, n) \o <<r>>
      /\ First(rows, k) = Append(First(rows, n), r)
  <2>1. n <= Len(rows) /\ k \in Nat /\ k <= Len(rows)
    BY ListFacts
  <2>2. List(First(rows, n))
    BY <2>1, ListFirst
  <2>3. List(First(rows, k))
    <3> HIDE DEF k
    <3>1. QED BY <2>1, ListFirst
  <2>4. First(rows, k) = Append(First(rows, n), r)
    BY FirstNext
  <2>5. QED BY <2>2, <2>3, <2>4, ListAppend
<1>4. k \in 1 .. k /\ \A i \in 1 .. k : i \in 1 .. n \/ i = k
  OBVIOUS
<1>5. \A i \in 1 .. n : i \in 1 .. k
  OBVIOUS
<1>6. CASE b # <<>> /\ Fits(Append(Last(b), r), length)
  <2> DEFINE f == Front(b)
             l == Last(b)
             x == Append(l, r)
             p == m - 1
  <2>1. m # 0
    BY <1>1, <1>6
  <2>2. p \in Nat /\ p + 1 = m /\ m \in 1 .. m /\ ~(m < m) /\ \A i \in 1 .. m : i \in 1 .. p \/ i = m
    BY <1>1, <2>1
  <2>3. List(f) /\ Len(f) = p /\ b = Append(f, l) /\ (\A i \in 1 .. p : f[i] = b[i]) /\ l = b[m]
    BY <1>1, <2>1, FrontLast
  <2>4. c = Append(f, x)
    BY <1>6 DEF Joined
  <2> HIDE DEF f, l
  <2>5. List(l) /\ Len(l) \in Nat /\ Len(l) # 0
    BY <1>1, <1>2, <2>2, <2>3
  <2>6. /\ List(x) /\ Len(x) = Len(l) + 1 /\ x = l \o <<r>> /\ x[Len(l) + 1] = r
        /\ \A j \in 1 .. Len(l) : x[j] = l[j]
    BY <2>5, ListAppend
  <2> HIDE DEF x, c
  <2>7. List(c) /\ Len(c) = p + 1 /\ c[p + 1] = x /\ (\A i \in 1 .. p : c[i] = f[i])
    <3> HIDE DEF p
    <3>1. Len(f) = p /\ List(f)
      BY <2>3
    <3>2. /\ List(Append(f, x)) /\ Len(Append(f, x)) = Len(f) + 1 /\ Append(f, x)[Len(f) + 1] = x
          /\ \A i \in 1 .. Len(f) : Append(f, x)[i] = f[i]
      BY <3>1, ListAppend, ZenonT(60)
    <3>3. QED BY <2>4, <3>1, <3>2
  <2>8. Len(c) = m /\ c[m] = x /\ \A i \in 1 .. p : c[i] = b[i]
    BY <2>2, <2>3, <2>7
  <2> HIDE DEF m, p, r, k
  <2>9. \A i \in 1 .. m : i \in 1 .. p => c[i] = b[i]
    BY <2>8
  <2>10. Nested(c) /\ \A i \in 1 .. Len(c) : Len(c[i]) # 0
    <3>1. Len(x) # 0
      BY <2>5, <2>6
    <3>2. \A i \in 1 .. m : List(c[i]) /\ Len(c[i]) # 0
      BY <1>1, <2>2, <2>6, <2>8, <2>9, <3>1
    <3>3. QED BY <2>7, <2>8, <3>2 DEF Nested
  <2>11. \A i \in 1 .. Len(c) : Len(c[i]) = 1 \/ Fits(c[i], length)
    <3>1. \A i \in 1 .. m : Len(b[i]) = 1 \/ Fits(b[i], length)
      BY DEF Batched, m
    <3>2. Fits(x, length)
      BY <1>6 DEF x, l
    <3>3. QED BY <2>2, <2>8, <2>9, <3>1, <3>2
  <2>12. \A i \in 1 .. Len(c) : i < Len(c) => ~Fits(Append(c[i], c[i + 1][1]), length)
    <3> SUFFICES ASSUME NEW i \in 1 .. m, i < m
                 PROVE  ~Fits(Append(c[i], c[i + 1][1]), length)
      BY <2>8
    <3>1. ~Fits(Append(b[i], b[i + 1][1]), length)
      BY DEF Batched, m
    <3>2. i \in 1 .. p /\ i + 1 \in 1 .. m
      BY <1>1, <2>2
    <3>3. c[i] = b[i]
      BY <2>8, <3>2
    <3>4. c[i + 1][1] = b[i + 1][1]
      <4>1. CASE i + 1 \in 1 .. p
        BY <2>8, <4>1
      <4>2. CASE i + 1 = m
        <5>1. 1 \in 1 .. Len(l)
          BY <2>5
        <5>2. x[1] = l[1]
          BY <2>6, <5>1
        <5>3. QED BY <2>3, <2>8, <4>2, <5>2
      <4>3. QED BY <2>2, <3>2, <4>1, <4>2
    <3>5. QED BY <3>1, <3>3, <3>4
  <2>13. FlattenSeq(c) = First(rows, k)
    <3>1. Nested(f)
      BY <1>1, <2>2, <2>3 DEF Nested
    <3>2. FlattenSeq(b) = FlattenSeq(f) \o l
      BY <2>3, <2>5, <3>1, FlattenAppend
    <3>3. FlattenSeq(c) = FlattenSeq(f) \o x
      BY <2>4, <2>6, <3>1, FlattenAppend
    <3>4. List(FlattenSeq(f)) /\ List(<<r>>)
      BY <3>1, FlattenList, ListOne
    <3>5. (FlattenSeq(f) \o l) \o <<r>> = FlattenSeq(f) \o (l \o <<r>>)
      BY <2>5, <3>4, ListAssociative, SMTT(30)
    <3>6. FlattenSeq(b) = First(rows, n)
      BY DEF Batched
    <3>7. QED BY <1>3, <2>6, <3>2, <3>3, <3>5, <3>6
  <2>14. \A q \in 1 .. k : \E i \in 1 .. Len(c) : \E j \in 1 .. Len(c[i]) : c[i][j] = rows[q]
    <3> SUFFICES ASSUME NEW q \in 1 .. k
                 PROVE  \E i \in 1 .. m : \E j \in 1 .. Len(c[i]) : c[i][j] = rows[q]
      BY <2>8
    <3>1. CASE q = k
      <4>1. Len(l) + 1 \in 1 .. Len(x) /\ x[Len(l) + 1] = rows[q]
        BY <2>5, <2>6, <3>1 DEF r
      <4>2. m \in 1 .. m /\ c[m] = x
        BY <2>2, <2>8
      <4>3. QED BY <4>1, <4>2
    <3>2. CASE q \in 1 .. n
      <4>0. PICK i \in 1 .. m : \E j \in 1 .. Len(b[i]) : b[i][j] = rows[q]
        BY <3>2 DEF Batched, m
      <4>1. PICK j \in 1 .. Len(b[i]) : b[i][j] = rows[q]
        BY <4>0
      <4>2. CASE i \in 1 .. p
        BY <2>8, <4>1, <4>2
      <4>3. CASE i = m
        <5>1. j \in 1 .. Len(l) /\ l[j] = rows[q]
          BY <2>3, <4>1, <4>3
        <5>2. j \in 1 .. Len(x) /\ x[j] = rows[q]
          BY <2>5, <2>6, <5>1
        <5>3. QED BY <2>2, <2>8, <5>2
      <4>4. QED BY <2>2, <4>2, <4>3
    <3>3. QED BY <1>4, <3>1, <3>2 DEF k
  <2>15. \A i \in 1 .. Len(c) : \A j \in 1 .. Len(c[i]) : \E q \in 1 .. k : c[i][j] = rows[q]
    <3> SUFFICES ASSUME NEW i \in 1 .. m, NEW j \in 1 .. Len(c[i])
                 PROVE  \E q \in 1 .. k : c[i][j] = rows[q]
      BY <2>8
    <3>1. \A i0 \in 1 .. m : \A j0 \in 1 .. Len(b[i0]) : \E q \in 1 .. k : b[i0][j0] = rows[q]
      BY <1>5 DEF Batched, m, k
    <3>2. CASE i \in 1 .. p
      BY <2>8, <3>1, <3>2, SMTT(30)
    <3>3. CASE i = m
      <4>1. j \in 1 .. Len(l) + 1 /\ c[i][j] = x[j]
        BY <2>6, <2>8, <3>3
      <4>2. CASE j \in 1 .. Len(l)
        BY <2>2, <2>3, <2>6, <3>1, <4>1, <4>2
      <4>3. CASE j = Len(l) + 1
        BY <1>4, <2>6, <4>1, <4>3 DEF r, k
      <4>4. QED BY <2>5, <4>1, <4>2, <4>3
    <3>4. QED BY <2>2, <3>2, <3>3
  <2>16. Batched(c, k, rows, length)
    BY <2>10, <2>11, <2>12, <2>13, <2>14, <2>15 DEF Batched
  <2>17. QED BY <2>16 DEF c, k, r
<1>7. CASE ~ (b # <<>> /\ Fits(Append(Last(b), r), length))
  <2> DEFINE x == <<r>>
             p == m + 1
  <2>1. c = Append(b, x)
    BY <1>7 DEF Joined
  <2>2. List(x) /\ Len(x) = 1 /\ x[1] = r
    BY ListOne
  <2> HIDE DEF x
  <2>3. List(c) /\ Len(c) = m + 1 /\ c[m + 1] = x /\ \A i \in 1 .. m : c[i] = b[i]
    <3>1. /\ List(Append(b, x)) /\ Len(Append(b, x)) = Len(b) + 1 /\ Append(b, x)[Len(b) + 1] = x
          /\ \A i \in 1 .. Len(b) : Append(b, x)[i] = b[i]
      BY <1>1, ListAppend
    <3>2. QED BY <2>1, <3>1
  <2> HIDE DEF c
  <2>4. p \in Nat /\ p \in 1 .. p /\ ~(p < p) /\ (\A i \in 1 .. p : i \in 1 .. m \/ i = p) /\ \A i \in 1 .. m : i \in 1 .. p
    BY <1>1
  <2>5. Len(c) = p /\ c[p] = x
    BY <2>3
  <2> HIDE DEF p
  <2>6. Nested(c) /\ \A i \in 1 .. Len(c) : Len(c[i]) # 0
    <3>1. \A i \in 1 .. p : List(c[i]) /\ Len(c[i]) # 0
      <4> SUFFICES ASSUME NEW i \in 1 .. p
                   PROVE  List(c[i]) /\ Len(c[i]) # 0
        OBVIOUS
      <4>1. CASE i \in 1 .. m
        BY <1>1, <2>3, <4>1
      <4>2. CASE i = p
        <5>1. Len(x) # 0
          BY <2>2
        <5>2. QED BY <2>2, <2>5, <4>2, <5>1
      <4>3. QED BY <2>4, <4>1, <4>2
    <3>2. QED BY <2>3, <2>5, <3>1 DEF Nested
  <2>7. \A i \in 1 .. Len(c) : Len(c[i]) = 1 \/ Fits(c[i], length)
    <3>1. \A i \in 1 .. m : Len(b[i]) = 1 \/ Fits(b[i], length)
      BY DEF Batched
    <3> HIDE DEF m
    <3>2. QED BY <2>2, <2>3, <2>4, <2>5, <3>1
  <2>8. \A i \in 1 .. Len(c) : i < Len(c) => ~Fits(Append(c[i], c[i + 1][1]), length)
    <3> SUFFICES ASSUME NEW i \in 1 .. p, i < p
                 PROVE  ~Fits(Append(c[i], c[i + 1][1]), length)
      BY <2>5
    <3>1. i \in 1 .. m
      BY <1>1, <2>4
    <3>2. c[i] = b[i]
      BY <2>3, <3>1
    <3>3. CASE i = m
      <4>1. i + 1 = p
        BY <3>3 DEF p
      <4>2. c[i + 1][1] = r
        BY <2>2, <2>5, <4>1
      <4>3. b # <<>> /\ Last(b) = b[i]
        <5>1. m # 0
          BY <1>1, <3>1
        <5>2. QED BY <1>1, <3>3, <5>1, FrontLast
      <4>4. ~Fits(Append(b[i], r), length)
        BY <1>7, <4>3
      <4>5. QED BY <3>2, <4>2, <4>4
    <3>4. CASE i # m
      <4>1. i < m /\ i + 1 \in 1 .. m
        BY <1>1, <3>1, <3>4
      <4>2. c[i + 1] = b[i + 1]
        BY <2>3, <4>1
      <4>3. ~Fits(Append(b[i], b[i + 1][1]), length)
        BY <3>1, <4>1 DEF Batched
      <4>4. QED BY <3>2, <4>2, <4>3
    <3>5. QED BY <3>3, <3>4
  <2>9. FlattenSeq(c) = First(rows, k)
    <3>1. Nested(b)
      BY DEF Batched
    <3>2. FlattenSeq(c) = FlattenSeq(b) \o x
      BY <2>1, <2>2, <3>1, FlattenAppend
    <3>3. FlattenSeq(b) = First(rows, n)
      BY DEF Batched
    <3>4. QED BY <1>3, <3>2, <3>3 DEF x
  <2>10. \A q \in 1 .. k : \E i \in 1 .. Len(c) : \E j \in 1 .. Len(c[i]) : c[i][j] = rows[q]
    <3> SUFFICES ASSUME NEW q \in 1 .. k
                 PROVE  \E i \in 1 .. p : \E j \in 1 .. Len(c[i]) : c[i][j] = rows[q]
      BY <2>5
    <3>1. CASE q = k
      <4>1. 1 \in 1 .. Len(x) /\ x[1] = rows[q]
        BY <2>2, <3>1
      <4>2. QED BY <2>4, <2>5, <4>1
    <3>2. CASE q \in 1 .. n
      <4>0. PICK i \in 1 .. m : \E j \in 1 .. Len(b[i]) : b[i][j] = rows[q]
        BY <3>2 DEF Batched
      <4>1. PICK j \in 1 .. Len(b[i]) : b[i][j] = rows[q]
        BY <4>0
      <4> HIDE DEF m
      <4>2. QED BY <2>3, <2>4, <4>1
    <3>3. QED BY <1>4, <3>1, <3>2
  <2>11. \A i \in 1 .. Len(c) : \A j \in 1 .. Len(c[i]) : \E q \in 1 .. k : c[i][j] = rows[q]
    <3> SUFFICES ASSUME NEW i \in 1 .. p, NEW j \in 1 .. Len(c[i])
                 PROVE  \E q \in 1 .. k : c[i][j] = rows[q]
      BY <2>5
    <3>1. \A i0 \in 1 .. m : \A j0 \in 1 .. Len(b[i0]) : \E q \in 1 .. k : b[i0][j0] = rows[q]
      BY <1>5 DEF Batched
    <3> HIDE DEF m, k
    <3>2. CASE i \in 1 .. m
      BY <2>3, <3>1, <3>2
    <3>3. CASE i = p
      <4>1. j = 1 /\ c[i][j] = r
        <5>1. c[i] = x
          BY <2>5, <3>3
        <5>2. j \in 1 .. Len(x)
          BY <5>1
        <5>3. j = 1
          BY <2>2, <5>2
        <5>4. QED BY <2>2, <5>1, <5>3
      <4>2. QED BY <1>4, <4>1 DEF k
    <3>4. QED BY <2>4, <3>2, <3>3
  <2> HIDE DEF k, r
  <2>12. Batched(c, k, rows, length)
    BY <2>6, <2>7, <2>8, <2>9, <2>10, <2>11 DEF Batched
  <2>13. QED BY <2>12 DEF c, k, r
<1>8. QED BY <1>6, <1>7

\* The recursion of Batches.
Batching(f, n, rows, length) ==
  f = [k \in 0 .. n |-> IF k = 0 THEN <<>> ELSE Joined(f[k - 1], rows[k], length)]

\* The recursion of Batches has a solution, of any length.
LEMMA BatchingExists ==
  ASSUME NEW rows, NEW length, NEW n \in Nat
  PROVE  \E f : Batching(f, n, rows, length)
<1> DEFINE bad == {k \in Nat : ~ \E f : Batching(f, k, rows, length)}
<1>1. ASSUME bad # {}
      PROVE  FALSE
  <2>1. bad \in SUBSET Nat
    OBVIOUS
  <2>2. PICK k \in bad : \A m \in bad : k <= m
    <3> HIDE DEF bad
    <3>1. QED BY <1>1, <2>1, LeastNumber
  <2>3. k \in Nat /\ ~ \E f : Batching(f, k, rows, length)
    BY <2>2
  <2>4. k # 0
    <3> DEFINE e == [i \in 0 .. 0 |-> <<>>]
    <3>1. e = [i \in 0 .. 0 |-> IF i = 0 THEN <<>> ELSE Joined(e[i - 1], rows[i], length)]
      OBVIOUS
    <3>2. Batching(e, 0, rows, length)
      BY <3>1 DEF Batching
    <3>3. QED BY <2>3, <3>2
  <2>5. k - 1 \in Nat /\ k - 1 \notin bad
    <3> HIDE DEF bad
    <3>1. QED BY <2>2, <2>3, <2>4
  <2>6. PICK f : Batching(f, k - 1, rows, length)
    BY <2>5
  <2> DEFINE Part(i, g) == IF i = 0 THEN <<>> ELSE Joined(g[i - 1], rows[i], length)
             h == [i \in 0 .. k |-> IF i < k THEN f[i] ELSE Part(k, f)]
  <2>7. \A i \in 0 .. k : Part(i, h) = Part(i, f)
    <3> SUFFICES ASSUME NEW i \in 0 .. k
                 PROVE  Part(i, h) = Part(i, f)
      OBVIOUS
    <3>1. i # 0 => i - 1 \in 0 .. k /\ i - 1 < k
      BY <2>3
    <3>2. i # 0 => h[i - 1] = f[i - 1]
      BY <3>1
    <3> HIDE DEF h
    <3>3. QED BY <3>2
  <2>8. \A i \in 0 .. k : i < k => f[i] = Part(i, f)
    <3> SUFFICES ASSUME NEW i \in 0 .. k, i < k
                 PROVE  f[i] = Part(i, f)
      OBVIOUS
    <3>1. i \in 0 .. k - 1
      BY <2>3
    <3>2. f = [l \in 0 .. k - 1 |-> Part(l, f)]
      BY <2>6 DEF Batching
    <3> HIDE DEF Part
    <3>3. QED BY <3>1, <3>2
  <2>9. \A i \in 0 .. k : h[i] = Part(i, h)
    <3> SUFFICES ASSUME NEW i \in 0 .. k
                 PROVE  h[i] = Part(i, h)
      OBVIOUS
    <3>1. h[i] = IF i < k THEN f[i] ELSE Part(k, f)
      OBVIOUS
    <3>2. ~(i < k) => i = k
      BY <2>3
    <3> HIDE DEF h, Part
    <3>3. QED BY <2>7, <2>8, <3>1, <3>2
  <2>10. h = [i \in 0 .. k |-> h[i]]
    OBVIOUS
  <2>11. h = [i \in 0 .. k |-> Part(i, h)]
    <3> HIDE DEF h, Part
    <3>1. QED BY <2>9, <2>10
  <2>12. Batching(h, k, rows, length)
    BY <2>11 DEF Batching
  <2>13. QED BY <2>3, <2>12
<1>2. QED BY <1>1

\* Whatever fits where.
LEMMA BatchesSound ==
  ASSUME NEW rows, List(rows), NEW length
  PROVE  Batched(Batches(rows, length), Len(rows), rows, length)
<1> DEFINE n == Len(rows)
           e == CHOOSE f : f = [k \in 0 .. Len(rows) |->
                                  IF k = 0 THEN <<>> ELSE Joined(f[k - 1], rows[k], length)]
           bad == {k \in 0 .. n : ~Batched(e[k], k, rows, length)}
<1>1. n \in Nat /\ 0 \in 0 .. n /\ n \in 0 .. n
  BY ListFacts
<1>2. PICK f : Batching(f, n, rows, length)
  BY <1>1, BatchingExists
<1>3. f = [k \in 0 .. Len(rows) |-> IF k = 0 THEN <<>> ELSE Joined(f[k - 1], rows[k], length)]
  BY <1>2 DEF Batching
<1>4. e = [k \in 0 .. Len(rows) |-> IF k = 0 THEN <<>> ELSE Joined(e[k - 1], rows[k], length)]
  BY <1>3
<1>5. Batches(rows, length) = e[n]
  BY Zenon DEF Batches
<1> HIDE DEF e
<1>6. \A k \in 0 .. n : e[k] = IF k = 0 THEN <<>> ELSE Joined(e[k - 1], rows[k], length)
  BY <1>4
<1>7. Batched(e[0], 0, rows, length)
  <2> DEFINE none == <<>>
  <2>1. e[0] = none /\ List(none) /\ Len(none) = 0
    BY <1>1, <1>6, ListOne
  <2>2. FlattenSeq(none) = none /\ First(rows, 0) = none
    BY FlattenNone DEF First
  <2> HIDE DEF none
  <2>3. QED BY <2>1, <2>2 DEF Batched, Nested
<1>8. ASSUME bad # {}
      PROVE  FALSE
  <2>1. bad \in SUBSET Nat
    BY <1>1
  <2>2. PICK k \in bad : \A q \in bad : k <= q
    <3> HIDE DEF bad
    <3>1. QED BY <1>8, <2>1, LeastNumber
  <2>3. k \in 0 .. n /\ ~Batched(e[k], k, rows, length) /\ k \in Nat
    BY <1>1, <2>2
  <2>4. k # 0
    BY <1>7, <2>3
  <2> DEFINE q == k - 1
  <2>5. q \in Nat /\ q \in 0 .. n /\ q + 1 = k /\ q + 1 <= n /\ ~(k <= q)
    BY <1>1, <2>3, <2>4
  <2>6. q \notin bad
    <3> HIDE DEF bad, n, q
    <3>1. QED BY <2>2, <2>5
  <2>7. Batched(e[q], q, rows, length)
    BY <2>5, <2>6
  <2>8. e[k] = Joined(e[q], rows[k], length)
    BY <1>6, <2>3, <2>4
  <2> HIDE DEF q, bad
  <2> DEFINE b == e[q]
  <2>9. Batched(b, q, rows, length)
    BY <2>7
  <2> HIDE DEF b
  <2>10. Batched(Joined(b, rows[q + 1], length), q + 1, rows, length)
    BY <2>5, <2>9, JoinedSound
  <2>11. QED BY <2>3, <2>5, <2>8, <2>10 DEF b
<1>9. QED BY <1>1, <1>5, <1>8

-----------------------------------------------------------------------------
(* Calls have every row.                                                  *)

\* The maximum of a finite set of integers is one of them and bounds them.
LEMMA FiniteMax ==
  ASSUME NEW S \in SUBSET Int, IsFiniteSet(S), S # {}
  PROVE  Max(S) \in S /\ \A y \in S : y <= Max(S)
<1> DEFINE Top(s) == \E x \in s : \A y \in s : x >= y
           bad == {s \in SUBSET S : s # {} /\ ~Top(s)}
<1>1. ASSUME bad # {}
      PROVE  FALSE
  <2>1. bad \in SUBSET (SUBSET S)
    OBVIOUS
  <2>2. PICK s \in bad : \A x \in s : s \ {x} \notin bad
    <3> HIDE DEF bad
    <3>1. QED BY <1>1, <2>1, SmallestSubset
  <2>3. s \in SUBSET S /\ s # {} /\ ~Top(s)
    BY <2>2
  <2>4. PICK x \in s : TRUE
    BY <2>3
  <2>5. x \in Int /\ s \in SUBSET Int
    BY <2>3
  <2>6. CASE s \ {x} = {}
    <3>1. \A y \in s : y = x
      BY <2>6
    <3>2. \A y \in s : x >= y
      BY <2>5, <3>1
    <3>3. QED BY <2>3, <3>2
  <2>7. CASE s \ {x} # {}
    <3>1. s \ {x} \in SUBSET S /\ s \ {x} \notin bad
      BY <2>2, <2>3
    <3>2. Top(s \ {x})
      BY <2>7, <3>1
    <3>3. PICK z \in s \ {x} : \A y \in s \ {x} : z >= y
      BY <3>2
    <3>4. z \in Int /\ z \in s
      BY <2>5
    <3>5. CASE x >= z
      <4>1. ASSUME NEW y \in s PROVE x >= y
        <5>1. y \in Int /\ (y = x \/ z >= y)
          BY <2>5, <3>3
        <5>2. QED BY <2>5, <3>4, <3>5, <5>1
      <4>2. QED BY <2>3, <4>1
    <3>6. CASE ~(x >= z)
      <4>1. ASSUME NEW y \in s PROVE z >= y
        <5>1. y \in Int /\ (y = x \/ z >= y)
          BY <2>5, <3>3
        <5>2. QED BY <2>5, <3>4, <3>6, <5>1
      <4>2. QED BY <2>3, <3>4, <4>1
    <3>7. QED BY <3>5, <3>6
  <2>8. QED BY <2>6, <2>7
<1>2. S \notin bad
  BY <1>1
<1>3. Top(S)
  BY <1>2
<1>4. Max(S) \in S /\ \A y \in S : Max(S) >= y
  BY <1>3 DEF Max
<1>5. QED BY <1>4

\* The longest row of a call has a length.
LEMMA LongestType ==
  ASSUME NEW rows \in Seq(Requests), rows # <<>>, NEW length, \A r \in ToSet(rows) : length[r] \in Nat
  PROVE  Longest(rows, length) \in Int
<1> DEFINE S == {length[r] : r \in ToSet(rows)}
<1>1. ToSet(rows) \in SUBSET Requests /\ ToSet(rows) # {}
  <2>1. \A i \in DOMAIN rows : rows[i] \in Requests
    OBVIOUS
  <2>2. 1 \in DOMAIN rows
    OBVIOUS
  <2>3. QED BY <2>1, <2>2 DEF ToSet
<1>2. IsFiniteSet(ToSet(rows))
  BY <1>1, ExecutionAssumption, FS_Subset DEF ExecutionAssumption
<1>3. IsFiniteSet(S)
  <2> DEFINE R == ToSet(rows)
             f == [x \in R |-> length[x]]
  <2>1. f \in Surjection(R, S)
    BY DEF Surjection
  <2> HIDE DEF f, S, R
  <2>2. QED BY <1>2, <2>1, FS_Surjection DEF R
<1>4. S \in SUBSET Int /\ S # {}
  BY <1>1
<1> HIDE DEF S
<1>5. Max(S) \in S
  BY <1>3, <1>4, FiniteMax
<1>6. QED BY <1>4, <1>5 DEF Longest, S

\* Every row has its call.
Covering(calls, R) ==
  /\ List(calls)
  /\ \A i \in 1 .. Len(calls) : calls[i] \in Seq(Requests)
  /\ \A r \in R : \E i \in 1 .. Len(calls) : r \in ToSet(calls[i])

\* The call of a row that the calls cover has that row.
LEMMA CallFacts ==
  ASSUME NEW calls, NEW R, Covering(calls, R), NEW r \in R
  PROVE  CallOf(r, calls) \in Seq(Requests) /\ CallOf(r, calls) # <<>> /\ r \in ToSet(CallOf(r, calls))
<1>1. DOMAIN calls = 1 .. Len(calls)
  BY ListFacts DEF Covering
<1> DEFINE i == CHOOSE i \in DOMAIN calls : r \in ToSet(calls[i])
<1>2. i \in DOMAIN calls /\ r \in ToSet(calls[i])
  BY <1>1 DEF Covering
<1>3. CallOf(r, calls) = calls[i]
  BY DEF CallOf
<1> HIDE DEF i
<1>4. calls[i] \in Seq(Requests) /\ r \in ToSet(calls[i])
  BY <1>1, <1>2 DEF Covering
<1>5. calls[i] # <<>>
  BY <1>4 DEF ToSet
<1>6. QED BY <1>3, <1>4, <1>5

\* Calls for some rows and calls for others are calls for both.
LEMMA CoveringConcat ==
  ASSUME NEW a, NEW b, NEW R, NEW S, Covering(a, R), Covering(b, S)
  PROVE  Covering(a \o b, R \cup S)
<1> DEFINE c == a \o b
           m == Len(a)
           n == Len(b)
<1>1. List(a) /\ List(b) /\ m \in Nat /\ n \in Nat
  BY ListFacts DEF Covering
<1>2. List(c) /\ Len(c) = m + n /\ \A i \in 1 .. m + n : c[i] = IF i <= m THEN a[i] ELSE b[i - m]
  BY <1>1, ListConcat
<1> HIDE DEF c
<1>3. \A i \in 1 .. m + n : IF i <= m THEN i \in 1 .. m ELSE i - m \in 1 .. n
  BY <1>1
<1>4. \A i \in 1 .. m : i \in 1 .. m + n /\ i <= m
  BY <1>1
<1>5. \A i \in 1 .. n : m + i \in 1 .. m + n /\ ~(m + i <= m) /\ (m + i) - m = i
  BY <1>1
<1> DEFINE l == m + n
<1>6. /\ Len(c) = l /\ \A i \in 1 .. l : c[i] = IF i <= m THEN a[i] ELSE b[i - m]
      /\ \A i \in 1 .. l : IF i <= m THEN i \in 1 .. m ELSE i - m \in 1 .. n
      /\ \A i \in 1 .. m : i \in 1 .. l /\ i <= m
  BY <1>2, <1>3, <1>4
<1>7. \A i \in 1 .. m : c[i] = a[i] /\ i \in 1 .. l
  <2> HIDE DEF l, m, n
  <2>1. QED BY <1>6
<1>8. \A i \in 1 .. n : c[m + i] = b[i] /\ m + i \in 1 .. l
  BY <1>5, <1>6
<1> HIDE DEF l, m, n
<1>9. \A i \in 1 .. l : c[i] \in Seq(Requests)
  BY <1>6 DEF Covering, m, n
<1>10. \A r \in R : \E i \in 1 .. l : r \in ToSet(c[i])
  BY <1>7 DEF Covering, m
<1>11. \A r \in S : \E i \in 1 .. l : r \in ToSet(c[i])
  <2> SUFFICES ASSUME NEW r \in S
               PROVE  \E i \in 1 .. l : r \in ToSet(c[i])
    OBVIOUS
  <2>1. PICK i \in 1 .. n : r \in ToSet(b[i])
    BY DEF Covering, n
  <2> DEFINE j == m + i
  <2>2. j \in 1 .. l /\ c[j] = b[i]
    BY <1>8
  <2> HIDE DEF j
  <2>3. QED BY <2>1, <2>2
<1>12. Covering(c, R \cup S)
  BY <1>2, <1>6, <1>9, <1>10, <1>11 DEF Covering
<1>13. QED BY <1>12 DEF c

\* One call per row has every row.
LEMMA SinglesCovering ==
  ASSUME NEW rows \in Seq(Requests)
  PROVE  Covering(Singles(rows), ToSet(rows))
<1> DEFINE s == Singles(rows)
           n == Len(rows)
<1>1. n \in Nat /\ DOMAIN rows = 1 .. n /\ \A i \in 1 .. n : rows[i] \in Requests
  OBVIOUS
<1>2. s = [i \in 1 .. n |-> <<rows[i]>>]
  BY <1>1 DEF Singles
<1>3. s = [i \in 1 .. n |-> s[i]] /\ \A i \in 1 .. n : s[i] = <<rows[i]>>
  BY <1>2
<1> HIDE DEF s
<1>4. List(s) /\ Len(s) = n
  BY <1>1, <1>3, ListMade
<1>5. ASSUME NEW i \in 1 .. n
      PROVE  s[i] \in Seq(Requests)
  <2>1. rows[i] \in Requests /\ s[i] = <<rows[i]>>
    BY <1>1, <1>3
  <2> DEFINE x == rows[i]
  <2>2. x \in Requests /\ s[i] = <<x>>
    BY <2>1
  <2> HIDE DEF x
  <2>3. <<x>> \in Seq(Requests)
    BY <2>2
  <2>4. QED BY <2>2, <2>3
<1>6. ASSUME NEW r \in ToSet(rows)
      PROVE  \E i \in 1 .. n : r \in ToSet(s[i])
  <2>1. PICK i \in 1 .. n : r = rows[i]
    BY <1>1 DEF ToSet
  <2>2. s[i] = <<r>>
    BY <1>3, <2>1
  <2>3. r \in ToSet(<<r>>)
    BY DEF ToSet
  <2>4. QED BY <2>2, <2>3
<1>7. Covering(s, ToSet(rows))
  BY <1>4, <1>5, <1>6 DEF Covering
<1>8. QED BY <1>7 DEF s

\* The batches have every row.
LEMMA BatchesCovering ==
  ASSUME NEW rows \in Seq(Requests), NEW length
  PROVE  Covering(Batches(rows, length), ToSet(rows))
<1> DEFINE b == Batches(rows, length)
           n == Len(rows)
<1>1. n \in Nat /\ DOMAIN rows = 1 .. n /\ (\A i \in 1 .. n : rows[i] \in Requests) /\ List(rows)
  BY DEF List
<1>2. Batched(b, n, rows, length)
  BY <1>1, BatchesSound
<1> HIDE DEF b
<1>3. List(b) /\ \A i \in 1 .. Len(b) : List(b[i])
  BY <1>2 DEF Batched, Nested
<1>4. ASSUME NEW i \in 1 .. Len(b)
      PROVE  b[i] \in Seq(Requests)
  <2> DEFINE x == b[i]
  <2>1. List(x)
    BY <1>3
  <2>2. \A j \in 1 .. Len(x) : \E k \in 1 .. n : x[j] = rows[k]
    BY <1>2 DEF Batched
  <2> HIDE DEF x
  <2>3. \A j \in 1 .. Len(x) : x[j] \in Requests
    BY <1>1, <2>2
  <2>4. Len(x) \in Nat /\ x = [j \in 1 .. Len(x) |-> x[j]]
    BY <2>1, ListFacts
  <2> DEFINE l == Len(x)
  <2>5. x \in [1 .. l -> Requests] /\ l \in Nat
    BY <2>3, <2>4
  <2> HIDE DEF l
  <2>6. x \in Seq(Requests)
    BY <2>5
  <2>7. QED BY <2>6 DEF x
<1>5. ASSUME NEW r \in ToSet(rows)
      PROVE  \E i \in 1 .. Len(b) : r \in ToSet(b[i])
  <2>1. PICK k \in 1 .. n : r = rows[k]
    BY <1>1 DEF ToSet
  <2>2. PICK i \in 1 .. Len(b) : \E j \in 1 .. Len(b[i]) : b[i][j] = r
    BY <1>2, <2>1 DEF Batched
  <2>3. DOMAIN b[i] = 1 .. Len(b[i])
    BY <1>3, ListFacts
  <2>4. r \in ToSet(b[i])
    BY <2>2, <2>3 DEF ToSet
  <2>5. QED BY <2>4
<1>6. Covering(b, ToSet(rows))
  BY <1>3, <1>4, <1>5 DEF Covering
<1>7. QED BY <1>6 DEF b

\* The rows chosen out of a call's are those of the set, each as often as before.
LEMMA ThoseFacts ==
  ASSUME NEW rows \in Seq(Requests), NEW S
  PROVE  /\ Those(rows, S) \in Seq(Requests)
         /\ ToSet(Those(rows, S)) = ToSet(rows) \cap S
         /\ (\A i, j \in DOMAIN rows : rows[i] = rows[j] => i = j)
              => \A i, j \in DOMAIN Those(rows, S) : Those(rows, S)[i] = Those(rows, S)[j] => i = j
<1> DEFINE chosen == {i \in DOMAIN rows : rows[i] \in S}
           t == Subsequence(rows, chosen)
<1>1. Those(rows, S) = t
  BY DEF Those
<1>2. chosen \in SUBSET DOMAIN rows /\ \A i \in DOMAIN rows : i \in chosen <=> rows[i] \in S
  OBVIOUS
<1> HIDE DEF chosen
<1>3. /\ t \in Seq(Requests)
      /\ \A k \in DOMAIN t : \E i \in chosen : t[k] = rows[i]
      /\ \A i \in chosen : \E k \in DOMAIN t : t[k] = rows[i]
      /\ (\A i, j \in chosen : rows[i] = rows[j] => i = j)
           => \A i, j \in DOMAIN t : t[i] = t[j] => i = j
  BY <1>2, SubsequenceElements
<1> HIDE DEF t
<1>4. ToSet(t) = ToSet(rows) \cap S
  <2>1. ASSUME NEW r \in ToSet(t) PROVE r \in ToSet(rows) \cap S
    <3>1. PICK k \in DOMAIN t : r = t[k]
      BY DEF ToSet
    <3>2. PICK i \in chosen : t[k] = rows[i]
      BY <1>3
    <3>3. i \in DOMAIN rows /\ rows[i] \in S
      BY <1>2
    <3>4. QED BY <3>1, <3>2, <3>3 DEF ToSet
  <2>2. ASSUME NEW r \in ToSet(rows) \cap S PROVE r \in ToSet(t)
    <3>1. PICK i \in DOMAIN rows : r = rows[i]
      BY DEF ToSet
    <3>2. i \in chosen
      BY <1>2, <3>1
    <3>3. PICK k \in DOMAIN t : t[k] = rows[i]
      BY <1>3, <3>2
    <3>4. QED BY <3>1, <3>3 DEF ToSet
  <2>3. QED BY <2>1, <2>2
<1>5. QED BY <1>1, <1>2, <1>3, <1>4

-----------------------------------------------------------------------------
(* Whole blocks of a prompt.                                              *)

\* Division by a positive number.
LEMMA Division ==
  ASSUME NEW n \in Nat, NEW k \in Nat \ {0}
  PROVE  /\ n \div k \in Nat /\ (n \div k) * k <= n
         /\ n % k \in 0 .. k - 1 /\ n = (n \div k) * k + (n % k)
         /\ n < (n \div k) * k + k
<1>1. n \div k \in Int /\ n % k \in 0 .. k - 1
  OBVIOUS
<1>2. n = k * (n \div k) + (n % k)
  OBVIOUS
<1> DEFINE q == n \div k
           m == n % k
<1>3. q \in Int /\ m \in Int /\ 0 <= m /\ m < k /\ n = k * q + m
  BY <1>1, <1>2
<1> HIDE DEF q, m
<1>4. k * q = q * k
  BY <1>3
<1>5. q >= 0
  <2>1. ASSUME q < 0 PROVE FALSE
    <3>1. q <= -1 /\ k * q <= k * (-1)
      BY <1>3, <2>1
    <3>2. QED BY <1>3, <3>1
  <2>2. QED BY <1>3, <2>1
<1>6. QED BY <1>3, <1>4, <1>5 DEF q, m

\* Products with a positive number, as the provers need them.
LEMMA Multiples ==
  ASSUME NEW a \in Nat, NEW b \in Nat, NEW k \in Nat \ {0}
  PROVE  /\ a * k \in Nat
         /\ a <= b => a * k <= b * k
         /\ a < b => a * k + k <= b * k
         /\ a * k = b * k => a = b
         /\ a * k < b * k => a < b
         /\ (a + 1) * k = a * k + k
<1>1. a * k \in Nat /\ b * k \in Nat /\ (a + 1) * k = a * k + k
  OBVIOUS
<1>2. a <= b => a * k <= b * k
  OBVIOUS
<1>3. a < b => a * k + k <= b * k
  <2>1. ASSUME a < b PROVE a * k + k <= b * k
    <3>1. a + 1 <= b
      BY <2>1
    <3>2. (a + 1) * k <= b * k
      BY <3>1
    <3>3. QED BY <1>1, <3>2
  <2>2. QED BY <2>1
<1>4. b < a => b * k + k <= a * k
  <2>1. ASSUME b < a PROVE b * k + k <= a * k
    <3>1. b + 1 <= a
      BY <2>1
    <3>2. (b + 1) * k <= a * k /\ (b + 1) * k = b * k + k
      BY <3>1
    <3>3. QED BY <1>1, <3>2
  <2>2. QED BY <2>1
<1>5. a * k = b * k => a = b
  BY <1>1, <1>3, <1>4
<1>6. b <= a => b * k <= a * k
  OBVIOUS
<1>7. a * k < b * k => a < b
  BY <1>1, <1>6
<1>8. QED BY <1>1, <1>2, <1>3, <1>5, <1>7

\* A prompt is not empty and fits the window, and its full blocks fit it.
LEMMA PromptFacts ==
  ASSUME NEW r \in Requests
  PROVE  /\ Prompt[r] \in Seq(Vocabulary) /\ List(Prompt[r])
         /\ Len(Prompt[r]) \in Nat /\ Len(Prompt[r]) # 0 /\ Len(Prompt[r]) <= Window
         /\ FullBlocks(r) \in Nat /\ FullBlocks(r) * BlockTokens <= Len(Prompt[r])
         /\ Window \in Nat /\ BlockTokens \in Nat /\ BlockTokens # 0
<1>1. /\ Prompt[r] \in Seq(Vocabulary) /\ Len(Prompt[r]) \in 1 .. Window
      /\ Window \in Nat \ {0} /\ BlockTokens \in Nat \ {0}
  BY ExecutionAssumption DEF ExecutionAssumption
<1>2. List(Prompt[r])
  BY <1>1 DEF List
<1>3. Len(Prompt[r]) \in Nat
  BY <1>1
<1>4. /\ Len(Prompt[r]) \div BlockTokens \in Nat
      /\ (Len(Prompt[r]) \div BlockTokens) * BlockTokens <= Len(Prompt[r])
  BY <1>1, <1>3, Division
<1>5. FullBlocks(r) \in Nat /\ FullBlocks(r) * BlockTokens <= Len(Prompt[r])
  BY <1>4 DEF FullBlocks
<1>6. Len(Prompt[r]) # 0 /\ Len(Prompt[r]) <= Window
  BY <1>1, <1>3
<1>7. QED BY <1>1, <1>2, <1>3, <1>5, <1>6

\* A prefix of whole blocks.
LEMMA PrefixFacts ==
  ASSUME NEW r \in Requests, NEW b \in Nat, b <= FullBlocks(r)
  PROVE  /\ b * BlockTokens \in Nat /\ b * BlockTokens <= Len(Prompt[r])
         /\ PrefixOf(r, b) = First(Prompt[r], b * BlockTokens)
         /\ List(PrefixOf(r, b)) /\ Len(PrefixOf(r, b)) = b * BlockTokens
         /\ Alone(PrefixOf(r, b)) = First(Alone(Prompt[r]), b * BlockTokens)
         /\ b # 0 => PrefixOf(r, b) \in PrefixesOf(r) /\ PrefixOf(r, b) \in PromptPrefixes
<1> DEFINE n == b * BlockTokens
           q == FullBlocks(r)
           s == Prompt[r]
<1>1. /\ BlockTokens \in Nat \ {0} /\ q \in Nat /\ q * BlockTokens <= Len(s) /\ Len(s) \in Nat /\ List(s)
  BY PromptFacts
<1>2. n \in Nat /\ n <= q * BlockTokens /\ q * BlockTokens \in Nat
  BY <1>1, Multiples
<1>3. n <= Len(s)
  BY <1>1, <1>2
<1>4. PrefixOf(r, b) = First(s, n)
  BY DEF PrefixOf, First
<1> HIDE DEF n, s
<1>5. List(First(s, n)) /\ Len(First(s, n)) = n
  BY <1>1, <1>2, <1>3, ListFirst
<1>6. Alone(First(s, n)) = First(Alone(s), n)
  BY <1>1, <1>2, <1>3, AloneFacts
<1>7. b # 0 => PrefixOf(r, b) \in PrefixesOf(r) /\ PrefixOf(r, b) \in PromptPrefixes
  <2>1. ASSUME b # 0 PROVE PrefixOf(r, b) \in PrefixesOf(r)
    <3>1. b \in 1 .. FullBlocks(r)
      BY <1>1, <2>1
    <3>2. QED BY <3>1 DEF PrefixesOf
  <2>2. QED BY <2>1 DEF PromptPrefixes
<1>8. QED BY <1>2, <1>3, <1>4, <1>5, <1>6, <1>7 DEF n, s

\* What a shared block should hold.
LastBlock(p) == SubSeq(Alone(p), Len(p) - BlockTokens + 1, Len(p))
\* An entry of the index that is what the model alone computes at its prefix.
Exact(p, x) == x.logits = Last(Alone(p)) /\ x.block = LastBlock(p)

\* The block after a prefix of whole blocks is what the model alone computes there.
LEMMA BlockFacts ==
  ASSUME NEW r \in Requests, NEW b \in Nat, b < FullBlocks(r)
  PROVE  /\ List(LastBlock(PrefixOf(r, b + 1))) /\ Len(LastBlock(PrefixOf(r, b + 1))) = BlockTokens
         /\ \A j \in 1 .. BlockTokens :
              /\ LastBlock(PrefixOf(r, b + 1))[j] = Alone(Prompt[r])[b * BlockTokens + j]
              /\ b * BlockTokens + j \in 1 .. Len(Prompt[r])
         /\ First(Alone(Prompt[r]), (b + 1) * BlockTokens)
              = First(Alone(Prompt[r]), b * BlockTokens) \o LastBlock(PrefixOf(r, b + 1))
<1> DEFINE k == BlockTokens
           c == b + 1
           p == PrefixOf(r, c)
           n == c * k
           l == b * k
           a == Alone(Prompt[r])
           m == n - k + 1
           t == SubSeq(Alone(p), m, n)
<1>1. k \in Nat \ {0} /\ c \in Nat /\ c <= FullBlocks(r) /\ c # 0 /\ FullBlocks(r) \in Nat
  BY PromptFacts
<1>2. l \in Nat /\ n = l + k
  BY <1>1, Multiples
<1>3. /\ n \in Nat /\ n <= Len(Prompt[r])
      /\ List(p) /\ Len(p) = n /\ Alone(p) = First(a, n)
  <2> HIDE DEF c
  <2>1. QED BY <1>1, PrefixFacts
<1>4. List(a) /\ Len(a) = Len(Prompt[r]) /\ Len(Prompt[r]) \in Nat
  BY PromptFacts, AloneFacts
<1>5. LastBlock(p) = t
  BY <1>3 DEF LastBlock
<1> HIDE DEF a, p, c
<1>6. List(Alone(p)) /\ Len(Alone(p)) = n /\ \A i \in 1 .. n : Alone(p)[i] = a[i]
  <2> HIDE DEF n
  <2>1. List(First(a, n)) /\ Len(First(a, n)) = n /\ \A i \in 1 .. n : First(a, n)[i] = a[i]
    BY <1>3, <1>4, ListFirst
  <2>2. QED BY <1>3, <2>1
<1>7. m = l + 1 /\ m \in Nat /\ 1 <= m /\ m <= n + 1 /\ n - m + 1 = k /\ n <= Len(Alone(p))
  BY <1>1, <1>2, <1>3, <1>6
<1>8. /\ List(t) /\ Len(t) = k /\ \A i \in 1 .. k : t[i] = Alone(p)[m + i - 1]
  <2> DEFINE s == Alone(p)
  <2>1. List(s) /\ m \in Nat /\ n \in Nat /\ 1 <= m /\ m <= n + 1 /\ n <= Len(s)
    BY <1>3, <1>6, <1>7
  <2> HIDE DEF s, m, n, k
  <2>2. /\ List(SubSeq(s, m, n)) /\ Len(SubSeq(s, m, n)) = n - m + 1
        /\ \A i \in 1 .. n - m + 1 : SubSeq(s, m, n)[i] = s[m + i - 1]
    BY <2>1, ListSub
  <2>3. t = SubSeq(s, m, n)
    BY DEF s
  <2>4. n - m + 1 = k
    BY <1>7
  <2> HIDE DEF t
  <2>5. List(t) /\ Len(t) = k /\ \A i \in 1 .. k : t[i] = s[m + i - 1]
    BY <2>2, <2>3, <2>4
  <2>6. QED BY <2>5 DEF s
<1>9. ASSUME NEW j \in 1 .. k
      PROVE  t[j] = a[l + j] /\ l + j \in 1 .. n /\ l + j \in 1 .. Len(Prompt[r])
  <2>1. m + j - 1 = l + j /\ l + j \in 1 .. n /\ l + j \in 1 .. Len(Prompt[r])
    BY <1>1, <1>2, <1>3, <1>4, <1>7
  <2>2. t[j] = Alone(p)[m + j - 1]
    BY <1>8
  <2> HIDE DEF t, m, n, l, k
  <2>3. QED BY <1>6, <2>1, <2>2
<1>10. First(a, n) = First(a, l) \o t
  <2> DEFINE u == First(a, n)
             v == First(a, l)
             w == v \o t
  <2>1. List(u) /\ Len(u) = n /\ \A i \in 1 .. n : u[i] = a[i]
    <3> HIDE DEF n
    <3>1. QED BY <1>3, <1>4, ListFirst
  <2>2. l <= Len(a)
    BY <1>1, <1>2, <1>3, <1>4
  <2>3. List(v) /\ Len(v) = l /\ \A i \in 1 .. l : v[i] = a[i]
    <3> HIDE DEF l
    <3>1. QED BY <1>2, <1>4, <2>2, ListFirst
  <2> HIDE DEF u, v
  <2>4. List(w) /\ Len(w) = l + k /\ \A i \in 1 .. l + k : w[i] = IF i <= l THEN v[i] ELSE t[i - l]
    <3> HIDE DEF l, k, t
    <3>1. QED BY <1>8, <2>3, ListConcat, SMTT(30)
  <2>5. ASSUME NEW i \in 1 .. n PROVE u[i] = w[i]
    <3> HIDE DEF w
    <3>1. w[i] = IF i <= l THEN v[i] ELSE t[i - l]
      BY <1>2, <2>4
    <3>2. i <= l => i \in 1 .. l
      BY <1>2
    <3>3. ~(i <= l) => i - l \in 1 .. k /\ l + (i - l) = i
      BY <1>1, <1>2
    <3> HIDE DEF t, l, k, n
    <3>4. ~(i <= l) => t[i - l] = a[i]
      BY <1>9, <3>3
    <3>5. QED BY <2>1, <2>3, <3>1, <3>2, <3>4
  <2> HIDE DEF w
  <2>6. Len(w) = n
    BY <1>2, <2>4
  <2>7. u = w
    <3> HIDE DEF n
    <3>1. QED BY <2>1, <2>4, <2>5, <2>6, ListEqual
  <2>8. QED BY <2>7 DEF u, w, v
<1> HIDE DEF t
<1>11. QED BY <1>5, <1>8, <1>9, <1>10 DEF a, p, c

\* The blocks of a chain that is known hold what the model alone computes.
LEMMA AttachedExact ==
  ASSUME NEW r \in Requests, NEW hits \in Nat, hits <= FullBlocks(r), NEW ix,
         \A b \in 1 .. hits : Exact(PrefixOf(r, b), ix[PrefixOf(r, b)])
  PROVE  FlattenSeq([b \in 1 .. hits |-> ix[PrefixOf(r, b)].block]) = First(Alone(Prompt[r]), hits * BlockTokens)
<1> DEFINE Block(b) == ix[PrefixOf(r, b)].block
           chain(n) == [b \in 1 .. n |-> Block(b)]
           a == Alone(Prompt[r])
           bad == {n \in 0 .. hits : FlattenSeq(chain(n)) # First(a, n * BlockTokens)}
<1>1. BlockTokens \in Nat \ {0} /\ FullBlocks(r) \in Nat
  BY PromptFacts
<1>2. ASSUME NEW n \in Nat, n < hits
      PROVE  Block(n + 1) = LastBlock(PrefixOf(r, n + 1)) /\ List(Block(n + 1)) /\ n < FullBlocks(r)
  <2>1. n + 1 \in 1 .. hits /\ n < FullBlocks(r)
    BY <1>1, <1>2
  <2>2. Block(n + 1) = LastBlock(PrefixOf(r, n + 1))
    BY <2>1 DEF Exact
  <2>3. List(LastBlock(PrefixOf(r, n + 1)))
    BY <2>1, BlockFacts
  <2>4. QED BY <2>1, <2>2, <2>3
<1>3. ASSUME NEW b \in 1 .. hits
      PROVE  List(Block(b))
  <2> DEFINE n == b - 1
  <2>1. n \in Nat /\ n < hits /\ n + 1 = b
    OBVIOUS
  <2> HIDE DEF n, Block
  <2>2. List(Block(n + 1))
    BY <1>2, <2>1
  <2>3. QED BY <2>1, <2>2
<1> HIDE DEF Block
<1>4. ASSUME NEW n \in Nat
      PROVE  List(chain(n)) /\ Len(chain(n)) = n /\ \A b \in 1 .. n : chain(n)[b] = Block(b)
  <2> DEFINE c == chain(n)
  <2>1. c = [b \in 1 .. n |-> c[b]] /\ \A b \in 1 .. n : c[b] = Block(b)
    OBVIOUS
  <2> HIDE DEF c
  <2>2. List(c) /\ Len(c) = n
    BY <2>1, ListMade
  <2>3. QED BY <2>1, <2>2 DEF c
<1> HIDE DEF chain
<1>5. ASSUME NEW n \in Nat, n < hits
      PROVE  chain(n + 1) = Append(chain(n), Block(n + 1))
  <2> DEFINE c == chain(n)
             k == n + 1
             d == chain(k)
             e == Append(c, Block(k))
  <2>1. List(c) /\ Len(c) = n /\ \A b \in 1 .. n : c[b] = Block(b)
    BY <1>4
  <2>2. k \in Nat /\ \A b \in 1 .. k : b \in 1 .. n \/ b = k
    OBVIOUS
  <2>3. List(d) /\ Len(d) = k /\ \A b \in 1 .. k : d[b] = Block(b)
    <3> HIDE DEF k
    <3>1. QED BY <1>4, <2>2
  <2> HIDE DEF c, d
  <2>4. List(e) /\ Len(e) = n + 1 /\ e[n + 1] = Block(k) /\ \A b \in 1 .. n : e[b] = c[b]
    <3> DEFINE x == Block(k)
    <3> HIDE DEF x
    <3>1. List(c)
      BY <2>1
    <3>2. /\ List(Append(c, x)) /\ Len(Append(c, x)) = Len(c) + 1
          /\ Append(c, x)[Len(c) + 1] = x
          /\ \A i \in 1 .. Len(c) : Append(c, x)[i] = c[i]
      BY <3>1, ListAppend, ZenonT(60)
    <3>3. e = Append(c, x)
      BY DEF x
    <3> HIDE DEF k, e
    <3>4. QED BY <2>1, <3>2, <3>3 DEF x
  <2>5. Len(e) = k /\ e[k] = Block(k)
    BY <2>4
  <2> HIDE DEF k, e
  <2>6. \A b \in 1 .. k : d[b] = e[b]
    BY <2>1, <2>2, <2>3, <2>4, <2>5
  <2>7. d = e
    BY <2>3, <2>4, <2>5, <2>6, ListEqual
  <2>8. QED BY <2>7 DEF c, d, e, k
<1>6. FlattenSeq(chain(0)) = First(a, 0 * BlockTokens)
  <2>1. chain(0) = <<>>
    BY <1>4 DEF chain
  <2>2. 0 * BlockTokens = 0 /\ First(a, 0) = <<>>
    BY <1>1 DEF First
  <2>3. QED BY <2>1, <2>2, FlattenNone
<1>7. ASSUME bad # {}
      PROVE  FALSE
  <2>1. bad \in SUBSET Nat
    OBVIOUS
  <2>2. PICK n \in bad : \A q \in bad : n <= q
    <3> HIDE DEF bad
    <3>1. QED BY <1>7, <2>1, LeastNumber
  <2>3. n \in 0 .. hits /\ FlattenSeq(chain(n)) # First(a, n * BlockTokens) /\ n \in Nat
    BY <2>2
  <2>4. n # 0
    BY <1>6, <2>3
  <2> DEFINE q == n - 1
  <2>5. q \in Nat /\ q \in 0 .. hits /\ q + 1 = n /\ q < hits /\ ~(n <= q)
    BY <2>3, <2>4
  <2> HIDE DEF q
  <2>6. q \notin bad
    <3> HIDE DEF bad
    <3>1. QED BY <2>2, <2>5
  <2>7. FlattenSeq(chain(q)) = First(a, q * BlockTokens)
    BY <2>5, <2>6
  <2>8. chain(n) = Append(chain(q), Block(q + 1)) /\ List(Block(q + 1)) /\ q < FullBlocks(r)
        /\ Block(q + 1) = LastBlock(PrefixOf(r, q + 1))
    BY <1>2, <1>5, <2>5
  <2>9. Nested(chain(q))
    <3>1. \A b \in 1 .. q : b \in 1 .. hits
      BY <2>5
    <3>2. QED BY <1>3, <1>4, <2>5, <3>1 DEF Nested
  <2> DEFINE x == Block(q + 1)
             s == chain(q)
  <2>10. Nested(s) /\ List(x)
    BY <2>8, <2>9
  <2> HIDE DEF x, s
  <2>11. FlattenSeq(Append(s, x)) = FlattenSeq(s) \o x
    BY <2>10, FlattenAppend
  <2>12. First(a, (q + 1) * BlockTokens) = First(a, q * BlockTokens) \o LastBlock(PrefixOf(r, q + 1))
    BY <2>5, <2>8, BlockFacts
  <2> HIDE DEF a
  <2>13. First(a, n * BlockTokens) = FlattenSeq(s) \o x
    BY <2>5, <2>7, <2>8, <2>12 DEF x, s
  <2>14. FlattenSeq(chain(n)) = FlattenSeq(s) \o x
    BY <2>8, <2>11 DEF x, s
  <2>15. QED BY <2>3, <2>13, <2>14
<1>8. hits \notin bad
  BY <1>7
<1>9. FlattenSeq(chain(hits)) = First(a, hits * BlockTokens)
  BY <1>8
<1>10. QED BY <1>9 DEF chain, Block, a

-----------------------------------------------------------------------------
(* Which call has a row.                                                  *)

\* Calls that cover rows cover fewer rows.
LEMMA CoveringOf ==
  ASSUME NEW calls, NEW R, NEW S, Covering(calls, R), S \subseteq R
  PROVE  Covering(calls, S)
BY DEF Covering

\* No call is needed for no row.
LEMMA NoneCovering == Covering(<<>>, {})
<1>1. List(<<>>) /\ Len(<<>>) = 0
  BY ListOne
<1>2. 1 .. 0 = {}
  OBVIOUS
<1>3. QED BY <1>1, <1>2 DEF Covering

\* One call of all the rows has them all.
LEMMA OneCovering ==
  ASSUME NEW rows \in Seq(Requests)
  PROVE  Covering(<<rows>>, ToSet(rows))
<1>1. List(<<rows>>) /\ Len(<<rows>>) = 1 /\ <<rows>>[1] = rows
  BY ListOne
<1>2. 1 .. 1 = {1}
  OBVIOUS
<1>3. QED BY <1>1, <1>2 DEF Covering

\* Every row of a prefill is in one of its calls.
LEMMA PrefillCovered ==
  ASSUME NEW rows \in Seq(Requests)
  PROVE  Covering(PrefillCalls(rows), ToSet(rows))
<1> DEFINE resident == {r \in Requests : Suffix(r) = <<>>}
           computed == Requests \ resident
           a == Batches(Those(rows, computed), SuffixLength)
           b == Singles(Those(rows, resident))
<1>1. CASE kind \in {"continuous", "materialized", "paged"}
  <2>1. PrefillCalls(rows) = Batches(rows, PromptLength)
    BY <1>1 DEF PrefillCalls
  <2>2. QED BY <2>1, BatchesCovering
<1>2. CASE kind = "batched apc"
  <2>1. PrefillCalls(rows) = a \o b
    BY <1>2 DEF PrefillCalls
  <2> HIDE DEF computed, resident
  <2>2. /\ Those(rows, computed) \in Seq(Requests)
        /\ ToSet(Those(rows, computed)) = ToSet(rows) \cap computed
    BY ThoseFacts
  <2>3. /\ Those(rows, resident) \in Seq(Requests)
        /\ ToSet(Those(rows, resident)) = ToSet(rows) \cap resident
    BY ThoseFacts
  <2>4. Covering(a, ToSet(rows) \cap computed)
    BY <2>2, BatchesCovering
  <2>5. Covering(b, ToSet(rows) \cap resident)
    BY <2>3, SinglesCovering
  <2> HIDE DEF a, b
  <2>6. Covering(a \o b, (ToSet(rows) \cap computed) \cup (ToSet(rows) \cap resident))
    BY <2>4, <2>5, CoveringConcat
  <2>7. ToSet(rows) \subseteq Requests
    BY DEF ToSet
  <2>8. ToSet(rows) \subseteq (ToSet(rows) \cap computed) \cup (ToSet(rows) \cap resident)
    BY <2>7 DEF computed
  <2>9. QED BY <2>1, <2>6, <2>8, CoveringOf
<1>3. CASE kind \notin {"continuous", "materialized", "paged", "batched apc"}
  <2>1. PrefillCalls(rows) = Singles(rows)
    BY <1>3 DEF PrefillCalls
  <2>2. QED BY <2>1, SinglesCovering
<1>4. QED BY <1>1, <1>2, <1>3

\* Every row of a decode is in one of its calls.
LEMMA DecodeCovered ==
  ASSUME NEW rows \in Seq(Requests)
  PROVE  Covering(DecodeCalls(rows), ToSet(rows))
<1> DEFINE overflowing == {r \in Requests : Overflows(r)}
           rest == Requests \ overflowing
           full == Those(rows, overflowing)
           others == Those(rows, rest)
           a == Singles(full)
           b == IF kind = "reference" THEN Singles(others)
                ELSE IF others = <<>> THEN <<>> ELSE <<others>>
<1>1. DecodeCalls(rows) = a \o b
  BY DEF DecodeCalls
<1> HIDE DEF overflowing, rest
<1>2. full \in Seq(Requests) /\ ToSet(full) = ToSet(rows) \cap overflowing
  BY ThoseFacts
<1>3. others \in Seq(Requests) /\ ToSet(others) = ToSet(rows) \cap rest
  BY ThoseFacts
<1> HIDE DEF full, others
<1>4. Covering(a, ToSet(rows) \cap overflowing)
  BY <1>2, SinglesCovering
<1>5. Covering(b, ToSet(rows) \cap rest)
  <2>1. CASE kind = "reference"
    <3>1. b = Singles(others)
      BY <2>1
    <3> HIDE DEF b
    <3>2. QED BY <1>3, <3>1, SinglesCovering
  <2>2. CASE kind # "reference" /\ others = <<>>
    <3>1. b = <<>>
      BY <2>2
    <3>2. ToSet(others) = {}
      BY <2>2 DEF ToSet
    <3> HIDE DEF b
    <3>3. QED BY <1>3, <3>1, <3>2, NoneCovering
  <2>3. CASE kind # "reference" /\ others # <<>>
    <3>1. b = <<others>>
      BY <2>3
    <3> HIDE DEF b
    <3>2. QED BY <1>3, <3>1, OneCovering
  <2>4. QED BY <2>1, <2>2, <2>3
<1> HIDE DEF a, b
<1>6. Covering(a \o b, (ToSet(rows) \cap overflowing) \cup (ToSet(rows) \cap rest))
  BY <1>4, <1>5, CoveringConcat
<1>7. ToSet(rows) \subseteq Requests
  BY DEF ToSet
<1>8. ToSet(rows) \subseteq (ToSet(rows) \cap overflowing) \cup (ToSet(rows) \cap rest)
  BY <1>7 DEF rest
<1>9. QED BY <1>1, <1>6, <1>8, CoveringOf

\* Rows in some order: each once.
RowsOf(rows, S) ==
  /\ rows \in Seq(Requests) /\ ToSet(rows) \subseteq S
  /\ \A i, j \in DOMAIN rows : rows[i] = rows[j] => i = j

\* An order of a set of requests lists them once each.
LEMMA OrdersRows ==
  ASSUME NEW S, S \subseteq Requests, NEW rows \in Orders(S)
  PROVE  RowsOf(rows, S)
<1>1. PICK T \in SUBSET S \ {{}} : rows \in SetToSeqs(T)
  BY DEF Orders
<1> DEFINE n == Cardinality(T)
<1>2. rows \in [1 .. n -> T] /\ \A i, j \in 1 .. n : i # j => rows[i] # rows[j]
  BY <1>1 DEF SetToSeqs
<1>3. IsFiniteSet(T) /\ T \subseteq S
  BY <1>1, ExecutionAssumption, FS_Subset DEF ExecutionAssumption
<1>4. n \in Nat
  BY <1>3, FS_CardinalityType
<1> HIDE DEF n
<1>5. rows \in [1 .. n -> Requests]
  BY <1>2, <1>3
<1>6. rows \in Seq(Requests) /\ DOMAIN rows = 1 .. n
  BY <1>4, <1>5
<1>7. ToSet(rows) \subseteq S
  BY <1>2, <1>3, <1>6 DEF ToSet
<1>8. QED BY <1>2, <1>6, <1>7 DEF RowsOf

\* So does the sequence that a set is turned into.
LEMMA ChosenRows ==
  ASSUME NEW S, S \subseteq Requests
  PROVE  RowsOf(SetToSeq(S), S)
<1> DEFINE n == Cardinality(S)
           rows == SetToSeq(S)
<1>1. IsFiniteSet(S)
  BY ExecutionAssumption, FS_Subset DEF ExecutionAssumption
<1>2. n \in Nat /\ ExistsBijection(1 .. n, S)
  BY <1>1, FS_CardinalityType
<1>3. \E f \in [1 .. n -> S] : IsInjective(f)
  BY <1>2 DEF ExistsBijection, Bijection, Injection, IsInjective
<1>4. rows \in [1 .. n -> S] /\ IsInjective(rows)
  BY <1>3 DEF SetToSeq
<1> HIDE DEF n, rows
<1>5. rows \in [1 .. n -> Requests]
  BY <1>4
<1>6. rows \in Seq(Requests) /\ DOMAIN rows = 1 .. n
  BY <1>2, <1>5
<1>7. ToSet(rows) \subseteq S
  BY <1>4, <1>6 DEF ToSet
<1>8. RowsOf(rows, S)
  BY <1>4, <1>6, <1>7 DEF RowsOf, IsInjective
<1>9. QED BY <1>8 DEF rows

-----------------------------------------------------------------------------
(* Promotion.                                                             *)

\* A block that becomes a shared one, and its boundary logits.
LEMMA NewBlockExact ==
  ASSUME NEW r \in Requests, NEW b \in Nat, b < FullBlocks(r),
         NEW l \in Nat, l < (b + 1) * BlockTokens, NEW logits, List(logits),
         Alone(Prompt[r]) = First(Alone(Prompt[r]), l) \o logits
  PROVE  /\ SubSeq(Alone(Prompt[r]), Len(PrefixOf(r, b + 1)) - BlockTokens + 1, Len(PrefixOf(r, b + 1)))
              = LastBlock(PrefixOf(r, b + 1))
         /\ logits[Len(PrefixOf(r, b + 1)) - l] = Last(Alone(PrefixOf(r, b + 1)))
<1> DEFINE k == BlockTokens
           c == b + 1
           p == PrefixOf(r, c)
           a == Alone(Prompt[r])
           n == c * k
           m == n - k + 1
           o == b * k
           t == LastBlock(p)
           u == SubSeq(a, m, n)
<1>1. k \in Nat \ {0} /\ c \in Nat /\ c <= FullBlocks(r) /\ FullBlocks(r) \in Nat
  BY PromptFacts
<1>2. o \in Nat /\ n = o + k
  BY <1>1, Multiples
<1>3. n \in Nat /\ n <= Len(Prompt[r]) /\ List(p) /\ Len(p) = n /\ Alone(p) = First(a, n)
  <2> HIDE DEF c
  <2>1. QED BY <1>1, PrefixFacts
<1>4. List(a) /\ Len(a) = Len(Prompt[r]) /\ Len(Prompt[r]) \in Nat
  BY PromptFacts, AloneFacts
<1>5. List(t) /\ Len(t) = k /\ \A j \in 1 .. k : t[j] = a[o + j]
  BY BlockFacts
<1> HIDE DEF a, p, c, t
<1>6. m \in Nat /\ 1 <= m /\ m <= n + 1 /\ n <= Len(a) /\ n - m + 1 = k /\ m = o + 1
  <2> HIDE DEF n, o
  <2>1. QED BY <1>1, <1>2, <1>3, <1>4
<1>7. List(u) /\ Len(u) = k /\ \A j \in 1 .. k : u[j] = a[m + j - 1]
  <2> HIDE DEF m, n, k
  <2>1. /\ List(SubSeq(a, m, n)) /\ Len(SubSeq(a, m, n)) = n - m + 1
        /\ \A i \in 1 .. n - m + 1 : SubSeq(a, m, n)[i] = a[m + i - 1]
    <3>1. List(a) /\ m \in Nat /\ n \in Nat /\ 1 <= m /\ m <= n + 1 /\ n <= Len(a)
      BY <1>3, <1>4, <1>6
    <3> HIDE DEF u
    <3>2. QED BY <3>1, ListSub
  <2>2. QED BY <1>6, <2>1
<1> HIDE DEF u
<1>8. \A j \in 1 .. k : m + j - 1 = o + j
  BY <1>1, <1>2, <1>6
<1>9. u = t
  <2> HIDE DEF m, o, k
  <2>1. \A j \in 1 .. k : u[j] = t[j]
    BY <1>5, <1>7, <1>8
  <2>2. QED BY <1>5, <1>7, <2>1, ListEqual
<1>10. logits[n - l] = Last(Alone(p))
  <2> DEFINE v == First(a, l)
             w == Alone(p)
  <2>1. l < n /\ n # 0
    BY <1>2, <1>1, <1>3 DEF c
  <2>2. l <= Len(a)
    BY <1>3, <1>4, <2>1
  <2>3. List(v) /\ Len(v) = l
    BY <1>4, <2>2, ListFirst
  <2> HIDE DEF v, n
  <2>4. a = v \o logits
    BY DEF v, a
  <2>5. Len(logits) \in Nat
    BY ListFacts
  <2>6. /\ Len(v \o logits) = l + Len(logits)
        /\ \A i \in 1 .. l + Len(logits) : (v \o logits)[i] = IF i <= l THEN v[i] ELSE logits[i - l]
    BY <2>3, ListConcat
  <2>7. n \in 1 .. l + Len(logits) /\ ~(n <= l)
    BY <1>3, <1>6, <2>1, <2>4, <2>5, <2>6
  <2>8. a[n] = logits[n - l]
    BY <2>4, <2>6, <2>7
  <2>9. List(w) /\ Len(w) = n /\ \A i \in 1 .. n : w[i] = a[i]
    <3>1. List(First(a, n)) /\ Len(First(a, n)) = n /\ \A i \in 1 .. n : First(a, n)[i] = a[i]
      BY <1>3, <1>4, <1>6, ListFirst
    <3>2. QED BY <1>3, <3>1
  <2>10. Last(w) = w[Len(p)]
    BY <1>3, <2>1, AloneLast
  <2>11. n \in 1 .. n
    BY <1>3, <2>1
  <2> HIDE DEF w
  <2>12. Last(w) = logits[n - l]
    BY <1>3, <2>8, <2>9, <2>10, <2>11
  <2>13. QED BY <2>12 DEF w
<1>11. QED BY <1>3, <1>9, <1>10 DEF u, m, p, a, c, t

\* The block and the place in it of an entry.
LEMMA EntryPlace ==
  ASSUME NEW r \in Requests, NEW i \in Nat, i # 0, i <= FullBlocks(r) * BlockTokens
  PROVE  \E c \in Nat, j \in 1 .. BlockTokens :
            /\ c < FullBlocks(r) /\ i = c * BlockTokens + j
            /\ 1 + ((i - 1) \div BlockTokens) = c + 1 /\ 1 + ((i - 1) % BlockTokens) = j
<1> DEFINE k == BlockTokens
           q == FullBlocks(r)
           h == i - 1
           c == h \div k
           d == h % k
           j == d + 1
<1>1. k \in Nat \ {0} /\ q \in Nat /\ h \in Nat /\ h + 1 = i
  BY PromptFacts
<1>2. /\ c \in Nat /\ c * k <= h /\ d \in 0 .. k - 1 /\ h = c * k + d
  <2> HIDE DEF h, k
  <2>1. QED BY <1>1, Division
<1> HIDE DEF c, d
<1>3. i = c * k + j /\ j \in 1 .. k
  <2>1. c * k \in Nat
    BY <1>1, <1>2
  <2> DEFINE e == c * k
  <2>2. e \in Nat /\ h = e + d
    BY <1>2, <2>1
  <2> HIDE DEF e, h
  <2>3. i = e + j /\ j \in 1 .. k
    BY <1>1, <1>2, <2>2
  <2>4. QED BY <2>3 DEF e
<1>4. c < q
  <2>1. c * k \in Nat /\ q * k \in Nat /\ i <= q * k
    BY <1>1, <1>2
  <2>2. c * k < q * k
    <3> DEFINE x == c * k
               y == q * k
    <3>1. x \in Nat /\ y \in Nat /\ i <= y /\ x <= h
      BY <1>2, <2>1
    <3> HIDE DEF x, y, h
    <3>2. x < y
      BY <1>1, <3>1
    <3>3. QED BY <3>2 DEF x, y
  <2> HIDE DEF q, k
  <2>3. QED BY <1>1, <1>2, <2>2, Multiples
<1>5. 1 + ((i - 1) \div k) = c + 1 /\ 1 + ((i - 1) % k) = j
  <2>1. (i - 1) \div k = c /\ (i - 1) % k = d
    BY DEF c, d
  <2>2. c \in Int /\ d \in Int
    BY <1>1, <1>2
  <2> DEFINE x == (i - 1) \div k
             y == (i - 1) % k
  <2>3. x = c /\ y = d
    BY <2>1
  <2> HIDE DEF x, y
  <2>4. 1 + x = c + 1 /\ 1 + y = j
    BY <2>2, <2>3
  <2>5. QED BY <2>4 DEF x, y
<1> HIDE DEF j
<1>6. QED BY <1>2, <1>3, <1>4, <1>5

\* What a commit works on: caches, and an index that is right.
Store(store) ==
  /\ store = [cache |-> store.cache, index |-> store.index]
  /\ store.cache = [q \in Requests |-> store.cache[q]]
  /\ store.index = [p \in PromptPrefixes |-> store.index[p]]
  /\ \A p \in PromptPrefixes : store.index[p] # Nothing => Exact(p, store.index[p])

\* A request whose prompt is complete: its shared blocks are known, and it has
\* the logits behind them.
Promotable(r, known, logits) ==
  /\ shared[r] \in Nat /\ shared[r] <= FullBlocks(r)
  /\ \A b \in 1 .. shared[r] : known[PrefixOf(r, b)] # Nothing
  /\ List(logits)
  /\ Alone(Prompt[r]) = First(Alone(Prompt[r]), shared[r] * BlockTokens) \o logits

\* An entry of the index is not Nothing.
LEMMA SomethingKnown ==
  ASSUME NEW x, NEW y
  PROVE  [block |-> x, logits |-> y] # Nothing
<1>1. [block |-> x, logits |-> y].block = x
  OBVIOUS
<1>2. ASSUME [block |-> x, logits |-> y] = <<>> PROVE FALSE
  <2>1. DOMAIN [block |-> x, logits |-> y] = {"block", "logits"}
    OBVIOUS
  <2>2. DOMAIN <<>> = {}
    <3>1. <<>> \in Seq({}) /\ Len(<<>>) = 0
      OBVIOUS
    <3>2. QED BY <3>1
  <2>3. QED BY <1>2, <2>1, <2>2
<1>3. QED BY <1>2 DEF Nothing

\* The index a promotion leaves.
Learned(store, r, logits) ==
  [p \in PromptPrefixes |->
    IF /\ store.index[p] = Nothing
       /\ p \in PrefixesOf(r) /\ Len(p) > shared[r] * BlockTokens
    THEN [block |-> SubSeq(store.cache[r], Len(p) - BlockTokens + 1, Len(p)),
          logits |-> Boundary(r, logits, p)]
    ELSE store.index[p]]

\* A prefix that is promoted is one of whole blocks.
LEMMA PrefixBlocks ==
  ASSUME NEW r \in Requests, NEW p \in PrefixesOf(r)
  PROVE  \E b \in Nat : b < FullBlocks(r) /\ p = PrefixOf(r, b + 1) /\ Len(p) = (b + 1) * BlockTokens
<1>1. PICK c \in 1 .. FullBlocks(r) : p = PrefixOf(r, c)
  BY DEF PrefixesOf
<1>2. FullBlocks(r) \in Nat
  BY PromptFacts
<1> DEFINE b == c - 1
<1>3. b \in Nat /\ b < FullBlocks(r) /\ b + 1 = c
  BY <1>2
<1>4. c \in Nat /\ c <= FullBlocks(r)
  BY <1>2
<1>5. Len(p) = c * BlockTokens
  BY <1>1, <1>4, PrefixFacts
<1> HIDE DEF b
<1>6. QED BY <1>1, <1>3, <1>5

\* What promotion puts into the index is exact, and it forgets nothing.
LEMMA LearnedExact ==
  ASSUME NEW r \in Requests, NEW store, Store(store), NEW logits, Promotable(r, store.index, logits),
         store.cache[r] = Alone(Prompt[r]),
         NEW p \in PromptPrefixes
  PROVE  /\ Learned(store, r, logits)[p] # Nothing => Exact(p, Learned(store, r, logits)[p])
         /\ store.index[p] # Nothing => Learned(store, r, logits)[p] # Nothing
         /\ p \in PrefixesOf(r) => Learned(store, r, logits)[p] # Nothing
<1> DEFINE x == Learned(store, r, logits)[p]
           l == shared[r] * BlockTokens
           a == Alone(Prompt[r])
           new == store.index[p] = Nothing /\ p \in PrefixesOf(r) /\ Len(p) > l
           record == [block |-> SubSeq(a, Len(p) - BlockTokens + 1, Len(p)), logits |-> logits[Len(p) - l]]
<1>1. x = IF new THEN record ELSE store.index[p]
  BY DEF Learned, Boundary
<1>2. BlockTokens \in Nat \ {0} /\ FullBlocks(r) \in Nat /\ shared[r] \in Nat /\ l \in Nat
  <2>1. BlockTokens \in Nat \ {0} /\ FullBlocks(r) \in Nat /\ shared[r] \in Nat
    BY PromptFacts DEF Promotable
  <2>2. QED BY <2>1, Multiples
<1>3. record # Nothing
  BY SomethingKnown
<1>4. ASSUME new PROVE Exact(p, x)
  <2>1. PICK b \in Nat : b < FullBlocks(r) /\ p = PrefixOf(r, b + 1) /\ Len(p) = (b + 1) * BlockTokens
    BY <1>4, PrefixBlocks
  <2>2. l < (b + 1) * BlockTokens
    <3>1. (b + 1) * BlockTokens \in Nat
      BY <1>2, <2>1, Multiples
    <3>2. Len(p) > l /\ Len(p) = (b + 1) * BlockTokens
      BY <1>4, <2>1
    <3> DEFINE n == (b + 1) * BlockTokens
    <3> HIDE DEF n, l
    <3>3. l < n
      BY <1>2, <3>1, <3>2 DEF n
    <3>4. QED BY <3>3 DEF n
  <2>3. List(logits) /\ a = First(a, l) \o logits
    BY DEF Promotable
  <2> HIDE DEF l
  <2>4. /\ SubSeq(a, Len(PrefixOf(r, b + 1)) - BlockTokens + 1, Len(PrefixOf(r, b + 1)))
              = LastBlock(PrefixOf(r, b + 1))
        /\ logits[Len(PrefixOf(r, b + 1)) - l] = Last(Alone(PrefixOf(r, b + 1)))
    BY <1>2, <2>1, <2>2, <2>3, NewBlockExact
  <2>5. record.block = LastBlock(p) /\ record.logits = Last(Alone(p))
    BY <2>1, <2>4
  <2>6. x = record
    BY <1>1, <1>4
  <2> HIDE DEF x, record
  <2>7. QED BY <2>5, <2>6 DEF Exact
<1>5. ASSUME ~new PROVE /\ x # Nothing => Exact(p, x)
                        /\ p \in PrefixesOf(r) => x # Nothing
                        /\ store.index[p] # Nothing => x # Nothing
  <2>1. x = store.index[p]
    BY <1>1, <1>5
  <2>2. x # Nothing => Exact(p, x)
    <3> HIDE DEF x
    <3>1. QED BY <2>1 DEF Store
  <2>3. ASSUME p \in PrefixesOf(r), store.index[p] = Nothing PROVE FALSE
    <3>1. ~(Len(p) > l)
      BY <1>5, <2>3
    <3>2. PICK b \in Nat : b < FullBlocks(r) /\ p = PrefixOf(r, b + 1) /\ Len(p) = (b + 1) * BlockTokens
      BY <2>3, PrefixBlocks
    <3>3. b + 1 \in 1 .. shared[r]
      <4> DEFINE c == b + 1
      <4>1. c \in Nat /\ c >= 1
        BY <3>2
      <4> HIDE DEF c
      <4>2. c * BlockTokens \in Nat
        BY <1>2, <4>1, Multiples
      <4>3. ~(c * BlockTokens > l)
        BY <3>1, <3>2 DEF c
      <4>4. c * BlockTokens <= l
        <5> DEFINE n == c * BlockTokens
        <5> HIDE DEF n, l
        <5>1. n <= l
          BY <1>2, <4>2, <4>3 DEF n
        <5>2. QED BY <5>1 DEF n
      <4>5. shared[r] < c => shared[r] * BlockTokens + BlockTokens <= c * BlockTokens
        BY <1>2, <4>1, Multiples
      <4>6. c <= shared[r]
        <5> DEFINE n == c * BlockTokens
        <5>1. shared[r] < c => l + BlockTokens <= n
          BY <4>5
        <5>2. n \in Nat /\ n <= l
          BY <4>2, <4>4
        <5> HIDE DEF n, l
        <5>3. QED BY <1>2, <4>1, <5>1, <5>2
      <4>7. c \in 1 .. shared[r]
        BY <1>2, <4>1, <4>6
      <4>8. QED BY <4>7 DEF c
    <3>4. QED BY <2>3, <3>2, <3>3 DEF Promotable
  <2> HIDE DEF x
  <2>4. QED BY <2>1, <2>2, <2>3
<1>6. new => x # Nothing
  BY <1>1, <1>3
<1> HIDE DEF x, new
<1>7. /\ x # Nothing => Exact(p, x)
      /\ p \in PrefixesOf(r) => x # Nothing
      /\ store.index[p] # Nothing => x # Nothing
  BY <1>4, <1>5, <1>6
<1>8. QED BY <1>7 DEF x

\* Promotion changes no entry: the shared blocks hold what the request computed.
LEMMA PromotedExact ==
  ASSUME NEW r \in Requests, NEW store, Store(store), NEW logits, Promotable(r, store.index, logits),
         store.cache[r] = Alone(Prompt[r])
  PROVE  Promoted(store, r, logits) = [cache |-> store.cache, index |-> Learned(store, r, logits)]
<1> DEFINE own == store.cache[r]
           known == Learned(store, r, logits)
           full == FullBlocks(r) * BlockTokens
           entries == [i \in DOMAIN own |->
             IF i <= FullBlocks(r) * BlockTokens
             THEN known[PrefixOf(r, 1 + ((i - 1) \div BlockTokens))].block[1 + ((i - 1) % BlockTokens)]
             ELSE own[i]]
<1>1. Promoted(store, r, logits) = [cache |-> [store.cache EXCEPT ![r] = entries], index |-> known]
  BY DEF Promoted, Learned
<1>2. List(own) /\ own = Alone(Prompt[r]) /\ DOMAIN own = 1 .. Len(own) /\ Len(own) \in Nat
  <2>1. List(Alone(Prompt[r]))
    BY PromptFacts, AloneFacts
  <2>2. QED BY <2>1, ListFacts
<1>3. /\ FullBlocks(r) \in Nat /\ BlockTokens \in Nat \ {0}
  BY PromptFacts
<1>4. ASSUME NEW i \in DOMAIN own
      PROVE  entries[i] = own[i]
  <2>1. i \in Nat /\ i # 0 /\ i \in 1 .. Len(own)
    BY <1>2
  <2>2. CASE ~(i <= FullBlocks(r) * BlockTokens)
    BY <2>2
  <2>3. CASE i <= FullBlocks(r) * BlockTokens
    <3>1. PICK c \in Nat : \E j \in 1 .. BlockTokens :
            /\ c < FullBlocks(r) /\ i = c * BlockTokens + j
            /\ 1 + ((i - 1) \div BlockTokens) = c + 1 /\ 1 + ((i - 1) % BlockTokens) = j
      BY <2>1, <2>3, EntryPlace
    <3>2. PICK j \in 1 .. BlockTokens :
            /\ c < FullBlocks(r) /\ i = c * BlockTokens + j
            /\ 1 + ((i - 1) \div BlockTokens) = c + 1 /\ 1 + ((i - 1) % BlockTokens) = j
      BY <3>1
    <3> DEFINE p == PrefixOf(r, c + 1)
    <3>3. entries[i] = known[p].block[j]
      BY <2>3, <3>2
    <3>4. p \in PrefixesOf(r) /\ p \in PromptPrefixes
      <4> DEFINE d == c + 1
      <4>1. d \in Nat /\ d <= FullBlocks(r) /\ d # 0
        BY <1>3, <3>2
      <4> HIDE DEF d
      <4>2. PrefixOf(r, d) \in PrefixesOf(r) /\ PrefixOf(r, d) \in PromptPrefixes
        BY <4>1, PrefixFacts
      <4>3. QED BY <4>2 DEF d
    <3>5. Exact(p, known[p])
      <4> HIDE DEF p
      <4>1. QED BY <3>4, LearnedExact
    <3>6. LastBlock(p)[j] = Alone(Prompt[r])[c * BlockTokens + j]
      BY <3>2, BlockFacts
    <3> HIDE DEF p, known, entries, own
    <3>7. known[p].block = LastBlock(p)
      BY <3>5 DEF Exact
    <3>8. known[p].block[j] = own[i]
      BY <1>2, <3>2, <3>6, <3>7
    <3>9. QED BY <3>3, <3>8
  <2>4. QED BY <2>2, <2>3
<1>5. entries = own
  <2>1. entries = [i \in DOMAIN own |-> entries[i]]
    OBVIOUS
  <2>2. own = [i \in DOMAIN own |-> own[i]]
    BY <1>2, ListFacts
  <2> HIDE DEF entries, own
  <2>3. QED BY <1>4, <2>1, <2>2
<1>6. [store.cache EXCEPT ![r] = own] = store.cache
  BY DEF Store
<1> HIDE DEF entries, known
<1>7. QED BY <1>1, <1>5, <1>6 DEF known

-----------------------------------------------------------------------------
(* Commit.                                                                *)

\* What a commit may assume of its rows.
Committable(rows, final, result) ==
  /\ RowsOf(rows, Requests)
  /\ cache = [r \in Requests |-> cache[r]]
  /\ index = [p \in PromptPrefixes |-> index[p]]
  /\ IndexExact
  /\ \A r \in ToSet(rows) : r \in final /\ kind \in Prefixed =>
       /\ cache[r] \o result[r].entries = Alone(Prompt[r])
       /\ Promotable(r, index, chunkLogits[r] \o result[r].rows)

\* The commit of the first n of them.
Partly(store, rows, n, result) ==
  /\ Store(store)
  /\ \A q \in Requests :
       store.cache[q] = IF \E i \in 1 .. n : rows[i] = q THEN cache[q] \o result[q].entries ELSE cache[q]
  /\ \A p \in PromptPrefixes : index[p] # Nothing => store.index[p] # Nothing
  /\ kind \notin Prefixed => store.index = index

\* The fields of a store.
LEMMA RecordFacts ==
  ASSUME NEW c, NEW x
  PROVE  /\ [cache |-> c, index |-> x].cache = c /\ [cache |-> c, index |-> x].index = x
OBVIOUS

\* Promoting a complete prompt keeps the store sound and its caches as they are.
LEMMA PromotedStore ==
  ASSUME NEW r \in Requests, NEW store, Store(store), NEW logits, Promotable(r, store.index, logits),
         store.cache[r] = Alone(Prompt[r])
  PROVE  /\ Store(Promoted(store, r, logits))
         /\ Promoted(store, r, logits).cache = store.cache
         /\ \A p \in PromptPrefixes : store.index[p] # Nothing => Promoted(store, r, logits).index[p] # Nothing
<1> DEFINE x == Learned(store, r, logits)
           c == store.cache
           t == [cache |-> c, index |-> x]
<1>1. Promoted(store, r, logits) = t
  BY PromotedExact
<1>2. t.cache = c /\ t.index = x
  BY RecordFacts
<1>3. \A p \in PromptPrefixes : x[p] # Nothing => Exact(p, x[p])
  BY LearnedExact
<1>4. \A p \in PromptPrefixes : store.index[p] # Nothing => x[p] # Nothing
  BY LearnedExact
<1>5. x = [p \in PromptPrefixes |-> x[p]]
  BY DEF Learned
<1>6. c = [q \in Requests |-> c[q]]
  BY DEF Store
<1>7. t = [cache |-> t.cache, index |-> t.index]
  OBVIOUS
<1> HIDE DEF x, c, t
<1>8. Store(t)
  BY <1>2, <1>3, <1>5, <1>6, <1>7 DEF Store
<1>9. QED BY <1>1, <1>2, <1>4, <1>8 DEF c

\* Writing one more row keeps the store sound: that row has its entries, the others
\* are as they were.
LEMMA WrittenStore ==
  ASSUME NEW rows, NEW final, NEW result, Committable(rows, final, result),
         NEW n \in Nat, n + 1 <= Len(rows), NEW store, Partly(store, rows, n, result)
  PROVE  Partly(Written(store, rows[n + 1], final, result), rows, n + 1, result)
<1> DEFINE k == n + 1
           r == rows[k]
           e == result[r].entries
           logits == chunkLogits[r] \o result[r].rows
           c == [store.cache EXCEPT ![r] = @ \o e]
           x == store.index
           w == [cache |-> c, index |-> x]
<1>1. /\ rows \in Seq(Requests) /\ DOMAIN rows = 1 .. Len(rows) /\ Len(rows) \in Nat
      /\ \A i, j \in DOMAIN rows : rows[i] = rows[j] => i = j
  BY DEF Committable, RowsOf
<1>2. k \in DOMAIN rows /\ r \in Requests /\ r \in ToSet(rows)
  <2>1. k \in DOMAIN rows
    BY <1>1
  <2> HIDE DEF k
  <2>2. QED BY <1>1, <2>1 DEF ToSet
<1>3. ~ \E i \in 1 .. n : rows[i] = r
  <2>1. ASSUME NEW i \in 1 .. n, rows[i] = r PROVE FALSE
    <3>1. i \in DOMAIN rows /\ i # k
      BY <1>1
    <3> HIDE DEF k
    <3>2. QED BY <1>1, <1>2, <2>1, <3>1
  <2>2. QED BY <2>1
<1>4. store = [cache |-> store.cache, index |-> store.index] /\ store.cache = [q \in Requests |-> store.cache[q]]
  BY DEF Partly, Store
<1>5. [cache |-> [store.cache EXCEPT ![r] = @ \o result[r].entries], index |-> store.index] = w
  OBVIOUS
<1> HIDE DEF e
<1>6. c = [q \in Requests |-> c[q]] /\ \A q \in Requests : c[q] = IF q = r THEN store.cache[q] \o e ELSE store.cache[q]
  <2> HIDE DEF r
  <2>1. QED BY <1>2, <1>4
<1>7. store.cache[r] = cache[r]
  <2> HIDE DEF r
  <2>1. QED BY <1>2, <1>3 DEF Partly
<1>8. w.cache = c /\ w.index = x /\ w = [cache |-> w.cache, index |-> w.index]
  BY RecordFacts
<1>9. Store(w)
  <2>1. /\ x = [p \in PromptPrefixes |-> x[p]]
        /\ \A p \in PromptPrefixes : x[p] # Nothing => Exact(p, x[p])
    BY DEF Partly, Store
  <2> HIDE DEF w, c, x
  <2>2. QED BY <1>6, <1>8, <2>1 DEF Store
<1>10. ASSUME NEW q \in Requests
       PROVE  c[q] = IF \E i \in 1 .. k : rows[i] = q THEN cache[q] \o result[q].entries ELSE cache[q]
  <2>1. store.cache[q] = IF \E i \in 1 .. n : rows[i] = q THEN cache[q] \o result[q].entries ELSE cache[q]
    BY DEF Partly
  <2>2. (\E i \in 1 .. k : rows[i] = q) <=> (\E i \in 1 .. n : rows[i] = q) \/ q = r
    <3>1. \A i \in 1 .. k : i \in 1 .. n \/ i = k
      OBVIOUS
    <3>2. \A i \in 1 .. n : i \in 1 .. k
      OBVIOUS
    <3>3. k \in 1 .. k
      OBVIOUS
    <3> HIDE DEF k
    <3>4. QED BY <3>1, <3>2, <3>3
  <2> HIDE DEF c, r, k
  <2>3. CASE q = r
    BY <1>6, <1>7, <2>2, <2>3 DEF e
  <2>4. CASE q # r
    BY <1>6, <2>1, <2>2, <2>4
  <2>5. QED BY <2>3, <2>4
<1>11. \A p \in PromptPrefixes : index[p] # Nothing => x[p] # Nothing
  BY DEF Partly
<1>12. kind \notin Prefixed => x = index
  BY DEF Partly
<1> HIDE DEF w, c, x, logits
<1>13. CASE ~(kind \in Prefixed /\ r \in final)
  <2>1. Written(store, r, final, result) = w
    BY <1>5, <1>13 DEF Written, e
  <2> HIDE DEF r
  <2>2. Partly(w, rows, k, result)
    BY <1>8, <1>9, <1>10, <1>11, <1>12 DEF Partly
  <2>3. QED BY <2>1, <2>2 DEF r
<1>14. CASE kind \in Prefixed /\ r \in final
  <2> DEFINE t == Promoted(w, r, logits)
  <2>1. Written(store, r, final, result) = t
    BY <1>5, <1>14 DEF Written, e, logits
  <2>2. cache[r] \o e = Alone(Prompt[r]) /\ Promotable(r, index, logits)
    BY <1>2, <1>14 DEF Committable, e, logits
  <2>3. w.cache[r] = Alone(Prompt[r])
    <3> HIDE DEF r
    <3>1. QED BY <1>2, <1>6, <1>7, <1>8, <2>2
  <2>4. Promotable(r, w.index, logits)
    <3>1. ASSUME NEW b \in 1 .. shared[r] PROVE PrefixOf(r, b) \in PromptPrefixes
      <4> HIDE DEF r
      <4>1. shared[r] \in Nat /\ shared[r] <= FullBlocks(r) /\ FullBlocks(r) \in Nat
        BY <1>2, <2>2, PromptFacts DEF Promotable
      <4>2. b \in Nat /\ b <= FullBlocks(r) /\ b # 0
        BY <4>1
      <4>3. QED BY <1>2, <4>2, PrefixFacts
    <3> HIDE DEF r
    <3>2. QED BY <1>8, <1>11, <2>2, <3>1 DEF Promotable
  <2>5. /\ Store(t) /\ t.cache = w.cache
        /\ \A p \in PromptPrefixes : w.index[p] # Nothing => t.index[p] # Nothing
    <3> HIDE DEF r
    <3>1. QED BY <1>2, <1>9, <2>3, <2>4, PromotedStore
  <2> HIDE DEF r, t
  <2>6. Partly(t, rows, k, result)
    BY <1>8, <1>10, <1>11, <1>14, <2>5 DEF Partly
  <2>7. QED BY <2>1, <2>6 DEF r
<1>15. QED BY <1>13, <1>14

\* The recursion of Committed.
Committing(f, n, rows, final, result) ==
  f = [k \in 0 .. n |-> IF k = 0 THEN [cache |-> cache, index |-> index]
                        ELSE Written(f[k - 1], rows[k], final, result)]

\* The recursion of Committed has a solution, of any length.
LEMMA CommittingExists ==
  ASSUME NEW rows, NEW final, NEW result, NEW n \in Nat
  PROVE  \E f : Committing(f, n, rows, final, result)
<1> DEFINE bad == {k \in Nat : ~ \E f : Committing(f, k, rows, final, result)}
           start == [cache |-> cache, index |-> index]
<1>1. ASSUME bad # {}
      PROVE  FALSE
  <2>1. bad \in SUBSET Nat
    OBVIOUS
  <2>2. PICK k \in bad : \A m \in bad : k <= m
    <3> HIDE DEF bad
    <3>1. QED BY <1>1, <2>1, LeastNumber
  <2>3. k \in Nat /\ ~ \E f : Committing(f, k, rows, final, result)
    BY <2>2
  <2>4. k # 0
    <3> DEFINE e == [i \in 0 .. 0 |-> start]
    <3> HIDE DEF start
    <3>1. e = [i \in 0 .. 0 |-> IF i = 0 THEN start ELSE Written(e[i - 1], rows[i], final, result)]
      OBVIOUS
    <3>2. Committing(e, 0, rows, final, result)
      BY <3>1 DEF Committing, start
    <3>3. QED BY <2>3, <3>2
  <2>5. k - 1 \in Nat /\ k - 1 \notin bad
    <3> HIDE DEF bad
    <3>1. QED BY <2>2, <2>3, <2>4
  <2>6. PICK f : Committing(f, k - 1, rows, final, result)
    BY <2>5
  <2> DEFINE Part(i, g) == IF i = 0 THEN start ELSE Written(g[i - 1], rows[i], final, result)
             h == [i \in 0 .. k |-> IF i < k THEN f[i] ELSE Part(k, f)]
  <2>7. \A i \in 0 .. k : Part(i, h) = Part(i, f)
    <3> SUFFICES ASSUME NEW i \in 0 .. k
                 PROVE  Part(i, h) = Part(i, f)
      OBVIOUS
    <3>1. i # 0 => i - 1 \in 0 .. k /\ i - 1 < k
      BY <2>3
    <3>2. i # 0 => h[i - 1] = f[i - 1]
      BY <3>1
    <3> HIDE DEF h, start
    <3>3. QED BY <3>2
  <2>8. \A i \in 0 .. k : i < k => f[i] = Part(i, f)
    <3> SUFFICES ASSUME NEW i \in 0 .. k, i < k
                 PROVE  f[i] = Part(i, f)
      OBVIOUS
    <3>1. i \in 0 .. k - 1
      BY <2>3
    <3>2. f = [l \in 0 .. k - 1 |-> Part(l, f)]
      BY <2>6 DEF Committing
    <3> HIDE DEF Part
    <3>3. QED BY <3>1, <3>2
  <2>9. \A i \in 0 .. k : h[i] = Part(i, h)
    <3> SUFFICES ASSUME NEW i \in 0 .. k
                 PROVE  h[i] = Part(i, h)
      OBVIOUS
    <3>1. h[i] = IF i < k THEN f[i] ELSE Part(k, f)
      OBVIOUS
    <3>2. ~(i < k) => i = k
      BY <2>3
    <3> HIDE DEF h, Part
    <3>3. QED BY <2>7, <2>8, <3>1, <3>2
  <2>10. h = [i \in 0 .. k |-> h[i]]
    OBVIOUS
  <2>11. h = [i \in 0 .. k |-> Part(i, h)]
    <3> HIDE DEF h, Part
    <3>1. QED BY <2>9, <2>10
  <2>12. Committing(h, k, rows, final, result)
    BY <2>11 DEF Committing
  <2>13. QED BY <2>3, <2>12
<1>2. QED BY <1>1

\* Committing row after row writes each its entries, and keeps the index right.
LEMMA CommittedStore ==
  ASSUME NEW rows, NEW final, NEW result, Committable(rows, final, result)
  PROVE  Partly(Committed(rows, final, result), rows, Len(rows), result)
<1> DEFINE e == CHOOSE store : store = [n \in 0 .. Len(rows) |->
                                  IF n = 0 THEN [cache |-> cache, index |-> index]
                                  ELSE Written(store[n - 1], rows[n], final, result)]
           n == Len(rows)
           start == [cache |-> cache, index |-> index]
           bad == {k \in 0 .. n : ~Partly(e[k], rows, k, result)}
<1>1. n \in Nat /\ 0 \in 0 .. n /\ n \in 0 .. n
  BY DEF Committable, RowsOf
<1>2. PICK f : Committing(f, n, rows, final, result)
  BY <1>1, CommittingExists
<1>3. f = [k \in 0 .. Len(rows) |-> IF k = 0 THEN [cache |-> cache, index |-> index]
                                    ELSE Written(f[k - 1], rows[k], final, result)]
  BY <1>2 DEF Committing
<1>4. e = [k \in 0 .. Len(rows) |-> IF k = 0 THEN [cache |-> cache, index |-> index]
                                    ELSE Written(e[k - 1], rows[k], final, result)]
  BY <1>3
<1>5. Committed(rows, final, result) = e[n]
  BY Zenon DEF Committed
<1> HIDE DEF e
<1>6. \A k \in 0 .. n : e[k] = IF k = 0 THEN start ELSE Written(e[k - 1], rows[k], final, result)
  BY <1>4
<1>7. Partly(e[0], rows, 0, result)
  <2>1. e[0] = start
    BY <1>1, <1>6
  <2>2. start.cache = cache /\ start.index = index /\ start = [cache |-> start.cache, index |-> start.index]
    BY RecordFacts
  <2>3. \A p \in PromptPrefixes : index[p] # Nothing => Exact(p, index[p])
    BY DEF Committable, IndexExact, Exact, LastBlock
  <2>4. cache = [r \in Requests |-> cache[r]] /\ index = [p \in PromptPrefixes |-> index[p]]
    BY DEF Committable
  <2>5. ~ \E i \in 1 .. 0 : TRUE
    OBVIOUS
  <2> HIDE DEF start
  <2>6. Store(start)
    BY <2>2, <2>3, <2>4 DEF Store
  <2>7. QED BY <2>1, <2>2, <2>5, <2>6 DEF Partly
<1> HIDE DEF start
<1>8. ASSUME bad # {}
      PROVE  FALSE
  <2>1. bad \in SUBSET Nat
    BY <1>1
  <2>2. PICK k \in bad : \A q \in bad : k <= q
    <3> HIDE DEF bad
    <3>1. QED BY <1>8, <2>1, LeastNumber
  <2>3. k \in 0 .. n /\ ~Partly(e[k], rows, k, result) /\ k \in Nat
    BY <1>1, <2>2
  <2>4. k # 0
    BY <1>7, <2>3
  <2> DEFINE q == k - 1
  <2>5. q \in Nat /\ q \in 0 .. n /\ q + 1 = k /\ q + 1 <= n /\ ~(k <= q)
    BY <1>1, <2>3, <2>4
  <2>6. q \notin bad
    <3> HIDE DEF bad, n, q
    <3>1. QED BY <2>2, <2>5
  <2>7. Partly(e[q], rows, q, result)
    BY <2>5, <2>6
  <2>8. e[k] = Written(e[q], rows[k], final, result)
    BY <1>6, <2>3, <2>4
  <2> HIDE DEF q, bad
  <2> DEFINE b == e[q]
  <2>9. Partly(b, rows, q, result)
    BY <2>7
  <2> HIDE DEF b
  <2>10. Partly(Written(b, rows[q + 1], final, result), rows, q + 1, result)
    BY <2>5, <2>9, WrittenStore
  <2>11. QED BY <2>3, <2>5, <2>8, <2>10 DEF b
<1>9. n \notin bad
  BY <1>8
<1>10. QED BY <1>1, <1>5, <1>9

-----------------------------------------------------------------------------
(* Histories.                                                             *)

\* What is behind the first elements of a sequence.
Rest(s, n) == SubSeq(s, n + 1, Len(s))

\* What is left of a list after its first elements.
LEMMA RestFacts ==
  ASSUME NEW s, List(s), NEW n \in Nat, n <= Len(s)
  PROVE  /\ List(Rest(s, n)) /\ Len(Rest(s, n)) = Len(s) - n
         /\ First(s, n) \o Rest(s, n) = s
         /\ \A k \in Nat : k <= Len(s) - n => First(s, n) \o First(Rest(s, n), k) = First(s, n + k)
<1> DEFINE m == n + 1
           l == Len(s)
           t == Rest(s, n)
           f == First(s, n)
           u == f \o t
<1>1. l \in Nat
  BY ListFacts
<1>2. m \in Nat /\ 1 <= m /\ m <= l + 1 /\ l - m + 1 = l - n
  BY <1>1
<1>3. t = SubSeq(s, m, l)
  BY DEF Rest
<1> HIDE DEF t
<1>4. List(t) /\ Len(t) = l - n /\ \A i \in 1 .. l - n : t[i] = s[m + i - 1]
  <2>1. l <= Len(s)
    BY <1>1
  <2> HIDE DEF m, l
  <2>2. /\ List(SubSeq(s, m, l)) /\ Len(SubSeq(s, m, l)) = l - m + 1
        /\ \A i \in 1 .. l - m + 1 : SubSeq(s, m, l)[i] = s[m + i - 1]
    BY <1>1, <1>2, <2>1, ListSub
  <2>3. QED BY <1>2, <1>3, <2>2
<1>5. List(f) /\ Len(f) = n /\ \A i \in 1 .. n : f[i] = s[i]
  BY ListFirst
<1> HIDE DEF f
<1>6. List(u) /\ Len(u) = n + (l - n) /\ \A i \in 1 .. n + (l - n) : u[i] = IF i <= n THEN f[i] ELSE t[i - n]
  BY <1>4, <1>5, ListConcat
<1> HIDE DEF u
<1>7. ASSUME NEW i \in 1 .. l PROVE u[i] = s[i]
  <2>1. u[i] = IF i <= n THEN f[i] ELSE t[i - n]
    BY <1>1, <1>6
  <2>2. i <= n => i \in 1 .. n
    OBVIOUS
  <2>3. ~(i <= n) => i - n \in 1 .. l - n /\ m + (i - n) - 1 = i
    BY <1>1
  <2> HIDE DEF m, l
  <2>4. QED BY <1>4, <1>5, <2>1, <2>2, <2>3
<1>8. u = s
  <2>1. Len(u) = l
    BY <1>1, <1>6
  <2>2. QED BY <1>6, <1>7, <2>1, ListEqual
<1>9. ASSUME NEW k \in Nat, k <= l - n
      PROVE  f \o First(t, k) = First(s, n + k)
  <2>1. First(f \o t, Len(f) + k) = f \o First(t, k)
    BY <1>4, <1>5, <1>9, FirstOfBoth
  <2> DEFINE j == n + k
  <2>2. Len(f) + k = j
    BY <1>5
  <2> HIDE DEF j
  <2>3. First(f \o t, j) = f \o First(t, k)
    BY <2>1, <2>2
  <2>4. f \o t = s
    BY <1>8 DEF u
  <2>5. QED BY <2>3, <2>4 DEF j
<1>10. QED BY <1>4, <1>8, <1>9 DEF t, f, u

\* A list with one more element, without it.
LEMMA FrontAppend ==
  ASSUME NEW s, List(s), NEW x
  PROVE  Front(Append(s, x)) = s /\ Last(Append(s, x)) = x
<1> DEFINE t == Append(s, x)
           one == <<x>>
<1>1. /\ List(t) /\ Len(t) = Len(s) + 1 /\ t = s \o one
      /\ t[Len(s) + 1] = x /\ Len(s) \in Nat /\ List(one)
  BY ListAppend, ListFacts, ListOne
<1>2. Front(t) = First(t, Len(s))
  <2> DEFINE l == Len(s)
  <2>1. Len(t) - 1 = l
    BY <1>1
  <2> HIDE DEF l, t
  <2>2. QED BY <2>1 DEF Front, First, l
<1>3. First(s \o one, Len(s)) = First(s, Len(s))
  <2> HIDE DEF one
  <2>1. QED BY <1>1, FirstOfConcat
<1>4. First(s, Len(s)) = s
  BY FirstAll
<1> HIDE DEF t, one
<1>5. QED BY <1>1, <1>2, <1>3, <1>4 DEF Last, t

\* The window of the tokens before the last one.
HistoryOf(r, g) == Cropped(Front(Prompt[r] \o g))

\* A cropped history is a list that fits the window.
LEMMA CroppedList ==
  ASSUME NEW s, List(s)
  PROVE  /\ List(Cropped(s)) /\ (Len(s) # 0 => Len(Cropped(s)) # 0)
         /\ Len(s) <= Window => Cropped(s) = s
         /\ ~(Len(s) <= Window) => Len(Cropped(s)) = Window
<1>1. Window \in Nat \ {0} /\ Len(s) \in Nat
  BY ExecutionAssumption, ListFacts DEF ExecutionAssumption
<1>2. CASE Len(s) <= Window
  BY <1>2 DEF Cropped
<1>3. CASE ~(Len(s) <= Window)
  <2> DEFINE n == Len(s) - Window
             t == Rest(s, n)
  <2>1. n \in Nat /\ n <= Len(s) /\ Len(s) - n = Window
    BY <1>1, <1>3
  <2>2. Cropped(s) = t
    BY <1>3 DEF Cropped, Rest
  <2> HIDE DEF n
  <2>3. List(t) /\ Len(t) = Len(s) - n
    BY <2>1, RestFacts
  <2> HIDE DEF t
  <2>4. QED BY <1>1, <1>3, <2>1, <2>2, <2>3
<1>4. QED BY <1>2, <1>3

\* A history, with the tokens generated and without the last of them.
LEMMA HistoryFacts ==
  ASSUME NEW r \in Requests, NEW g, g \in Seq(Vocabulary)
  PROVE  /\ List(g) /\ List(Prompt[r] \o g) /\ Len(Prompt[r] \o g) # 0
         /\ (g = <<>> => Prompt[r] \o g = Prompt[r])
         /\ \A x : HistoryOf(r, Append(g, x)) = Cropped(Prompt[r] \o g)
         /\ (g # <<>> => /\ List(Front(Prompt[r] \o g))
                         /\ Prompt[r] \o g = Append(Front(Prompt[r] \o g), Last(g))
                         /\ Len(Front(Prompt[r] \o g)) = Len(Prompt[r] \o g) - 1)
<1> DEFINE p == Prompt[r]
           s == p \o g
<1>1. List(p) /\ Len(p) \in Nat /\ Len(p) # 0
  BY PromptFacts
<1>2. List(g)
  BY DEF List
<1>3. List(s) /\ Len(s) = Len(p) + Len(g) /\ Len(g) \in Nat
      /\ \A i \in 1 .. Len(p) + Len(g) : s[i] = IF i <= Len(p) THEN p[i] ELSE g[i - Len(p)]
  BY <1>1, <1>2, ListConcat, ListFacts
<1>4. g = <<>> => s = p
  BY <1>1, ConcatEmpty
<1>5. ASSUME NEW x PROVE HistoryOf(r, Append(g, x)) = Cropped(s)
  <2> DEFINE one == <<x>>
  <2>1. Append(g, x) = g \o one /\ List(one) /\ Append(s, x) = s \o one
    BY <1>2, <1>3, ListAppend, ListOne
  <2> HIDE DEF one
  <2>2. p \o (g \o one) = (p \o g) \o one
    <3> HIDE DEF p, s
    <3>1. List(p) /\ List(g) /\ List(one)
      BY <1>1, <1>2, <2>1
    <3>2. QED BY <3>1, ListAssociative
  <2>3. p \o Append(g, x) = Append(s, x)
    BY <2>1, <2>2
  <2> HIDE DEF s, p
  <2>4. Front(Append(s, x)) = s
    BY <1>3, FrontAppend
  <2>5. QED BY <2>3, <2>4 DEF HistoryOf, p
<1>6. ASSUME g # <<>>
      PROVE  List(Front(s)) /\ s = Append(Front(s), Last(g)) /\ Len(Front(s)) = Len(s) - 1
  <2>1. Len(g) # 0
    BY <1>2, <1>6
  <2>2. Len(s) # 0 /\ Len(s) \in 1 .. Len(p) + Len(g) /\ ~(Len(s) <= Len(p)) /\ Len(s) - Len(p) = Len(g)
    BY <1>1, <1>3, <2>1
  <2>3. s[Len(s)] = g[Len(g)]
    <3> HIDE DEF s, p
    <3>1. QED BY <1>3, <2>2
  <2> HIDE DEF s, p
  <2>4. List(Front(s)) /\ Len(Front(s)) = Len(s) - 1 /\ s = Append(Front(s), Last(s)) /\ Last(s) = s[Len(s)]
    BY <1>3, <2>2, FrontLast
  <2>5. Last(s) = Last(g)
    BY <2>3, <2>4 DEF Last
  <2>6. QED BY <2>4, <2>5
<1>7. Len(s) # 0
  BY <1>1, <1>3
<1> HIDE DEF s
<1>8. QED BY <1>2, <1>3, <1>4, <1>5, <1>6, <1>7 DEF s

-----------------------------------------------------------------------------
(* The invariant.                                                         *)

\* The phases of a request.
Phases == {"waiting", "prefilling", "decoding", "preempted", "finished", "failed"}

\* Types, and what only an executor with prefixes has.
ExecutionTypes ==
  /\ kind \in Kinds
  /\ phase \in [Requests -> Phases]
  /\ generated \in [Requests -> Seq(Vocabulary)]
  /\ shared \in [Requests -> Nat]
  /\ drawn = [r \in Requests |-> drawn[r]]
  /\ cache = [r \in Requests |-> cache[r]] /\ \A r \in Requests : List(cache[r])
  /\ chunkLogits = [r \in Requests |-> chunkLogits[r]] /\ \A r \in Requests : List(chunkLogits[r])
  /\ index = [p \in PromptPrefixes |-> index[p]]
  /\ kind \notin Prefixed => \A p \in PromptPrefixes : index[p] = Nothing

\* What a request has before its first token.
WaitingClean ==
  \A r \in Requests : phase[r] = "waiting" =>
    generated[r] = <<>> /\ cache[r] = <<>> /\ chunkLogits[r] = <<>>

\* A prompt under way: its shared blocks are known, and behind them there is
\* nothing unless it is run in chunks, whose logits are kept.
PromptUnderWay(r) ==
  /\ generated[r] = <<>>
  /\ cache[r] = First(Alone(Prompt[r]), Len(cache[r])) /\ Len(cache[r]) <= Len(Prompt[r])
  /\ shared[r] <= FullBlocks(r) /\ shared[r] * BlockTokens <= Len(cache[r])
  /\ \A b \in 1 .. shared[r] : index[PrefixOf(r, b)] # Nothing
  /\ kind \notin Prefixed => shared[r] = 0
  /\ \/ Len(cache[r]) = shared[r] * BlockTokens
     \/ kind \in Chunked /\ Len(cache[r]) < Len(Prompt[r])
  /\ kind \in Prefixed =>
       cache[r] = First(Alone(Prompt[r]), shared[r] * BlockTokens) \o chunkLogits[r]

\* So is every prompt that is being prefilled.
PromptsUnderWay == \A r \in Requests : phase[r] = "prefilling" => PromptUnderWay(r)

\* A request that decodes has drawn a token, and a cache for all before it.
Decoding ==
  \A r \in Requests :
    /\ phase[r] \in {"decoding", "preempted"} => generated[r] # <<>>
    /\ phase[r] = "decoding" => cache[r] = Alone(History(r))

\* The inductive invariant.
ExecutionInvariant ==
  /\ ExecutionTypes /\ WaitingClean /\ PromptsUnderWay /\ Decoding
  /\ TokensExact /\ IndexExact

\* An index that is exact, entry by entry.
LEMMA IndexKnown ==
  ASSUME IndexExact
  PROVE  \A p \in PromptPrefixes : index[p] # Nothing => Exact(p, index[p])
BY DEF IndexExact, Exact, LastBlock

\* A segment goes on where the cache ends.
GoesOn(s, m, n, past, tokens) ==
  /\ List(s) /\ m \in Nat /\ n \in Nat /\ m < n /\ n <= Len(s)
  /\ past = First(Alone(s), m) /\ tokens = First(Rest(s, m), n - m)

\* A segment of a sequence, run over what the model alone computes of the tokens
\* before it, gives what the model alone computes.
LEMMA SegmentStep ==
  ASSUME NEW s, NEW m, NEW n, NEW past, NEW tokens, GoesOn(s, m, n, past, tokens), NEW padded \in Int
  PROVE  /\ SegmentRow(past, tokens, padded).logits = Last(Alone(First(s, n)))
         /\ past \o SegmentRow(past, tokens, padded).entries = First(Alone(s), n)
         /\ SegmentRow(past, tokens, padded).rows = SegmentRow(past, tokens, padded).entries
         /\ List(SegmentRow(past, tokens, padded).entries)
         /\ Len(past) = m
<1> DEFINE f == First(s, m)
           row == SegmentRow(past, tokens, padded)
           c == Causal(past, Len(f), tokens)
           k == n - m
<1>0. /\ List(s) /\ m \in Nat /\ n \in Nat /\ m < n /\ n <= Len(s)
      /\ past = First(Alone(s), m) /\ tokens = First(Rest(s, m), k)
  BY DEF GoesOn
<1>1. m <= Len(s) /\ k <= Len(s) - m /\ Len(s) \in Nat /\ k \in Nat /\ k # 0 /\ m + k = n
  BY <1>0, ListFacts
<1> HIDE DEF k
<1>2. List(f) /\ Len(f) = m
  BY <1>0, <1>1, ListFirst
<1>3. past = Alone(f)
  BY <1>0, <1>1, AloneFacts
<1>4. List(past) /\ Len(past) = m
  BY <1>2, <1>3, AloneFacts
<1>5. List(Rest(s, m)) /\ Len(Rest(s, m)) = Len(s) - m /\ f \o tokens = First(s, n)
  <2>1. First(s, m) \o First(Rest(s, m), k) = First(s, m + k)
    BY <1>0, <1>1, RestFacts, ZenonT(60)
  <2>2. QED BY <1>0, <1>1, <2>1, RestFacts
<1>6. List(tokens) /\ Len(tokens) = k
  BY <1>1, <1>5, <1>0, ListFirst
<1> HIDE DEF f
<1>7. row.logits = Last(Alone(f \o tokens)) /\ row.entries = c /\ row.rows = c
  BY <1>1, <1>2, <1>3, <1>6, SegmentExact
<1>8. Alone(f \o tokens) = past \o c
  BY <1>2, <1>3, <1>6, AloneConcat
<1>9. Alone(First(s, n)) = First(Alone(s), n)
  BY <1>0, AloneFacts
<1>10. List(c)
  BY <1>6, CausalFacts DEF IsCausal
<1> HIDE DEF row, c
<1>11. /\ row.logits = Last(Alone(First(s, n))) /\ past \o row.entries = First(Alone(s), n)
       /\ row.rows = row.entries /\ List(row.entries)
  BY <1>5, <1>7, <1>8, <1>9, <1>10
<1>12. QED BY <1>4, <1>11 DEF row

\* What is behind the cache of a prompt under way.
LEMMA UnderWayFacts ==
  ASSUME ExecutionTypes, NEW r \in Requests, PromptUnderWay(r)
  PROVE  /\ List(Prompt[r]) /\ Len(cache[r]) \in Nat /\ List(cache[r])
         /\ Suffix(r) = Rest(Prompt[r], Len(cache[r]))
         /\ List(Suffix(r)) /\ Len(Suffix(r)) = Len(Prompt[r]) - Len(cache[r])
         /\ (Suffix(r) = <<>> <=> Len(cache[r]) = Len(Prompt[r]))
         /\ All(r) = Prompt[r] /\ Cropped(All(r)) = Prompt[r]
<1> DEFINE p == Prompt[r]
           m == Len(cache[r])
<1>1. List(p) /\ Len(p) \in Nat /\ Len(p) <= Window
  BY PromptFacts
<1>2. List(cache[r]) /\ m \in Nat /\ m <= Len(p)
  BY ListFacts DEF ExecutionTypes, PromptUnderWay
<1>3. Suffix(r) = Rest(p, m)
  BY DEF Suffix, Rest
<1> HIDE DEF m
<1>4. List(Rest(p, m)) /\ Len(Rest(p, m)) = Len(p) - m
  BY <1>1, <1>2, RestFacts
<1>5. Suffix(r) = <<>> <=> m = Len(p)
  <2> DEFINE t == Rest(p, m)
  <2>1. List(t) /\ Len(t) = Len(p) - m
    BY <1>4
  <2> HIDE DEF t, p
  <2>2. t = <<>> <=> Len(t) = 0
    BY <2>1, ListOne, ListEqual
  <2>3. t = <<>> <=> m = Len(p)
    BY <1>1, <1>2, <2>1, <2>2
  <2>4. QED BY <1>3, <2>3 DEF t
<1>6. All(r) = p
  <2>1. generated[r] = <<>>
    BY DEF PromptUnderWay
  <2>2. QED BY <1>1, <2>1, ConcatEmpty DEF All
<1>7. Cropped(p) = p
  BY <1>1, CroppedList
<1>8. QED BY <1>1, <1>2, <1>3, <1>4, <1>5, <1>6, <1>7 DEF m, p

\* What a call makes of a row: the logits at the end of the prompt, and the rest of
\* its entries.
PromptRun(r, x) ==
  /\ x.logits = Last(Alone(Cropped(All(r))))
  /\ cache[r] \o x.entries = Alone(Prompt[r])
  /\ kind \in Prefixed => Promotable(r, index, chunkLogits[r] \o x.rows)

\* The same for the last chunk of a prompt.
LEMMA LastSegment ==
  ASSUME ExecutionTypes, NEW r \in Requests, PromptUnderWay(r), Suffix(r) # <<>>, NEW padded \in Int
  PROVE  PromptRun(r, SegmentRow(cache[r], Suffix(r), padded))
<1> DEFINE p == Prompt[r]
           n == Len(p)
           m == Len(cache[r])
           k == n - m
           past == cache[r]
           tokens == Suffix(r)
           row == SegmentRow(past, tokens, padded)
           a == Alone(p)
<1>1. /\ List(p) /\ m \in Nat /\ List(past) /\ tokens = Rest(p, m) /\ m # n
      /\ Len(tokens) = k /\ List(tokens) /\ All(r) = p /\ Cropped(All(r)) = p
  BY UnderWayFacts
<1>2. m <= n /\ past = First(a, m) /\ n \in Nat
  BY PromptFacts DEF PromptUnderWay
<1>3. k \in Nat /\ k # 0 /\ n = m + k /\ n <= Len(p)
  BY <1>1, <1>2
<1>4. tokens = First(Rest(p, m), k)
  <2> HIDE DEF tokens, k
  <2>1. First(tokens, Len(tokens)) = tokens
    BY <1>1, FirstAll
  <2>2. QED BY <1>1, <2>1
<1>5. List(a) /\ First(a, n) = a /\ First(p, n) = p
  <2>1. List(a) /\ Len(a) = n
    BY <1>1, AloneFacts
  <2>2. First(a, Len(a)) = a /\ First(p, Len(p)) = p
    BY <1>1, <2>1, FirstAll
  <2>3. QED BY <2>1, <2>2
<1>6. /\ row.logits = Last(Alone(First(p, n))) /\ past \o row.entries = First(a, n)
      /\ row.rows = row.entries /\ List(row.entries)
  <2>1. GoesOn(p, m, n, past, tokens)
    <3> HIDE DEF tokens, n, m, past, a, p
    <3>1. m < n /\ n <= Len(p)
      BY <1>1, <1>2 DEF n
    <3>2. QED BY <1>1, <1>2, <1>4, <3>1 DEF GoesOn, a
  <2> HIDE DEF n, m, k, past, p, tokens, a, row
  <2>2. row = SegmentRow(past, tokens, padded) /\ a = Alone(p)
    BY DEF a, row
  <2>3. /\ SegmentRow(past, tokens, padded).logits = Last(Alone(First(p, n)))
        /\ past \o SegmentRow(past, tokens, padded).entries = First(Alone(p), n)
        /\ SegmentRow(past, tokens, padded).rows = SegmentRow(past, tokens, padded).entries
        /\ List(SegmentRow(past, tokens, padded).entries)
    BY <2>1, SegmentStep
  <2>4. QED BY <2>2, <2>3
<1> HIDE DEF row, n, m, k
<1>7. row.logits = Last(Alone(p)) /\ past \o row.entries = a
  BY <1>5, <1>6
<1>8. ASSUME kind \in Prefixed
      PROVE  Promotable(r, index, chunkLogits[r] \o row.rows)
  <2> DEFINE l == shared[r] * BlockTokens
             c == chunkLogits[r]
             f == First(a, l)
             e == row.rows
  <2>1. past = f \o c
    BY <1>8 DEF PromptUnderWay
  <2>2. /\ shared[r] \in Nat /\ shared[r] <= FullBlocks(r) /\ List(c)
        /\ \A b \in 1 .. shared[r] : index[PrefixOf(r, b)] # Nothing
    BY DEF PromptUnderWay, ExecutionTypes
  <2>3. l \in Nat /\ l <= Len(a)
    <3>1. l \in Nat /\ l <= FullBlocks(r) * BlockTokens /\ FullBlocks(r) * BlockTokens \in Nat
      BY <2>2, PromptFacts, Multiples
    <3>2. FullBlocks(r) * BlockTokens <= Len(p) /\ Len(a) = Len(p) /\ Len(p) \in Nat
      BY <1>1, PromptFacts, AloneFacts
    <3> HIDE DEF l, a, p
    <3>3. QED BY <3>1, <3>2 DEF p
  <2> HIDE DEF l, c
  <2>4. List(f)
    BY <1>5, <2>3, ListFirst
  <2>5. List(e) /\ e = row.entries
    BY <1>6
  <2> HIDE DEF f, e, past, a
  <2>6. List(c \o e) /\ a = f \o (c \o e)
    <3>1. (f \o c) \o e = f \o (c \o e)
      <4>1. List(f) /\ List(c) /\ List(e)
        BY <2>2, <2>4, <2>5
      <4>2. QED BY <4>1, ListAssociative
    <3>2. List(c \o e)
      BY <2>2, <2>5, ListConcat
    <3>3. QED BY <1>7, <2>1, <2>5, <3>1, <3>2
  <2>7. QED BY <2>2, <2>6 DEF Promotable, f, c, e, a, l, p
<1>9. row = SegmentRow(cache[r], Suffix(r), padded)
  BY DEF row
<1> HIDE DEF past, a
<1>10. QED BY <1>1, <1>7, <1>8, <1>9 DEF PromptRun, past, a

-----------------------------------------------------------------------------
(* The results of a call.                                                 *)

\* A prompt found complete in the cache: it has nothing to run.
LEMMA ResidentExact ==
  ASSUME ExecutionTypes, IndexExact, NEW r \in Requests, PromptUnderWay(r), Suffix(r) = <<>>, NEW x,
         x.logits = index[Prompt[r]].logits, x.entries = <<>>, x.rows = <<>>
  PROVE  PromptRun(r, x)
<1> DEFINE p == Prompt[r]
           a == Alone(p)
           b == shared[r]
           l == b * BlockTokens
           c == chunkLogits[r]
<1>1. /\ List(p) /\ Len(cache[r]) = Len(p) /\ List(cache[r]) /\ Cropped(All(r)) = p
  BY UnderWayFacts
<1>2. Len(p) \in Nat /\ Len(p) # 0
  BY PromptFacts
<1>3. b \in Nat /\ b <= FullBlocks(r) /\ l = Len(p) /\ \A d \in 1 .. b : index[PrefixOf(r, d)] # Nothing
  <2>1. ~(Len(cache[r]) < Len(p))
    BY <1>1, <1>2
  <2>2. QED BY <1>1, <2>1 DEF PromptUnderWay, ExecutionTypes
<1>4. List(a) /\ Len(a) = Len(p) /\ First(a, Len(p)) = a /\ First(p, Len(p)) = p
  <2>1. List(a) /\ Len(a) = Len(p)
    BY <1>1, AloneFacts
  <2>2. First(a, Len(a)) = a /\ First(p, Len(p)) = p
    BY <1>1, <2>1, FirstAll
  <2>3. QED BY <2>1, <2>2
<1>5. cache[r] = a
  BY <1>1, <1>4 DEF PromptUnderWay
<1>6. b # 0
  <2>1. BlockTokens \in Nat
    BY PromptFacts
  <2>2. b = 0 => l = 0
    BY <2>1
  <2> HIDE DEF b, l, p
  <2>3. QED BY <1>2, <1>3, <2>2
<1>7. PrefixOf(r, b) = p /\ p \in PromptPrefixes
  <2> HIDE DEF b
  <2>1. PrefixOf(r, b) = First(p, l) /\ PrefixOf(r, b) \in PromptPrefixes
    BY <1>3, <1>6, PrefixFacts
  <2>2. QED BY <1>3, <1>4, <2>1
<1>8. x.logits = Last(a)
  <2>1. b \in 1 .. b
    BY <1>3, <1>6
  <2>2. index[p] # Nothing
    <3> HIDE DEF b
    <3>1. QED BY <1>3, <1>7, <2>1
  <2>3. Exact(p, index[p])
    BY <1>7, <2>2, IndexKnown
  <2>4. QED BY <2>3 DEF Exact
<1>9. cache[r] \o x.entries = a
  BY <1>4, <1>5, ConcatEmpty
<1>10. ASSUME kind \in Prefixed
       PROVE  Promotable(r, index, c \o x.rows)
  <2>1. List(c) /\ c \o x.rows = c
    BY ConcatEmpty DEF ExecutionTypes
  <2>2. a = First(a, l) \o c
    BY <1>5, <1>10 DEF PromptUnderWay
  <2> HIDE DEF c, a
  <2>3. Promotable(r, index, c)
    BY <1>3, <2>1, <2>2 DEF Promotable, a
  <2>4. QED BY <2>1, <2>3
<1> HIDE DEF c, a
<1>11. QED BY <1>1, <1>8, <1>9, <1>10 DEF PromptRun, a, c

\* Whatever the executor and the call, a prefill makes of a row what the model alone
\* makes of its prompt.
LEMMA PrefillResultExact ==
  ASSUME ExecutionTypes, IndexExact, NEW r \in Requests, PromptUnderWay(r),
         kind \in Chunked => Suffix(r) = <<>>,
         NEW call \in Seq(Requests), call # <<>>
  PROVE  PromptRun(r, PrefillResult(r, call))
<1> DEFINE p == Prompt[r]
           x == PrefillResult(r, call)
<1>1. /\ List(p) /\ Cropped(All(r)) = p /\ Len(p) # 0 /\ Len(p) \in Nat
  BY UnderWayFacts, PromptFacts
<1>2. ToSet(call) \subseteq Requests
  BY DEF ToSet
<1>3. CASE kind \in {"reference", "continuous decode", "continuous", "materialized", "paged"}
  <2>1. PICK padded \in Int : x = PrefillRow(p, padded)
    <3>1. CASE kind \in {"reference", "continuous decode"}
      <4>1. x = PrefillRow(p, Len(p))
        BY <1>1, <3>1 DEF PrefillResult
      <4>2. QED BY <1>1, <4>1
    <3>2. CASE kind \in {"continuous", "materialized", "paged"}
      <4>1. x = PrefillRow(p, Longest(call, PromptLength))
        BY <3>2 DEF PrefillResult
      <4>2. \A q \in Requests : PromptLength[q] \in Nat
        BY PromptFacts DEF PromptLength
      <4>3. Longest(call, PromptLength) \in Int
        BY <1>2, <4>2, LongestType
      <4>4. QED BY <4>1, <4>3
    <3>3. QED BY <1>3, <3>1, <3>2
  <2>2. x.logits = Last(Alone(p)) /\ x.entries = Alone(p)
    <3> HIDE DEF x, p
    <3>1. QED BY <1>1, <2>1, PrefillExact
  <2>3. kind \notin Prefixed /\ kind \notin Chunked
    BY <1>3 DEF Prefixed, Chunked
  <2>4. cache[r] = <<>>
    <3>1. shared[r] = 0 /\ Len(cache[r]) = shared[r] * BlockTokens /\ List(cache[r])
      BY <2>3 DEF PromptUnderWay, ExecutionTypes
    <3>2. BlockTokens \in Nat
      BY PromptFacts
    <3>3. 0 * BlockTokens = 0
      BY <3>2
    <3>4. Len(cache[r]) = 0
      BY <3>1, <3>3
    <3>5. QED BY <3>1, <3>4, ListOne, ListEqual
  <2>5. cache[r] \o x.entries = Alone(p)
    <3>1. List(Alone(p))
      BY <1>1, AloneFacts
    <3>2. QED BY <2>2, <2>4, <3>1, ConcatEmpty
  <2> HIDE DEF x
  <2>6. QED BY <1>1, <2>2, <2>3, <2>5 DEF PromptRun, x
<1>4. CASE kind \notin {"reference", "continuous decode", "continuous", "materialized", "paged"}
  <2>1. CASE Suffix(r) = <<>>
    <3> DEFINE y == [logits |-> index[Prompt[r]].logits, entries |-> <<>>, rows |-> <<>>]
    <3>1. x = y
      BY <1>4, <2>1 DEF PrefillResult
    <3>2. y.logits = index[Prompt[r]].logits /\ y.entries = <<>> /\ y.rows = <<>>
      OBVIOUS
    <3> HIDE DEF y
    <3>3. PromptRun(r, y)
      BY <2>1, <3>2, ResidentExact
    <3>4. QED BY <3>1, <3>3
  <2>2. CASE Suffix(r) # <<>>
    <3>1. x = SegmentRow(cache[r], Suffix(r), Longest(call, SuffixLength))
      BY <1>4, <2>2 DEF PrefillResult
    <3>2. ASSUME NEW q \in Requests
          PROVE  SuffixLength[q] \in Nat
      <4> DEFINE n == Len(cache[q]) + 1
                 s == Prompt[q]
                 t == SubSeq(s, n, Len(s))
      <4>1. List(cache[q])
        BY DEF ExecutionTypes
      <4>2. n \in Nat /\ s \in Seq(Vocabulary) /\ Len(s) \in Nat
        BY <4>1, ListFacts, PromptFacts
      <4> HIDE DEF n, s
      <4>3. n >= 1
        BY <4>1, ListFacts DEF n
      <4>4. t \in Seq(Vocabulary)
        BY <4>2, <4>3
      <4>5. Len(t) \in Nat
        BY <4>4
      <4>6. SuffixLength[q] = Len(t)
        BY DEF SuffixLength, Suffix, n, s
      <4>7. QED BY <4>5, <4>6
    <3>3. Longest(call, SuffixLength) \in Int
      BY <1>2, <3>2, LongestType
    <3>4. QED BY <2>2, <3>1, <3>3, LastSegment
  <2>3. QED BY <2>1, <2>2
<1>5. QED BY <1>3, <1>4

\* A decode makes of a row what the model alone makes of all its tokens, and so does
\* what is stored of it.
LEMMA DecodeResultExact ==
  ASSUME ExecutionTypes, NEW r \in Requests, generated[r] # <<>>, cache[r] = Alone(History(r)),
         NEW call \in Seq(Requests), call # <<>>
  PROVE  /\ DecodeResult(r, call).logits = Last(Alone(Cropped(All(r))))
         /\ DecodeStored(r, DecodeResult(r, call)) = Alone(Cropped(All(r)))
<1> DEFINE g == generated[r]
           all == Prompt[r] \o g
           f == Front(all)
           h == Cropped(f)
           token == Last(g)
           past == cache[r]
           window == Cropped(all)
           x == DecodeResult(r, call)
<1>1. g \in Seq(Vocabulary)
  BY DEF ExecutionTypes
<1>2. List(all) /\ List(f) /\ all = Append(f, token) /\ Len(f) = Len(all) - 1 /\ Len(all) # 0
  <2> HIDE DEF g
  <2>1. g # <<>>
    BY DEF g
  <2>2. QED BY <1>1, <2>1, HistoryFacts
<1>3. All(r) = all /\ past = Alone(h) /\ Cropped(All(r)) = window
  BY DEF All, History
<1>4. Window \in Nat /\ Len(all) \in Nat
  BY <1>2, PromptFacts, ListFacts
<1> HIDE DEF all, token
<1>5. List(h) /\ (Len(f) <= Window => h = f) /\ (~(Len(f) <= Window) => Len(h) = Window)
  <2> HIDE DEF f
  <2>1. QED BY <1>2, CroppedList
<1>6. List(window) /\ Len(window) # 0 /\ Len(window) \in Nat
  BY <1>2, CroppedList, ListFacts
<1>7. Len(past) = Len(h) /\ Len(h) \in Nat
  <2> HIDE DEF h
  <2>1. QED BY <1>3, <1>5, AloneFacts, ListFacts
<1>8. CASE Overflows(r)
  <2>1. x = PrefillRow(window, Len(window))
    BY <1>3, <1>8 DEF DecodeResult
  <2>2. DecodeStored(r, x) = x.entries
    BY <1>8 DEF DecodeStored
  <2>3. Len(window) \in Int
    BY <1>6
  <2> HIDE DEF x, window
  <2>4. x.logits = Last(Alone(window)) /\ x.entries = Alone(window)
    BY <1>6, <2>1, <2>3, PrefillExact
  <2>5. QED BY <1>3, <2>2, <2>4 DEF x
<1>9. CASE ~Overflows(r)
  <2>1. h = f /\ window = all
    <3>1. Len(past) < Window
      BY <1>4, <1>7, <1>9 DEF Overflows
    <3>2. Len(f) <= Window /\ h = f
      BY <1>2, <1>4, <1>5, <1>7, <3>1
    <3>3. Len(f) < Window
      <4> HIDE DEF f, h, past
      <4>1. QED BY <1>7, <3>1, <3>2
    <3>4. Len(all) <= Window
      <4> HIDE DEF f
      <4>1. QED BY <1>2, <1>4, <3>3
    <3>5. window = all
      BY <1>2, <3>4, CroppedList
    <3>6. QED BY <3>2, <3>5
  <2>2. all = Append(h, token)
    BY <1>2, <2>1
  <2> HIDE DEF h, f
  <2>3. CASE kind \in Dense \cup {"materialized"}
    <3>1. PICK padded \in Int : x = DecodeRow(past, token, padded)
      <4>1. \A q \in Requests : CacheLength[q] \in Nat
        BY ListFacts DEF ExecutionTypes, CacheLength
      <4>2. CASE kind = "reference"
        <5>1. x = DecodeRow(past, token, CacheLength[r])
          BY <1>9, <4>2 DEF DecodeResult, token
        <5>2. CacheLength[r] \in Int
          BY <4>1
        <5>3. QED BY <5>1, <5>2
      <4>3. CASE kind # "reference"
        <5>1. x = DecodeRow(past, token, Longest(call, CacheLength))
          BY <1>9, <2>3, <4>3 DEF DecodeResult, token
        <5>2. ToSet(call) \subseteq Requests
          BY DEF ToSet
        <5>3. Longest(call, CacheLength) \in Int
          BY <4>1, <5>2, LongestType
        <5>4. QED BY <5>1, <5>3
      <4>4. QED BY <4>2, <4>3
    <3> HIDE DEF x, past
    <3>2. /\ x.logits = Last(Alone(all)) /\ x.entries = Alone(all)
          /\ Append(past, Last(x.entries)) = Alone(all)
      BY <1>3, <1>5, <2>2, <3>1, DecodeExact
    <3>3. DecodeStored(r, x) = x.entries \/ DecodeStored(r, x) = Append(past, Last(x.entries))
      BY DEF DecodeStored, past
    <3>4. QED BY <1>3, <2>1, <3>2, <3>3 DEF x
  <2>4. CASE kind \notin Dense \cup {"materialized"}
    <3> DEFINE one == <<token>>
               l == Len(h)
    <3>1. x = SegmentRow(past, one, 1)
      BY <1>9, <2>4 DEF DecodeResult, Dense, token
    <3>2. List(one) /\ Len(one) # 0 /\ 1 \in Int
      BY ListOne
    <3>3. Causal(past, l, one) = << <<l, token, past>> >>
      <4>1. List(past) /\ l \in Int
        BY <1>3, <1>5, <1>7, AloneFacts
      <4> HIDE DEF l, past
      <4>2. QED BY <4>1, CausalOne
    <3>4. h \o one = all
      BY <1>5, <2>2, ListAppend
    <3> HIDE DEF one, x
    <3>5. x.logits = Last(Alone(h \o one)) /\ x.entries = Causal(past, l, one)
      <4> DEFINE padded == 1
      <4>1. padded \in Int /\ x = SegmentRow(past, one, padded)
        BY <3>1
      <4> HIDE DEF padded, past
      <4>2. QED BY <1>3, <1>5, <3>2, <4>1, SegmentExact
    <3>6. Last(x.entries) = <<l, token, past>>
      <4> DEFINE e == <<l, token, past>>
                 s == <<e>>
      <4>1. x.entries = s
        BY <3>3, <3>5
      <4> HIDE DEF e
      <4>2. Len(s) = 1 /\ s[1] = e
        OBVIOUS
      <4>3. Last(s) = e
        BY <4>2 DEF Last
      <4>4. QED BY <4>1, <4>3 DEF e
    <3>7. Alone(all) = Append(past, <<l, token, past>>)
      <4> HIDE DEF past, l
      <4>1. QED BY <1>3, <1>5, <2>2, AloneAppend DEF l
    <3>8. DecodeStored(r, x) = Append(past, Last(x.entries))
      BY <1>9, <2>4 DEF DecodeStored
    <3> HIDE DEF past, l
    <3>9. QED BY <1>3, <2>1, <3>4, <3>5, <3>6, <3>7, <3>8 DEF x
  <2>5. QED BY <2>3, <2>4
<1>10. QED BY <1>8, <1>9

-----------------------------------------------------------------------------
(* What a call leaves.                                                    *)

\* What Apply makes of one request.
AppliedTo(r, final, failed, store) ==
  /\ r \in final \ failed =>
       /\ generated'[r] # <<>> /\ HistoryOf(r, generated'[r]) = Cropped(All(r))
       /\ phase'[r] \in {"decoding", "finished"}
       /\ phase'[r] = "decoding" => MoreToCome(r) /\ cache'[r] = store[r]
  /\ r \in failed => phase'[r] = "failed"
  /\ r \notin final \cup failed =>
       phase'[r] = phase[r] /\ generated'[r] = generated[r] /\ cache'[r] = store[r]

\* An Apply of results that are right.
Applying(final, failed, result, token, store) ==
  /\ final \in SUBSET Requests /\ token \in [final -> Vocabulary]
  /\ Apply(final, failed, result, token, store)
  /\ \A r \in final \ failed : result[r].logits = Last(Alone(Cropped(All(r))))
  /\ \A r \in Requests : List(store[r])

\* What a call's results do to one request: its token is drawn from its own logits,
\* and a request outside the call is left alone.
LEMMA ApplyRequest ==
  ASSUME ExecutionTypes, NEW final, NEW failed, NEW result, NEW token, NEW store,
         Applying(final, failed, result, token, store),
         NEW r \in Requests
  PROVE  /\ AppliedTo(r, final, failed, store)
         /\ generated'[r] \in Seq(Vocabulary) /\ phase'[r] \in Phases /\ List(cache'[r])
         /\ (generated[r] # <<>> => drawn[r] = Last(Alone(History(r))))
              => (generated'[r] # <<>> => drawn'[r] = Last(Alone(HistoryOf(r, generated'[r]))))
<1> DEFINE drew == final \ failed
           gone == failed \cup {q \in drew : ~MoreToCome(q)}
           g == generated[r]
<1>0. /\ final \in SUBSET Requests /\ token \in [final -> Vocabulary]
      /\ Apply(final, failed, result, token, store)
      /\ \A q \in final \ failed : result[q].logits = Last(Alone(Cropped(All(q))))
      /\ \A q \in Requests : List(store[q])
  BY DEF Applying
<1>1. /\ generated'[r] = IF r \in drew THEN Append(g, token[r]) ELSE g
      /\ drawn'[r] = IF r \in drew THEN result[r].logits ELSE drawn[r]
      /\ cache'[r] = IF r \in gone THEN <<>> ELSE store[r]
      /\ kind' = kind
  BY <1>0 DEF Apply
<1>2. phase'[r] = CASE r \in failed -> "failed"
                    [] r \in drew -> IF MoreToCome(r) THEN "decoding" ELSE "finished"
                    [] OTHER -> phase[r]
  BY <1>0 DEF Apply
<1>3. g \in Seq(Vocabulary) /\ phase[r] \in Phases
  BY DEF ExecutionTypes
<1>4. r \in gone <=> r \in failed \/ (r \in drew /\ ~MoreToCome(r))
  OBVIOUS
<1>5. List(cache'[r])
  <2> HIDE DEF gone
  <2>1. QED BY <1>0, <1>1, ListOne
<1>6. History(r) = HistoryOf(r, g)
  BY DEF History, All, HistoryOf
<1> HIDE DEF gone, g
<1>7. CASE r \in drew
  <2>1. token[r] \in Vocabulary
    BY <1>0, <1>7
  <2> DEFINE x == token[r]
             h == Append(g, x)
  <2>2. generated'[r] = h /\ drawn'[r] = result[r].logits
    BY <1>1, <1>7
  <2>3. h \in Seq(Vocabulary) /\ h # <<>>
    BY <1>3, <2>1
  <2>4. HistoryOf(r, h) = Cropped(All(r))
    <3> HIDE DEF x
    <3>1. HistoryOf(r, h) = Cropped(Prompt[r] \o g)
      BY <1>3, HistoryFacts
    <3>2. QED BY <3>1 DEF All, g
  <2>5. r \notin failed
    BY <1>7
  <2>6. phase'[r] = IF MoreToCome(r) THEN "decoding" ELSE "finished"
    BY <1>2, <1>7, <2>5
  <2>7. MoreToCome(r) => cache'[r] = store[r]
    BY <1>1, <1>4, <2>5
  <2> HIDE DEF h
  <2>8. AppliedTo(r, final, failed, store)
    BY <1>7, <2>2, <2>3, <2>4, <2>5, <2>6, <2>7 DEF AppliedTo
  <2>9. drawn'[r] = Last(Alone(HistoryOf(r, generated'[r])))
    BY <1>0, <1>7, <2>2, <2>4
  <2>10. phase'[r] \in Phases
    BY <2>6 DEF Phases
  <2>11. QED BY <1>5, <2>2, <2>3, <2>8, <2>9, <2>10
<1>8. CASE r \notin drew
  <2>1. generated'[r] = g /\ drawn'[r] = drawn[r]
    BY <1>1, <1>8
  <2>2. r \in failed => phase'[r] = "failed"
    BY <1>2
  <2>3. r \notin failed => phase'[r] = phase[r]
    BY <1>2, <1>8
  <2>4. r \notin failed => cache'[r] = store[r]
    BY <1>1, <1>4, <1>8
  <2>5. AppliedTo(r, final, failed, store)
    BY <1>8, <2>1, <2>2, <2>3, <2>4 DEF AppliedTo, g
  <2>6. phase'[r] \in Phases
    BY <1>3, <2>2, <2>3 DEF Phases
  <2>7. QED BY <1>3, <1>5, <1>6, <2>1, <2>5, <2>6 DEF g
<1>9. QED BY <1>7, <1>8

\* The same for all of them.
LEMMA Applied ==
  ASSUME ExecutionTypes, TokensExact, NEW final, NEW failed, NEW result, NEW token, NEW store,
         Applying(final, failed, result, token, store)
  PROVE  /\ kind' = kind
         /\ phase' \in [Requests -> Phases]
         /\ generated' \in [Requests -> Seq(Vocabulary)]
         /\ drawn' = [r \in Requests |-> drawn'[r]]
         /\ cache' = [r \in Requests |-> cache'[r]] /\ \A r \in Requests : List(cache'[r])
         /\ \A r \in Requests : AppliedTo(r, final, failed, store)
         /\ TokensExact'
<1>0. /\ final \in SUBSET Requests /\ token \in [final -> Vocabulary]
      /\ Apply(final, failed, result, token, store)
      /\ \A r \in final \ failed : result[r].logits = Last(Alone(Cropped(All(r))))
      /\ \A r \in Requests : List(store[r])
  BY DEF Applying
<1>1. kind' = kind
  BY <1>0 DEF Apply
<1>2. /\ generated' = [r \in Requests |-> generated'[r]] /\ phase' = [r \in Requests |-> phase'[r]]
      /\ drawn' = [r \in Requests |-> drawn'[r]] /\ cache' = [r \in Requests |-> cache'[r]]
  BY <1>0 DEF Apply
<1>3. ASSUME NEW r \in Requests
      PROVE  /\ AppliedTo(r, final, failed, store)
             /\ generated'[r] \in Seq(Vocabulary) /\ phase'[r] \in Phases /\ List(cache'[r])
             /\ (generated'[r] # <<>> => drawn'[r] = Last(Alone(HistoryOf(r, generated'[r]))))
  <2>1. /\ AppliedTo(r, final, failed, store)
        /\ generated'[r] \in Seq(Vocabulary) /\ phase'[r] \in Phases /\ List(cache'[r])
        /\ (generated[r] # <<>> => drawn[r] = Last(Alone(History(r))))
              => (generated'[r] # <<>> => drawn'[r] = Last(Alone(HistoryOf(r, generated'[r]))))
    BY ApplyRequest
  <2>2. generated[r] # <<>> => drawn[r] = Last(Alone(History(r)))
    BY DEF TokensExact
  <2>3. QED BY <2>1, <2>2
<1>4. TokensExact'
  <2>1. ASSUME NEW r \in Requests PROVE History(r)' = HistoryOf(r, generated'[r])
    BY DEF History, All, HistoryOf
  <2>2. QED BY <1>3, <2>1 DEF TokensExact
<1>5. phase' \in [Requests -> Phases] /\ generated' \in [Requests -> Seq(Vocabulary)]
  BY <1>2, <1>3
<1>6. QED BY <1>1, <1>2, <1>3, <1>4, <1>5

\* A request that a step leaves alone, while the index grows.
LEMMA UnderWayKept ==
  ASSUME ExecutionTypes, NEW r \in Requests, PromptUnderWay(r), kind' = kind,
         generated'[r] = generated[r], cache'[r] = cache[r], shared'[r] = shared[r],
         chunkLogits'[r] = chunkLogits[r],
         \A p \in PromptPrefixes : index[p] # Nothing => index'[p] # Nothing
  PROVE  PromptUnderWay(r)'
<1>1. \A b \in 1 .. shared[r] : PrefixOf(r, b) \in PromptPrefixes
  <2> SUFFICES ASSUME NEW b \in 1 .. shared[r] PROVE PrefixOf(r, b) \in PromptPrefixes
    OBVIOUS
  <2>1. shared[r] \in Nat /\ shared[r] <= FullBlocks(r) /\ FullBlocks(r) \in Nat
    BY PromptFacts DEF ExecutionTypes, PromptUnderWay
  <2>2. b \in Nat /\ b <= FullBlocks(r) /\ b # 0
    BY <2>1
  <2>3. QED BY <2>2, PrefixFacts
<1>2. QED BY <1>1 DEF PromptUnderWay

-----------------------------------------------------------------------------
(* Every step keeps the invariant.                                        *)

\* What a commit leaves.
Committal(store, rows, failed, result) ==
  /\ Store(store)
  /\ \A q \in Requests :
       store.cache[q] = IF q \in ToSet(rows) \ failed THEN cache[q] \o result[q].entries ELSE cache[q]
  /\ \A p \in PromptPrefixes : index[p] # Nothing => store.index[p] # Nothing
  /\ kind \notin Prefixed => store.index = index

\* Committing the rows that did not fail, whichever they are.
LEMMA CommitOutcome ==
  ASSUME ExecutionTypes, IndexExact, NEW rows, RowsOf(rows, Requests), NEW failed, NEW final, NEW result,
         \A r \in ToSet(rows) : r \in final /\ kind \in Prefixed =>
           /\ cache[r] \o result[r].entries = Alone(Prompt[r])
           /\ Promotable(r, index, chunkLogits[r] \o result[r].rows)
  PROVE  Committal(Committed(Those(rows, Requests \ failed), final, result), rows, failed, result)
<1> DEFINE kept == Requests \ failed
           done == Those(rows, kept)
           store == Committed(done, final, result)
<1>1. /\ rows \in Seq(Requests) /\ ToSet(rows) \subseteq Requests
      /\ \A i, j \in DOMAIN rows : rows[i] = rows[j] => i = j
  BY DEF RowsOf
<1> HIDE DEF kept
<1>2. /\ done \in Seq(Requests) /\ ToSet(done) = ToSet(rows) \cap kept
      /\ \A i, j \in DOMAIN done : done[i] = done[j] => i = j
  BY <1>1, ThoseFacts
<1> HIDE DEF done
<1>3. RowsOf(done, Requests)
  BY <1>1, <1>2 DEF RowsOf
<1>4. Committable(done, final, result)
  BY <1>2, <1>3 DEF Committable, ExecutionTypes
<1>5. Partly(store, done, Len(done), result)
  BY <1>4, CommittedStore
<1>6. ASSUME NEW q \in Requests
      PROVE  (\E i \in 1 .. Len(done) : done[i] = q) <=> q \in ToSet(rows) \ failed
  <2>1. DOMAIN done = 1 .. Len(done)
    BY <1>2
  <2>2. (\E i \in 1 .. Len(done) : done[i] = q) <=> q \in ToSet(done)
    BY <2>1 DEF ToSet
  <2>3. q \in ToSet(done) <=> q \in ToSet(rows) \ failed
    BY <1>2 DEF kept
  <2>4. QED BY <2>2, <2>3
<1> HIDE DEF store
<1>7. Committal(store, rows, failed, result)
  BY <1>5, <1>6 DEF Committal, Partly
<1>8. QED BY <1>7 DEF store, done, kept

\* An index that a commit leaves is right.
LEMMA StoreIndex ==
  ASSUME NEW store, Store(store), index' = store.index
  PROVE  /\ index' = [p \in PromptPrefixes |-> index'[p]]
         /\ IndexExact'
<1>1. /\ store.index = [p \in PromptPrefixes |-> store.index[p]]
      /\ \A p \in PromptPrefixes : store.index[p] # Nothing => Exact(p, store.index[p])
  BY DEF Store
<1>2. \A p \in PromptPrefixes : index'[p] # Nothing => Exact(p, index'[p])
  BY <1>1
<1>3. QED BY <1>1, <1>2 DEF IndexExact, Exact, LastBlock

\* What of the types is not of the requests in a call.
LEMMA SharedAfterType ==
  ASSUME ExecutionTypes, NEW final, NEW failed
  PROVE  SharedAfter(final, failed) \in [Requests -> Nat]
<1>1. ASSUME NEW r \in Requests PROVE SharedAfter(final, failed)[r] \in Nat
  <2>1. FullBlocks(r) \in Nat /\ shared[r] \in Nat
    BY PromptFacts DEF ExecutionTypes
  <2>2. QED BY <2>1 DEF SharedAfter
<1>2. QED BY <1>1 DEF SharedAfter

\* The rows of a step are requests in its phase, once each.
LEMMA PhaseRows ==
  ASSUME ExecutionTypes, NEW p, NEW rows, RowsOf(rows, InPhase(p))
  PROVE  /\ RowsOf(rows, Requests) /\ rows \in Seq(Requests)
         /\ ToSet(rows) \in SUBSET Requests
         /\ \A r \in ToSet(rows) : phase[r] = p
BY DEF RowsOf, InPhase

\* A prefill keeps the invariant: each row that does not fail ends with exactly
\* the cache and the logits of its prompt alone.
LEMMA PrefillStep ==
  ASSUME ExecutionInvariant, NEW rows, RowsOf(rows, InPhase("prefilling")), Prefill(rows)
  PROVE  ExecutionInvariant'
<1> DEFINE calls == PrefillCalls(rows)
           final == ToSet(rows)
           result == [r \in final |-> PrefillResult(r, CallOf(r, calls))]
           Stored(failed) == Committed(Those(rows, Requests \ failed), final, result)
<1>0. ExecutionTypes /\ WaitingClean /\ PromptsUnderWay /\ Decoding /\ TokensExact /\ IndexExact
  BY DEF ExecutionInvariant
<1>1. /\ RowsOf(rows, Requests) /\ rows \in Seq(Requests) /\ final \in SUBSET Requests
      /\ \A r \in final : phase[r] = "prefilling"
  BY <1>0, PhaseRows
<1>2. PICK failed \in Faults(calls) : \E token \in [final -> Vocabulary] :
        /\ Apply(final, failed, result, token, Stored(failed).cache)
        /\ index' = Stored(failed).index
        /\ shared' = SharedAfter(final, failed)
        /\ UNCHANGED chunkLogits
  BY Zenon DEF Prefill
<1> DEFINE store == Stored(failed)
<1>3. PICK token \in [final -> Vocabulary] :
        /\ Apply(final, failed, result, token, store.cache)
        /\ index' = store.index
        /\ shared' = SharedAfter(final, failed)
        /\ chunkLogits' = chunkLogits
  BY <1>2
<1>4. kind \in Chunked => \A r \in final : Suffix(r) = <<>>
  BY DEF Prefill
<1>5. ASSUME NEW r \in final
      PROVE  r \in Requests /\ PromptUnderWay(r) /\ PromptRun(r, result[r])
  <2>1. r \in Requests /\ PromptUnderWay(r)
    BY <1>0, <1>1 DEF PromptsUnderWay
  <2> DEFINE call == CallOf(r, calls)
  <2>2. call \in Seq(Requests) /\ call # <<>>
    <3>1. Covering(calls, final)
      BY <1>1, PrefillCovered
    <3> HIDE DEF calls, final
    <3>2. QED BY <3>1, CallFacts
  <2>3. result[r] = PrefillResult(r, call)
    OBVIOUS
  <2> HIDE DEF call
  <2>4. PromptRun(r, PrefillResult(r, call))
    BY <1>0, <1>4, <2>1, <2>2, PrefillResultExact
  <2>5. QED BY <2>1, <2>3, <2>4
<1> HIDE DEF result, final, calls
<1>6. Committal(store, rows, failed, result)
  <2>1. \A r \in ToSet(rows) : r \in final /\ kind \in Prefixed =>
           /\ cache[r] \o result[r].entries = Alone(Prompt[r])
           /\ Promotable(r, index, chunkLogits[r] \o result[r].rows)
    BY <1>5 DEF PromptRun
  <2>2. QED BY <1>0, <1>1, <2>1, CommitOutcome
<1> HIDE DEF store, Stored
<1>7. ASSUME NEW q \in Requests
      PROVE  /\ List(store.cache[q])
             /\ q \in final \ failed => store.cache[q] = Alone(Prompt[q]) /\ Cropped(All(q)) = Prompt[q]
             /\ q \notin final \cup failed => store.cache[q] = cache[q]
  <2>1. store.cache[q] = IF q \in final \ failed THEN cache[q] \o result[q].entries ELSE cache[q]
    BY <1>6 DEF Committal, final
  <2>2. q \in final \ failed => store.cache[q] = Alone(Prompt[q]) /\ Cropped(All(q)) = Prompt[q]
    BY <1>0, <1>5, <2>1, UnderWayFacts DEF PromptRun
  <2>3. List(Alone(Prompt[q])) /\ List(cache[q])
    BY <1>0, PromptFacts, AloneFacts DEF ExecutionTypes
  <2>4. List(store.cache[q])
    BY <2>1, <2>2, <2>3
  <2>5. QED BY <2>1, <2>2, <2>4
<1>8. /\ kind' = kind
      /\ phase' \in [Requests -> Phases]
      /\ generated' \in [Requests -> Seq(Vocabulary)]
      /\ drawn' = [r \in Requests |-> drawn'[r]]
      /\ cache' = [r \in Requests |-> cache'[r]] /\ \A r \in Requests : List(cache'[r])
      /\ \A r \in Requests : AppliedTo(r, final, failed, store.cache)
      /\ TokensExact'
  <2> DEFINE caches == store.cache
  <2>1. Applying(final, failed, result, token, caches)
    BY <1>1, <1>3, <1>5, <1>7 DEF PromptRun, Applying
  <2> HIDE DEF caches
  <2>2. /\ kind' = kind
        /\ phase' \in [Requests -> Phases]
        /\ generated' \in [Requests -> Seq(Vocabulary)]
        /\ drawn' = [r \in Requests |-> drawn'[r]]
        /\ cache' = [r \in Requests |-> cache'[r]] /\ \A r \in Requests : List(cache'[r])
        /\ \A r \in Requests : AppliedTo(r, final, failed, caches)
        /\ TokensExact'
    BY <1>0, <2>1, Applied
  <2>3. QED BY <2>2 DEF caches
<1>9. index' = [p \in PromptPrefixes |-> index'[p]] /\ IndexExact'
  BY <1>3, <1>6, StoreIndex DEF Committal
<1>10. \A p \in PromptPrefixes : index[p] # Nothing => index'[p] # Nothing
  BY <1>3, <1>6 DEF Committal
<1>11. kind' \notin Prefixed => \A p \in PromptPrefixes : index'[p] = Nothing
  BY <1>0, <1>3, <1>6, <1>8 DEF Committal, ExecutionTypes
<1>12. ExecutionTypes'
  <2>1. shared' \in [Requests -> Nat]
    BY <1>0, <1>3, SharedAfterType
  <2>2. chunkLogits' = [r \in Requests |-> chunkLogits'[r]] /\ \A r \in Requests : List(chunkLogits'[r])
    BY <1>0, <1>3 DEF ExecutionTypes
  <2>3. kind' \in Kinds
    BY <1>0, <1>8 DEF ExecutionTypes
  <2>4. QED BY <1>8, <1>9, <1>11, <2>1, <2>2, <2>3 DEF ExecutionTypes
<1>13. ASSUME NEW r \in Requests
       PROVE  /\ phase'[r] = "waiting" => generated'[r] = <<>> /\ cache'[r] = <<>> /\ chunkLogits'[r] = <<>>
              /\ phase'[r] = "prefilling" => PromptUnderWay(r)'
              /\ phase'[r] \in {"decoding", "preempted"} => generated'[r] # <<>>
              /\ phase'[r] = "decoding" => cache'[r] = Alone(HistoryOf(r, generated'[r]))
  <2>1. AppliedTo(r, final, failed, store.cache)
    BY <1>8
  <2>2. CASE r \in failed
    BY <2>1, <2>2 DEF AppliedTo
  <2>3. CASE r \in final \ failed
    BY <1>7, <2>1, <2>3 DEF AppliedTo
  <2>4. CASE r \notin final \cup failed
    <3>1. /\ phase'[r] = phase[r] /\ generated'[r] = generated[r] /\ cache'[r] = cache[r]
          /\ chunkLogits'[r] = chunkLogits[r]
      BY <1>3, <1>7, <2>1, <2>4 DEF AppliedTo
    <3>2. shared'[r] = shared[r]
      BY <1>3, <2>4 DEF SharedAfter
    <3>3. phase[r] = "prefilling" => PromptUnderWay(r)'
      BY <1>0, <1>8, <1>10, <3>1, <3>2, UnderWayKept DEF PromptsUnderWay
    <3>4. History(r) = HistoryOf(r, generated[r])
      BY DEF History, HistoryOf, All
    <3>5. QED BY <1>0, <3>1, <3>3, <3>4 DEF WaitingClean, Decoding
  <2>5. QED BY <2>2, <2>3, <2>4
<1>14. WaitingClean' /\ PromptsUnderWay'
  BY <1>13 DEF WaitingClean, PromptsUnderWay
<1>15. Decoding'
  <2>1. ASSUME NEW r \in Requests PROVE History(r)' = HistoryOf(r, generated'[r])
    BY DEF History, All, HistoryOf
  <2>2. QED BY <1>13, <2>1 DEF Decoding
<1>16. QED BY <1>8, <1>9, <1>12, <1>14, <1>15 DEF ExecutionInvariant

\* A chunk that leaves some of the prompt for later.
ChunkRun(r, x) ==
  /\ List(x.rows) /\ x.entries = x.rows
  /\ cache[r] \o x.entries = First(Alone(Prompt[r]), Len(cache[r] \o x.entries))
  /\ Len(cache[r]) <= Len(cache[r] \o x.entries) /\ Len(cache[r] \o x.entries) < Len(Prompt[r])
  /\ Len(cache[r] \o x.entries) \in Nat

\* A chunk before the last one.
LEMMA ChunkResult ==
  ASSUME ExecutionTypes, NEW r \in Requests, PromptUnderWay(r), NEW k \in Nat, k # 0, k < Len(Suffix(r)),
         NEW padded \in Int
  PROVE  ChunkRun(r, SegmentRow(cache[r], First(Suffix(r), k), padded))
<1> DEFINE p == Prompt[r]
           m == Len(cache[r])
           n == m + k
           past == cache[r]
           tokens == First(Suffix(r), k)
           row == SegmentRow(past, tokens, padded)
           a == Alone(p)
           c == past \o row.entries
<1>1. /\ List(p) /\ m \in Nat /\ List(past) /\ Suffix(r) = Rest(p, m)
      /\ Len(Suffix(r)) = Len(p) - m
  BY UnderWayFacts
<1>2. past = First(a, m) /\ Len(p) \in Nat
  BY PromptFacts DEF PromptUnderWay
<1>3. n \in Nat /\ m < n /\ n < Len(p) /\ n - m = k
  <2>1. k < Len(p) - m /\ m \in Nat /\ Len(p) \in Nat
    BY <1>1, <1>2
  <2> HIDE DEF m, p
  <2>2. QED BY <2>1
<1>4. GoesOn(p, m, n, past, tokens)
  <2> HIDE DEF n, m, past, a, p
  <2>1. tokens = First(Rest(p, m), n - m)
    BY <1>1, <1>3
  <2> HIDE DEF tokens
  <2>2. m < n /\ n <= Len(p)
    BY <1>2, <1>3
  <2>3. QED BY <1>1, <1>2, <1>3, <2>1, <2>2 DEF GoesOn, a
<1> HIDE DEF n, m, past, p, tokens
<1>5. /\ c = First(Alone(p), n) /\ row.rows = row.entries /\ List(row.entries)
  BY <1>4, SegmentStep
<1>6. List(a) /\ Len(a) = Len(p)
  BY <1>1, AloneFacts
<1> HIDE DEF row, a, c
<1>7. Len(c) = n
  <2>1. n <= Len(a)
    BY <1>2, <1>3, <1>6
  <2>2. Len(First(a, n)) = n
    BY <1>3, <1>6, <2>1, ListFirst
  <2>3. QED BY <1>5, <2>2 DEF a
<1>8. List(row.rows) /\ c = First(Alone(p), Len(c)) /\ m <= Len(c) /\ Len(c) < Len(p) /\ Len(c) \in Nat
  BY <1>1, <1>3, <1>5, <1>7
<1>9. QED BY <1>5, <1>8 DEF ChunkRun, c, row, past, p, m, tokens

\* Such a chunk leaves the prompt under way.
LEMMA ChunkKept ==
  ASSUME ExecutionTypes, NEW r \in Requests, PromptUnderWay(r), kind \in Chunked, kind' = kind,
         NEW x, ChunkRun(r, x),
         generated'[r] = generated[r], cache'[r] = cache[r] \o x.entries, shared'[r] = shared[r],
         kind \in Prefixed => chunkLogits'[r] = chunkLogits[r] \o x.rows,
         \A p \in PromptPrefixes : index[p] # Nothing => index'[p] # Nothing
  PROVE  PromptUnderWay(r)'
<1> DEFINE p == Prompt[r]
           a == Alone(p)
           l == shared[r] * BlockTokens
           c == cache'[r]
           d == chunkLogits[r]
<1>1. /\ List(x.rows) /\ x.entries = x.rows /\ c = First(a, Len(c)) /\ Len(cache[r]) <= Len(c) /\ Len(c) < Len(p)
      /\ Len(c) \in Nat
  BY DEF ChunkRun
<1>2. /\ generated[r] = <<>> /\ shared[r] <= FullBlocks(r) /\ l <= Len(cache[r])
      /\ \A b \in 1 .. shared[r] : index[PrefixOf(r, b)] # Nothing
      /\ kind \notin Prefixed => shared[r] = 0
      /\ kind \in Prefixed => cache[r] = First(a, l) \o d
  BY DEF PromptUnderWay
<1>3. shared[r] \in Nat /\ List(cache[r]) /\ List(d) /\ FullBlocks(r) \in Nat /\ BlockTokens \in Nat \ {0}
  BY PromptFacts DEF ExecutionTypes
<1>4. Len(cache[r]) \in Nat /\ Len(p) \in Nat /\ List(p)
  BY <1>3, ListFacts, PromptFacts
<1>5. l \in Nat
  BY <1>3, Multiples
<1>6. l <= Len(c) /\ Len(c) <= Len(p)
  <2> HIDE DEF l, c, p
  <2>1. QED BY <1>1, <1>2, <1>4, <1>5
<1>7. \A b \in 1 .. shared[r] : index'[PrefixOf(r, b)] # Nothing
  <2> SUFFICES ASSUME NEW b \in 1 .. shared[r] PROVE index'[PrefixOf(r, b)] # Nothing
    OBVIOUS
  <2>1. b \in Nat /\ b <= FullBlocks(r) /\ b # 0
    BY <1>2, <1>3
  <2>2. PrefixOf(r, b) \in PromptPrefixes
    BY <2>1, PrefixFacts
  <2>3. QED BY <1>2, <2>2
<1>8. ASSUME kind \in Prefixed
      PROVE  c = First(a, l) \o chunkLogits'[r]
  <2> DEFINE f == First(a, l)
             e == x.rows
  <2>1. List(f)
    <3>1. List(a) /\ Len(a) = Len(p)
      BY <1>4, AloneFacts
    <3>2. l <= Len(a)
      <4> HIDE DEF l, c, p, a
      <4>1. QED BY <1>1, <1>4, <1>5, <1>6, <3>1
    <3> HIDE DEF a, l
    <3>3. QED BY <1>5, <3>1, <3>2, ListFirst
  <2>2. List(d) /\ List(e)
    BY <1>1, <1>3
  <2>3. c = (f \o d) \o e
    BY <1>1, <1>2, <1>8
  <2>4. chunkLogits'[r] = d \o e
    BY <1>8
  <2> HIDE DEF f, d, e, c
  <2>5. (f \o d) \o e = f \o (d \o e)
    BY <2>1, <2>2, ListAssociative
  <2>6. QED BY <2>3, <2>4, <2>5 DEF f
<1>9. generated'[r] = <<>> /\ kind' \in Chunked /\ (kind' \notin Prefixed => shared'[r] = 0)
  BY <1>2
<1> HIDE DEF c, a, p
<1>10. /\ cache'[r] = First(Alone(Prompt[r]), Len(cache'[r])) /\ Len(cache'[r]) <= Len(Prompt[r])
       /\ shared'[r] <= FullBlocks(r) /\ shared'[r] * BlockTokens <= Len(cache'[r])
       /\ Len(cache'[r]) < Len(Prompt[r])
  BY <1>1, <1>2, <1>6 DEF c, a, p
<1>11. /\ \A b \in 1 .. shared'[r] : index'[PrefixOf(r, b)] # Nothing
       /\ kind' \in Prefixed => cache'[r] = First(Alone(Prompt[r]), shared'[r] * BlockTokens) \o chunkLogits'[r]
  BY <1>7, <1>8 DEF c, a, p
<1>12. QED BY <1>9, <1>10, <1>11 DEF PromptUnderWay

\* A step of chunks keeps the invariant: those that end a prompt as a prefill does,
\* the others leave their prompt under way.
LEMMA ChunksStep ==
  ASSUME ExecutionInvariant, NEW rows, RowsOf(rows, InPhase("prefilling")), PrefillChunks(rows)
  PROVE  ExecutionInvariant'
<1> DEFINE all == ToSet(rows)
           Last0(length) == {r \in all : length[r] = SuffixLength[r]}
           Result(length) == [r \in all |->
             SegmentRow(cache[r], SubSeq(Suffix(r), 1, length[r]), Longest(rows, length))]
           Stored(length, failed) == Committed(Those(rows, Requests \ failed), Last0(length), Result(length))
<1>0. ExecutionTypes /\ WaitingClean /\ PromptsUnderWay /\ Decoding /\ TokensExact /\ IndexExact
  BY DEF ExecutionInvariant
<1>1. /\ RowsOf(rows, Requests) /\ rows \in Seq(Requests) /\ all \in SUBSET Requests
      /\ \A r \in all : phase[r] = "prefilling"
  BY <1>0, PhaseRows
<1>2. kind \in Chunked /\ \A r \in all : Suffix(r) # <<>>
  BY DEF PrefillChunks
<1>3. PICK length \in [all -> 1 .. Window] : \E failed \in Faults(<<rows>>), token \in [all -> Vocabulary] :
        /\ \A r \in all : length[r] \in ChunkLengths(r)
        /\ Apply(Last0(length), failed, Result(length), token, Stored(length, failed).cache)
        /\ index' = Stored(length, failed).index
        /\ shared' = SharedAfter(Last0(length), failed)
        /\ chunkLogits' = [r \in Requests |->
             CASE r \in Last0(length) \cup failed -> <<>>
               [] r \in all \ (Last0(length) \cup failed) /\ kind \in Prefixed ->
                    chunkLogits[r] \o Result(length)[r].rows
               [] OTHER -> chunkLogits[r]]
  BY Zenon DEF PrefillChunks
<1> DEFINE final == Last0(length)
           result == Result(length)
<1>4. PICK failed \in Faults(<<rows>>) : \E token \in [all -> Vocabulary] :
        /\ \A r \in all : length[r] \in ChunkLengths(r)
        /\ Apply(final, failed, result, token, Stored(length, failed).cache)
        /\ index' = Stored(length, failed).index
        /\ shared' = SharedAfter(final, failed)
        /\ chunkLogits' = [r \in Requests |->
             CASE r \in final \cup failed -> <<>>
               [] r \in all \ (final \cup failed) /\ kind \in Prefixed -> chunkLogits[r] \o result[r].rows
               [] OTHER -> chunkLogits[r]]
  BY <1>3
<1> DEFINE store == Stored(length, failed)
<1>5. PICK token \in [all -> Vocabulary] :
        /\ \A r \in all : length[r] \in ChunkLengths(r)
        /\ Apply(final, failed, result, token, store.cache)
        /\ index' = store.index
        /\ shared' = SharedAfter(final, failed)
        /\ chunkLogits' = [r \in Requests |->
             CASE r \in final \cup failed -> <<>>
               [] r \in all \ (final \cup failed) /\ kind \in Prefixed -> chunkLogits[r] \o result[r].rows
               [] OTHER -> chunkLogits[r]]
  BY <1>4
<1>6. final \subseteq all /\ \A r \in all : r \in final <=> length[r] = SuffixLength[r]
  OBVIOUS
<1>7. ASSUME NEW r \in all
      PROVE  /\ r \in Requests /\ PromptUnderWay(r)
             /\ r \in final => PromptRun(r, result[r])
             /\ r \notin final => ChunkRun(r, result[r])
  <2>1. r \in Requests /\ PromptUnderWay(r)
    BY <1>0, <1>1 DEF PromptsUnderWay
  <2> DEFINE k == length[r]
             padded == Longest(rows, length)
             s == Suffix(r)
  <2>2. List(s) /\ Len(s) \in Nat /\ SuffixLength[r] = Len(s)
    BY <1>0, <2>1, UnderWayFacts, ListFacts DEF SuffixLength
  <2>3. padded \in Int
    <3>1. rows # <<>>
      BY DEF ToSet
    <3>2. \A q \in all : length[q] \in Nat
      OBVIOUS
    <3> HIDE DEF padded
    <3>3. QED BY <1>1, <3>1, <3>2, LongestType DEF padded
  <2>4. k \in 1 .. Len(s)
    BY <1>5, <2>2 DEF ChunkLengths
  <2>5. result[r] = SegmentRow(cache[r], First(s, k), padded)
    BY DEF First
  <2> HIDE DEF k, padded, s, result
  <2>6. r \in final => First(s, k) = s
    <3>1. r \in final => k = Len(s)
      BY <1>6, <2>2 DEF k
    <3>2. QED BY <2>2, <3>1, FirstAll
  <2>7. r \notin final => k < Len(s)
    <3>1. r \notin final => k # Len(s)
      BY <1>6, <2>2 DEF k
    <3>2. QED BY <2>2, <2>4, <3>1
  <2>8. k \in Nat /\ k # 0
    BY <2>2, <2>4
  <2>9. s # <<>>
    BY <1>2 DEF s
  <2> HIDE DEF final, all
  <2>10. r \in final => PromptRun(r, result[r])
    BY <1>0, <2>1, <2>3, <2>5, <2>6, <2>9, LastSegment DEF s
  <2>11. r \notin final => ChunkRun(r, result[r])
    BY <1>0, <2>1, <2>3, <2>5, <2>7, <2>8, ChunkResult DEF s
  <2>12. QED BY <2>1, <2>10, <2>11
<1>8. store = Committed(Those(rows, Requests \ failed), final, result)
  OBVIOUS
<1> HIDE DEF result, final, store
<1>9. Committal(store, rows, failed, result)
  <2>1. \A r \in ToSet(rows) : r \in final /\ kind \in Prefixed =>
           /\ cache[r] \o result[r].entries = Alone(Prompt[r])
           /\ Promotable(r, index, chunkLogits[r] \o result[r].rows)
    BY <1>7 DEF PromptRun
  <2>2. QED BY <1>0, <1>1, <1>8, <2>1, CommitOutcome
<1> HIDE DEF Stored, Result, Last0, all
<1>10. ASSUME NEW q \in Requests
      PROVE  /\ List(store.cache[q])
             /\ q \in final \ failed => store.cache[q] = Alone(Prompt[q]) /\ Cropped(All(q)) = Prompt[q]
             /\ q \in all \ (final \cup failed) => store.cache[q] = cache[q] \o result[q].entries
             /\ q \notin all \cup failed => store.cache[q] = cache[q]
  <2>1. store.cache[q] = IF q \in all \ failed THEN cache[q] \o result[q].entries ELSE cache[q]
    BY <1>9 DEF Committal, all
  <2>2. q \in final \ failed => store.cache[q] = Alone(Prompt[q]) /\ Cropped(All(q)) = Prompt[q]
    BY <1>0, <1>6, <1>7, <2>1, UnderWayFacts DEF PromptRun
  <2>3. List(Alone(Prompt[q])) /\ List(cache[q])
    BY <1>0, PromptFacts, AloneFacts DEF ExecutionTypes
  <2>4. q \in all \ (final \cup failed) => store.cache[q] = cache[q] \o result[q].entries
    BY <2>1
  <2>5. q \in all \ (final \cup failed) => List(store.cache[q])
    <3> SUFFICES ASSUME q \in all \ (final \cup failed) PROVE List(store.cache[q])
      OBVIOUS
    <3> DEFINE e == result[q].rows
    <3>1. List(e) /\ result[q].entries = e
      BY <1>7 DEF ChunkRun
    <3> HIDE DEF e
    <3>2. List(cache[q] \o e)
      BY <2>3, <3>1, ListConcat
    <3>3. QED BY <2>4, <3>1, <3>2
  <2>6. List(store.cache[q])
    BY <1>6, <2>1, <2>2, <2>3, <2>5
  <2>7. QED BY <2>1, <2>2, <2>4, <2>6
<1>11. /\ kind' = kind
       /\ phase' \in [Requests -> Phases]
       /\ generated' \in [Requests -> Seq(Vocabulary)]
       /\ drawn' = [r \in Requests |-> drawn'[r]]
       /\ cache' = [r \in Requests |-> cache'[r]] /\ \A r \in Requests : List(cache'[r])
       /\ \A r \in Requests : AppliedTo(r, final, failed, store.cache)
       /\ TokensExact'
  <2> DEFINE caches == store.cache
             drawing == [r \in final |-> token[r]]
  <2>1. Apply(final, failed, result, drawing, caches)
    <3>1. \A r \in Requests : r \in final \ failed => drawing[r] = token[r]
      OBVIOUS
    <3> HIDE DEF drawing
    <3>2. [r \in Requests |-> IF r \in final \ failed THEN Append(generated[r], token[r]) ELSE generated[r]]
          = [r \in Requests |-> IF r \in final \ failed THEN Append(generated[r], drawing[r]) ELSE generated[r]]
      BY <3>1
    <3>3. QED BY <1>5, <3>2 DEF Apply
  <2>2. drawing \in [final -> Vocabulary]
    BY <1>6
  <2> HIDE DEF drawing
  <2>3. Applying(final, failed, result, drawing, caches)
    BY <1>1, <1>6, <1>7, <1>10, <2>1, <2>2 DEF PromptRun, Applying
  <2> HIDE DEF caches
  <2>4. /\ kind' = kind
        /\ phase' \in [Requests -> Phases]
        /\ generated' \in [Requests -> Seq(Vocabulary)]
        /\ drawn' = [r \in Requests |-> drawn'[r]]
        /\ cache' = [r \in Requests |-> cache'[r]] /\ \A r \in Requests : List(cache'[r])
        /\ \A r \in Requests : AppliedTo(r, final, failed, caches)
        /\ TokensExact'
    BY <1>0, <2>3, Applied
  <2>5. QED BY <2>4 DEF caches
<1>12. index' = [p \in PromptPrefixes |-> index'[p]] /\ IndexExact'
  BY <1>5, <1>9, StoreIndex DEF Committal
<1>13. \A p \in PromptPrefixes : index[p] # Nothing => index'[p] # Nothing
  BY <1>5, <1>9 DEF Committal
<1>14. kind' \notin Prefixed => \A p \in PromptPrefixes : index'[p] = Nothing
  BY <1>0, <1>5, <1>9, <1>11 DEF Committal, ExecutionTypes
<1>15. ASSUME NEW r \in Requests
       PROVE  /\ r \in final \cup failed => chunkLogits'[r] = <<>>
              /\ r \in all \ (final \cup failed) /\ kind \in Prefixed =>
                   chunkLogits'[r] = chunkLogits[r] \o result[r].rows
              /\ r \notin final \cup failed /\ ~(r \in all /\ kind \in Prefixed) =>
                   chunkLogits'[r] = chunkLogits[r]
              /\ List(chunkLogits'[r])
  <2>1. chunkLogits'[r] = CASE r \in final \cup failed -> <<>>
               [] r \in all \ (final \cup failed) /\ kind \in Prefixed -> chunkLogits[r] \o result[r].rows
               [] OTHER -> chunkLogits[r]
    BY <1>5
  <2>2. /\ r \in final \cup failed => chunkLogits'[r] = <<>>
        /\ r \in all \ (final \cup failed) /\ kind \in Prefixed =>
             chunkLogits'[r] = chunkLogits[r] \o result[r].rows
        /\ r \notin final \cup failed /\ ~(r \in all /\ kind \in Prefixed) =>
             chunkLogits'[r] = chunkLogits[r]
    BY <2>1
  <2>3. List(chunkLogits[r]) /\ List(<<>>)
    BY <1>0, ListOne DEF ExecutionTypes
  <2>4. r \in all \ final => List(chunkLogits[r] \o result[r].rows)
    BY <1>7, <2>3, ListConcat DEF ChunkRun
  <2>5. QED BY <1>6, <2>2, <2>3, <2>4
<1>16. ExecutionTypes'
  <2>1. shared' \in [Requests -> Nat]
    BY <1>0, <1>5, SharedAfterType
  <2>2. chunkLogits' = [r \in Requests |-> chunkLogits'[r]]
    BY <1>5
  <2>3. kind' \in Kinds
    BY <1>0, <1>11 DEF ExecutionTypes
  <2>4. QED BY <1>11, <1>12, <1>14, <1>15, <2>1, <2>2, <2>3 DEF ExecutionTypes
<1>17. ASSUME NEW r \in Requests
       PROVE  /\ phase'[r] = "waiting" => generated'[r] = <<>> /\ cache'[r] = <<>> /\ chunkLogits'[r] = <<>>
              /\ phase'[r] = "prefilling" => PromptUnderWay(r)'
              /\ phase'[r] \in {"decoding", "preempted"} => generated'[r] # <<>>
              /\ phase'[r] = "decoding" => cache'[r] = Alone(HistoryOf(r, generated'[r]))
  <2>1. AppliedTo(r, final, failed, store.cache)
    BY <1>11
  <2>2. CASE r \in failed
    BY <2>1, <2>2 DEF AppliedTo
  <2>3. CASE r \in final \ failed
    BY <1>10, <2>1, <2>3 DEF AppliedTo
  <2>4. CASE r \in all \ (final \cup failed)
    <3>1. /\ phase'[r] = phase[r] /\ generated'[r] = generated[r] /\ cache'[r] = cache[r] \o result[r].entries
          /\ phase[r] = "prefilling"
      BY <1>1, <1>10, <2>1, <2>4 DEF AppliedTo
    <3>2. shared'[r] = shared[r]
      BY <1>5, <2>4 DEF SharedAfter
    <3>3. PromptUnderWay(r) /\ ChunkRun(r, result[r])
      BY <1>7, <2>4
    <3>4. kind \in Prefixed => chunkLogits'[r] = chunkLogits[r] \o result[r].rows
      BY <1>15, <2>4
    <3>5. PromptUnderWay(r)'
      BY <1>0, <1>2, <1>11, <1>13, <3>1, <3>2, <3>3, <3>4, ChunkKept
    <3>6. QED BY <3>1, <3>5
  <2>5. CASE r \notin all \cup failed
    <3>1. /\ phase'[r] = phase[r] /\ generated'[r] = generated[r] /\ cache'[r] = cache[r]
          /\ chunkLogits'[r] = chunkLogits[r]
      BY <1>6, <1>10, <1>15, <2>1, <2>5 DEF AppliedTo
    <3>2. shared'[r] = shared[r]
      BY <1>5, <1>6, <2>5 DEF SharedAfter
    <3>3. phase[r] = "prefilling" => PromptUnderWay(r)'
      BY <1>0, <1>11, <1>13, <3>1, <3>2, UnderWayKept DEF PromptsUnderWay
    <3>4. History(r) = HistoryOf(r, generated[r])
      BY DEF History, HistoryOf, All
    <3>5. QED BY <1>0, <3>1, <3>3, <3>4 DEF WaitingClean, Decoding
  <2>6. QED BY <1>6, <2>2, <2>3, <2>4, <2>5
<1>18. WaitingClean' /\ PromptsUnderWay'
  BY <1>17 DEF WaitingClean, PromptsUnderWay
<1>19. Decoding'
  <2>1. ASSUME NEW r \in Requests PROVE History(r)' = HistoryOf(r, generated'[r])
    BY DEF History, All, HistoryOf
  <2>2. QED BY <1>17, <2>1 DEF Decoding
<1>20. TokensExact'
  BY <1>11
<1>21. IndexExact'
  BY <1>12
<1>22. QED BY <1>16, <1>18, <1>19, <1>20, <1>21 DEF ExecutionInvariant

\* A step that does not touch the index, nor a prompt that is under way.
LEMMA SameIndex ==
  ASSUME ExecutionTypes, IndexExact, index' = index, kind' = kind
  PROVE  /\ index' = [p \in PromptPrefixes |-> index'[p]] /\ IndexExact'
         /\ kind' \in Kinds /\ (kind' \notin Prefixed => \A p \in PromptPrefixes : index'[p] = Nothing)
BY DEF ExecutionTypes, IndexExact

\* History depends on the tokens generated only.
LEMMA HistoryPrimed ==
  ASSUME NEW r \in Requests
  PROVE  History(r)' = HistoryOf(r, generated'[r]) /\ History(r) = HistoryOf(r, generated[r])
BY DEF History, All, HistoryOf

\* A decode keeps the invariant: the cache holds the whole history, cropped when the
\* window overflowed.
LEMMA DecodeStep ==
  ASSUME ExecutionInvariant, NEW rows, RowsOf(rows, InPhase("decoding")), Decode(rows)
  PROVE  ExecutionInvariant'
<1> DEFINE calls == DecodeCalls(rows)
           all == ToSet(rows)
           result == [r \in all |-> DecodeResult(r, CallOf(r, calls))]
           store == [r \in Requests |-> IF r \in all THEN DecodeStored(r, result[r]) ELSE cache[r]]
           Left(failed) == [r \in Requests |->
             IF r \in all /\ (r \in failed \/ ~MoreToCome(r) \/ Overflows(r)) THEN 0 ELSE shared[r]]
<1>0. ExecutionTypes /\ WaitingClean /\ PromptsUnderWay /\ Decoding /\ TokensExact /\ IndexExact
  BY DEF ExecutionInvariant
<1>1. /\ rows \in Seq(Requests) /\ all \in SUBSET Requests
      /\ \A r \in all : phase[r] = "decoding"
  BY <1>0, PhaseRows
<1>2. PICK failed \in Faults(calls) : \E token \in [all -> Vocabulary] :
        /\ Apply(all, failed, result, token, store)
        /\ shared' = Left(failed)
        /\ UNCHANGED <<chunkLogits, index>>
  BY Zenon DEF Decode
<1>3. PICK token \in [all -> Vocabulary] :
        /\ Apply(all, failed, result, token, store)
        /\ shared' = Left(failed)
        /\ chunkLogits' = chunkLogits /\ index' = index
  BY <1>2
<1>4. ASSUME NEW r \in all
      PROVE  /\ r \in Requests /\ result[r].logits = Last(Alone(Cropped(All(r))))
             /\ DecodeStored(r, result[r]) = Alone(Cropped(All(r)))
  <2>1. r \in Requests /\ generated[r] # <<>> /\ cache[r] = Alone(History(r))
    BY <1>0, <1>1 DEF Decoding
  <2> DEFINE call == CallOf(r, calls)
  <2>2. call \in Seq(Requests) /\ call # <<>>
    <3>1. Covering(calls, all)
      BY <1>1, DecodeCovered
    <3> HIDE DEF calls, all
    <3>2. QED BY <3>1, CallFacts
  <2>3. result[r] = DecodeResult(r, call)
    OBVIOUS
  <2> HIDE DEF call, result
  <2>4. QED BY <1>0, <2>1, <2>2, <2>3, DecodeResultExact
<1>5. ASSUME NEW r \in Requests
      PROVE  /\ r \in all => store[r] = Alone(Cropped(All(r)))
             /\ r \notin all => store[r] = cache[r]
             /\ List(store[r])
  <2>1. store[r] = IF r \in all THEN DecodeStored(r, result[r]) ELSE cache[r]
    OBVIOUS
  <2>2. List(All(r))
    BY <1>0, HistoryFacts DEF ExecutionTypes, All
  <2>3. List(Alone(Cropped(All(r))))
    BY <2>2, CroppedList, AloneFacts
  <2>4. List(cache[r])
    BY <1>0 DEF ExecutionTypes
  <2> HIDE DEF store, result, all
  <2>5. QED BY <1>4, <2>1, <2>3, <2>4
<1> HIDE DEF store, result, all, calls
<1>6. Applying(all, failed, result, token, store)
  BY <1>1, <1>3, <1>4, <1>5 DEF Applying
<1>7. /\ kind' = kind
      /\ phase' \in [Requests -> Phases]
      /\ generated' \in [Requests -> Seq(Vocabulary)]
      /\ drawn' = [r \in Requests |-> drawn'[r]]
      /\ cache' = [r \in Requests |-> cache'[r]] /\ \A r \in Requests : List(cache'[r])
      /\ \A r \in Requests : AppliedTo(r, all, failed, store)
      /\ TokensExact'
  BY <1>0, <1>6, Applied
<1>8. /\ index' = [p \in PromptPrefixes |-> index'[p]] /\ IndexExact'
      /\ kind' \in Kinds /\ (kind' \notin Prefixed => \A p \in PromptPrefixes : index'[p] = Nothing)
  BY <1>0, <1>3, <1>7, SameIndex
<1>9. ExecutionTypes'
  <2>1. shared' \in [Requests -> Nat]
    BY <1>0, <1>3 DEF ExecutionTypes
  <2>2. chunkLogits' = [r \in Requests |-> chunkLogits'[r]] /\ \A r \in Requests : List(chunkLogits'[r])
    BY <1>0, <1>3 DEF ExecutionTypes
  <2>3. QED BY <1>7, <1>8, <2>1, <2>2 DEF ExecutionTypes
<1>10. ASSUME NEW r \in Requests
       PROVE  /\ phase'[r] = "waiting" => generated'[r] = <<>> /\ cache'[r] = <<>> /\ chunkLogits'[r] = <<>>
              /\ phase'[r] = "prefilling" => PromptUnderWay(r)'
              /\ phase'[r] \in {"decoding", "preempted"} => generated'[r] # <<>>
              /\ phase'[r] = "decoding" => cache'[r] = Alone(HistoryOf(r, generated'[r]))
  <2>1. AppliedTo(r, all, failed, store)
    BY <1>7
  <2>2. CASE r \in failed
    BY <2>1, <2>2 DEF AppliedTo
  <2>3. CASE r \in all \ failed
    BY <1>5, <2>1, <2>3 DEF AppliedTo
  <2>4. CASE r \notin all \cup failed
    <3>1. /\ phase'[r] = phase[r] /\ generated'[r] = generated[r] /\ cache'[r] = cache[r]
          /\ chunkLogits'[r] = chunkLogits[r]
      BY <1>3, <1>5, <2>1, <2>4 DEF AppliedTo
    <3>2. shared'[r] = shared[r]
      BY <1>3, <2>4
    <3>3. \A p \in PromptPrefixes : index[p] # Nothing => index'[p] # Nothing
      BY <1>3
    <3>4. phase[r] = "prefilling" => PromptUnderWay(r)'
      BY <1>0, <1>7, <3>1, <3>2, <3>3, UnderWayKept DEF PromptsUnderWay
    <3>5. QED BY <1>0, <3>1, <3>4, HistoryPrimed DEF WaitingClean, Decoding
  <2>5. QED BY <2>2, <2>3, <2>4
<1>11. WaitingClean' /\ PromptsUnderWay'
  BY <1>10 DEF WaitingClean, PromptsUnderWay
<1>12. Decoding'
  BY <1>10, HistoryPrimed DEF Decoding
<1>13. QED BY <1>7, <1>8, <1>9, <1>11, <1>12 DEF ExecutionInvariant

\* The longest chain of known blocks.
LEMMA HitsFacts ==
  ASSUME NEW r \in Requests, NEW known
  PROVE  LET hits == Max({b \in 0 .. FullBlocks(r) : \A c \in 1 .. b : c \in known})
         IN  hits \in Nat /\ hits <= FullBlocks(r) /\ \A c \in 1 .. hits : c \in known
<1> DEFINE q == FullBlocks(r)
           S == {b \in 0 .. q : \A c \in 1 .. b : c \in known}
<1>1. q \in Nat
  BY PromptFacts
<1> HIDE DEF q
<1>2. IsFiniteSet(0 .. q)
  BY <1>1, FS_Interval
<1>3. IsFiniteSet(S)
  BY <1>2, FS_Subset
<1>4. 0 \in S /\ S \in SUBSET Int
  BY <1>1
<1>5. \A b \in S : b \in Nat /\ b <= q /\ \A c \in 1 .. b : c \in known
  BY <1>1
<1> HIDE DEF S
<1>6. Max(S) \in S
  BY <1>3, <1>4, FiniteMax
<1>7. Max(S) \in Nat /\ Max(S) <= q /\ \A c \in 1 .. Max(S) : c \in known
  BY <1>5, <1>6
<1>8. QED BY <1>7 DEF S, q

\* Admission keeps the invariant: the blocks that are attached hold what the prompt
\* would have computed itself.
LEMMA AdmitStep ==
  ASSUME ExecutionInvariant, NEW r \in Requests, Admit(r)
  PROVE  ExecutionInvariant'
<1> DEFINE hits == Max({b \in 0 .. FullBlocks(r) : \A c \in 1 .. b : index[PrefixOf(r, c)] # Nothing})
           blocks == FlattenSeq([b \in 1 .. hits |-> index[PrefixOf(r, b)].block])
           a == Alone(Prompt[r])
           l == hits * BlockTokens
<1>0. ExecutionTypes /\ WaitingClean /\ PromptsUnderWay /\ Decoding /\ TokensExact /\ IndexExact
  BY DEF ExecutionInvariant
<1>1. /\ phase[r] = "waiting"
      /\ phase' = [phase EXCEPT ![r] = "prefilling"]
      /\ shared' = [shared EXCEPT ![r] = hits]
      /\ cache' = [cache EXCEPT ![r] = blocks]
      /\ kind' = kind /\ generated' = generated /\ drawn' = drawn /\ chunkLogits' = chunkLogits /\ index' = index
  BY DEF Admit
<1>2. hits \in Nat /\ hits <= FullBlocks(r) /\ \A c \in 1 .. hits : index[PrefixOf(r, c)] # Nothing
  <2> DEFINE q == FullBlocks(r)
             known == {c \in 1 .. q : index[PrefixOf(r, c)] # Nothing}
             h == Max({b \in 0 .. q : \A c \in 1 .. b : c \in known})
  <2>1. h \in Nat /\ h <= q /\ \A c \in 1 .. h : c \in known
    <3> HIDE DEF known
    <3>1. QED BY HitsFacts
  <2>2. q \in Nat
    BY PromptFacts
  <2>3. \A b \in 0 .. q : \A c \in 1 .. b : c \in 1 .. q
    BY <2>2
  <2>4. {b \in 0 .. q : \A c \in 1 .. b : c \in known}
        = {b \in 0 .. q : \A c \in 1 .. b : index[PrefixOf(r, c)] # Nothing}
    <3> HIDE DEF q
    <3>1. QED BY <2>3
  <2>5. h = hits
    BY <2>4
  <2>6. \A c \in known : index[PrefixOf(r, c)] # Nothing
    OBVIOUS
  <2> HIDE DEF hits, h, known
  <2>7. QED BY <2>1, <2>5, <2>6
<1> HIDE DEF hits
<1>3. ASSUME NEW b \in 1 .. hits
      PROVE  /\ PrefixOf(r, b) \in PromptPrefixes
             /\ Exact(PrefixOf(r, b), index[PrefixOf(r, b)])
  <2>1. b \in Nat /\ b <= FullBlocks(r) /\ b # 0
    BY <1>2, PromptFacts
  <2>2. PrefixOf(r, b) \in PromptPrefixes
    BY <2>1, PrefixFacts
  <2>3. QED BY <1>0, <1>2, <2>2, IndexKnown
<1>4. blocks = First(a, l)
  <2>1. \A b \in 1 .. hits : Exact(PrefixOf(r, b), index[PrefixOf(r, b)])
    BY <1>3
  <2>2. QED BY <1>2, <2>1, AttachedExact
<1>5. /\ List(Prompt[r]) /\ List(a) /\ Len(a) = Len(Prompt[r]) /\ Len(a) \in Nat
      /\ l \in Nat /\ l <= Len(a) /\ hits * BlockTokens <= Len(Prompt[r])
  <2>1. List(Prompt[r]) /\ Len(Prompt[r]) \in Nat
    BY PromptFacts
  <2>2. l \in Nat /\ l <= Len(Prompt[r])
    BY <1>2, PrefixFacts
  <2>3. List(a) /\ Len(a) = Len(Prompt[r])
    BY <2>1, AloneFacts
  <2>4. QED BY <2>1, <2>2, <2>3
<1> HIDE DEF blocks, a, l
<1>6. List(blocks) /\ Len(blocks) = l /\ blocks = First(a, Len(blocks))
  BY <1>4, <1>5, ListFirst
<1>7. kind \notin Prefixed => hits = 0
  <2>1. hits # 0 => 1 \in 1 .. hits
    BY <1>2
  <2>2. hits # 0 => PrefixOf(r, 1) \in PromptPrefixes /\ index[PrefixOf(r, 1)] # Nothing
    BY <1>2, <1>3, <2>1
  <2>3. QED BY <1>0, <2>2 DEF ExecutionTypes
<1>8. blocks = First(a, l) \o <<>>
  BY <1>4, <1>6, ConcatEmpty
<1>9. PromptUnderWay(r)'
  <2>1. generated'[r] = <<>> /\ chunkLogits'[r] = <<>>
    BY <1>0, <1>1 DEF WaitingClean
  <2>2. cache'[r] = blocks /\ shared'[r] = hits
    BY <1>0, <1>1 DEF ExecutionTypes
  <2>3. blocks = First(Alone(Prompt[r]), Len(blocks)) /\ Len(blocks) <= Len(Prompt[r])
        /\ hits * BlockTokens <= Len(blocks) /\ Len(blocks) = hits * BlockTokens
    <3>1. l <= Len(blocks) /\ l <= Len(Prompt[r])
      BY <1>5, <1>6
    <3>2. QED BY <1>6, <3>1 DEF a, l
  <2>4. blocks = First(Alone(Prompt[r]), hits * BlockTokens) \o <<>>
    BY <1>8 DEF a, l
  <2>5. QED BY <1>1, <1>2, <1>7, <2>1, <2>2, <2>3, <2>4 DEF PromptUnderWay
<1>10. ASSUME NEW q \in Requests, q # r
       PROVE  phase'[q] = phase[q] /\ cache'[q] = cache[q] /\ shared'[q] = shared[q]
  BY <1>0, <1>1, <1>10 DEF ExecutionTypes
<1>11. phase'[r] = "prefilling" /\ cache'[r] = blocks
  BY <1>0, <1>1 DEF ExecutionTypes
<1>12. ExecutionTypes'
  <2>1. phase' \in [Requests -> Phases]
    BY <1>0, <1>1 DEF ExecutionTypes, Phases
  <2>2. shared' \in [Requests -> Nat]
    BY <1>0, <1>1, <1>2 DEF ExecutionTypes
  <2>3. cache' = [q \in Requests |-> cache'[q]]
    BY <1>0, <1>1 DEF ExecutionTypes
  <2>4. \A q \in Requests : List(cache'[q])
    BY <1>0, <1>6, <1>10, <1>11 DEF ExecutionTypes
  <2>5. QED BY <1>0, <1>1, <2>1, <2>2, <2>3, <2>4 DEF ExecutionTypes
<1>13. WaitingClean'
  BY <1>0, <1>1, <1>10, <1>11 DEF WaitingClean
<1>14. PromptsUnderWay'
  <2>1. ASSUME NEW q \in Requests, q # r, phase[q] = "prefilling"
        PROVE  PromptUnderWay(q)'
    <3>1. PromptUnderWay(q)
      BY <1>0, <2>1 DEF PromptsUnderWay
    <3>2. /\ kind' = kind /\ generated'[q] = generated[q] /\ cache'[q] = cache[q] /\ shared'[q] = shared[q]
          /\ chunkLogits'[q] = chunkLogits[q]
          /\ \A p \in PromptPrefixes : index[p] # Nothing => index'[p] # Nothing
      BY <1>1, <1>10, <2>1
    <3>3. QED BY <1>0, <3>1, <3>2, UnderWayKept
  <2>2. QED BY <1>9, <1>10, <2>1 DEF PromptsUnderWay
<1>15. Decoding'
  <2>1. ASSUME NEW q \in Requests
        PROVE  /\ phase'[q] \in {"decoding", "preempted"} => generated'[q] # <<>>
               /\ phase'[q] = "decoding" => cache'[q] = Alone(HistoryOf(q, generated'[q]))
    BY <1>0, <1>1, <1>10, <1>11, HistoryPrimed DEF Decoding
  <2>2. QED BY <2>1, HistoryPrimed DEF Decoding
<1>16. TokensExact'
  <2>1. ASSUME NEW q \in Requests
        PROVE  generated'[q] # <<>> => drawn'[q] = Last(Alone(HistoryOf(q, generated'[q])))
    BY <1>0, <1>1, HistoryPrimed DEF TokensExact
  <2>2. QED BY <2>1, HistoryPrimed DEF TokensExact
<1>17. IndexExact'
  BY <1>0, <1>1, SameIndex
<1>18. QED BY <1>12, <1>13, <1>14, <1>15, <1>16, <1>17 DEF ExecutionInvariant

\* A step of one request that draws nothing.
LEMMA OneRequestStep ==
  ASSUME ExecutionInvariant, NEW r \in Requests, kind' = kind, generated' = generated, drawn' = drawn,
         chunkLogits' = chunkLogits, index' = index,
         phase[r] \in {"decoding", "preempted"}, phase' \in [Requests -> Phases],
         phase'[r] \in {"decoding", "preempted", "failed"},
         shared' \in [Requests -> Nat],
         cache' = [q \in Requests |-> cache'[q]], List(cache'[r]),
         phase'[r] = "decoding" => cache'[r] = Alone(History(r)),
         \A q \in Requests : q # r => phase'[q] = phase[q] /\ cache'[q] = cache[q] /\ shared'[q] = shared[q]
  PROVE  ExecutionInvariant'
<1>0. ExecutionTypes /\ WaitingClean /\ PromptsUnderWay /\ Decoding /\ TokensExact /\ IndexExact
  BY DEF ExecutionInvariant
<1>1. ExecutionTypes'
  <2>1. \A q \in Requests : List(cache'[q])
    BY <1>0 DEF ExecutionTypes
  <2>2. QED BY <1>0, <2>1 DEF ExecutionTypes
<1>2. WaitingClean'
  BY <1>0 DEF WaitingClean
<1>3. PromptsUnderWay'
  <2>1. ASSUME NEW q \in Requests, phase'[q] = "prefilling"
        PROVE  PromptUnderWay(q)'
    <3>1. q # r
      BY <2>1
    <3>2. PromptUnderWay(q)
      BY <1>0, <2>1, <3>1 DEF PromptsUnderWay
    <3>3. QED BY <1>0, <3>1, <3>2, UnderWayKept
  <2>2. QED BY <2>1 DEF PromptsUnderWay
<1>4. Decoding'
  <2>1. ASSUME NEW q \in Requests
        PROVE  /\ phase'[q] \in {"decoding", "preempted"} => generated'[q] # <<>>
               /\ phase'[q] = "decoding" => cache'[q] = Alone(HistoryOf(q, generated'[q]))
    BY <1>0, HistoryPrimed DEF Decoding
  <2>2. QED BY <2>1, HistoryPrimed DEF Decoding
<1>5. TokensExact'
  <2>1. ASSUME NEW q \in Requests
        PROVE  generated'[q] # <<>> => drawn'[q] = Last(Alone(HistoryOf(q, generated'[q])))
    BY <1>0, HistoryPrimed DEF TokensExact
  <2>2. QED BY <2>1, HistoryPrimed DEF TokensExact
<1>6. IndexExact'
  BY <1>0, SameIndex
<1>7. QED BY <1>1, <1>2, <1>3, <1>4, <1>5, <1>6 DEF ExecutionInvariant

\* Preemption keeps the invariant: it drops the cache and keeps the tokens.
LEMMA PreemptStep ==
  ASSUME ExecutionInvariant, NEW r \in Requests, Preempt(r)
  PROVE  ExecutionInvariant'
<1>1. /\ phase[r] = "decoding" /\ phase' = [phase EXCEPT ![r] = "preempted"]
      /\ cache' = [cache EXCEPT ![r] = <<>>] /\ shared' = [shared EXCEPT ![r] = 0]
      /\ kind' = kind /\ generated' = generated /\ drawn' = drawn /\ chunkLogits' = chunkLogits /\ index' = index
  BY DEF Preempt
<1>2. /\ phase \in [Requests -> Phases] /\ shared \in [Requests -> Nat]
      /\ cache = [q \in Requests |-> cache[q]]
  BY DEF ExecutionInvariant, ExecutionTypes
<1>3. /\ phase'[r] = "preempted" /\ cache'[r] = <<>> /\ phase' \in [Requests -> Phases]
      /\ shared' \in [Requests -> Nat] /\ cache' = [q \in Requests |-> cache'[q]]
  BY <1>1, <1>2 DEF Phases
<1>4. \A q \in Requests : q # r => phase'[q] = phase[q] /\ cache'[q] = cache[q] /\ shared'[q] = shared[q]
  BY <1>1, <1>2
<1>5. List(cache'[r])
  BY <1>3, ListOne
<1>6. QED BY <1>1, <1>3, <1>4, <1>5, OneRequestStep

\* Recomputation keeps the invariant: the history restored is the one that was
\* dropped.
LEMMA RecomputeStep ==
  ASSUME ExecutionInvariant, NEW r \in Requests, Recompute(r)
  PROVE  ExecutionInvariant'
<1>1. /\ phase[r] = "preempted" /\ kind' = kind /\ generated' = generated /\ drawn' = drawn
      /\ shared' = shared /\ chunkLogits' = chunkLogits /\ index' = index
      /\ \/ /\ phase' = [phase EXCEPT ![r] = "decoding"]
            /\ cache' = [cache EXCEPT ![r] = Alone(History(r))]
         \/ phase' = [phase EXCEPT ![r] = "failed"] /\ cache' = cache
  BY DEF Recompute
<1>2. /\ phase \in [Requests -> Phases] /\ shared \in [Requests -> Nat]
      /\ cache = [q \in Requests |-> cache[q]] /\ List(cache[r]) /\ generated[r] \in Seq(Vocabulary)
      /\ generated[r] # <<>>
  BY <1>1 DEF ExecutionInvariant, ExecutionTypes, Decoding
<1>3. List(Alone(History(r)))
  <2>1. List(Front(Prompt[r] \o generated[r]))
    BY <1>2, HistoryFacts
  <2>2. QED BY <2>1, CroppedList, AloneFacts DEF History, All
<1>4. /\ phase'[r] \in {"decoding", "preempted", "failed"} /\ phase' \in [Requests -> Phases]
      /\ shared' \in [Requests -> Nat] /\ cache' = [q \in Requests |-> cache'[q]]
      /\ phase'[r] = "decoding" => cache'[r] = Alone(History(r))
      /\ List(cache'[r])
  <2> DEFINE h == Alone(History(r))
  <2> HIDE DEF h
  <2>1. CASE phase' = [phase EXCEPT ![r] = "decoding"] /\ cache' = [cache EXCEPT ![r] = h]
    <3>1. phase'[r] = "decoding" /\ phase' \in [Requests -> Phases]
      BY <1>2, <2>1 DEF Phases
    <3>2. cache'[r] = h /\ cache' = [q \in Requests |-> cache'[q]]
      BY <1>2, <2>1
    <3>3. QED BY <1>1, <1>2, <1>3, <3>1, <3>2 DEF h
  <2>2. CASE phase' = [phase EXCEPT ![r] = "failed"] /\ cache' = cache
    <3>1. phase'[r] = "failed" /\ phase' \in [Requests -> Phases]
      BY <1>2, <2>2 DEF Phases
    <3>2. QED BY <1>1, <1>2, <2>2, <3>1
  <2>3. QED BY <1>1, <2>1, <2>2 DEF h
<1>5. \A q \in Requests : q # r => phase'[q] = phase[q] /\ cache'[q] = cache[q] /\ shared'[q] = shared[q]
  BY <1>1, <1>2
<1>6. QED BY <1>1, <1>4, <1>5, OneRequestStep

\* Eviction keeps the invariant: the prefixes of a prompt under way stay.
LEMMA EvictStep ==
  ASSUME ExecutionInvariant, NEW p \in PromptPrefixes, Evict(p)
  PROVE  ExecutionInvariant'
<1>0. ExecutionTypes /\ WaitingClean /\ PromptsUnderWay /\ Decoding /\ TokensExact /\ IndexExact
  BY DEF ExecutionInvariant
<1>1. /\ \A r \in Requests : p \in PrefixesOf(r) => Len(p) > shared[r] * BlockTokens
      /\ index' = [index EXCEPT ![p] = Nothing]
      /\ kind' = kind /\ phase' = phase /\ generated' = generated /\ drawn' = drawn /\ cache' = cache
      /\ shared' = shared /\ chunkLogits' = chunkLogits
  BY DEF Evict
<1>2. /\ index' = [o \in PromptPrefixes |-> index'[o]] /\ index'[p] = Nothing
      /\ \A o \in PromptPrefixes : o # p => index'[o] = index[o]
  BY <1>0, <1>1 DEF ExecutionTypes
<1>3. ExecutionTypes'
  <2>1. kind' \notin Prefixed => \A o \in PromptPrefixes : index'[o] = Nothing
    BY <1>0, <1>1, <1>2 DEF ExecutionTypes
  <2>2. QED BY <1>0, <1>1, <1>2, <2>1 DEF ExecutionTypes
<1>4. IndexExact'
  BY <1>0, <1>2 DEF IndexExact
<1>5. ASSUME NEW r \in Requests, PromptUnderWay(r)
      PROVE  PromptUnderWay(r)'
  <2>1. ASSUME NEW b \in 1 .. shared[r]
        PROVE  index'[PrefixOf(r, b)] # Nothing
    <3> DEFINE o == PrefixOf(r, b)
               q == FullBlocks(r)
    <3>1. shared[r] \in Nat /\ shared[r] <= q /\ q \in Nat /\ BlockTokens \in Nat \ {0}
      BY <1>0, <1>5, PromptFacts DEF ExecutionTypes, PromptUnderWay
    <3>2. b \in Nat /\ b <= shared[r] /\ b <= q /\ b # 0
      BY <3>1
    <3>3. o \in PrefixesOf(r) /\ o \in PromptPrefixes /\ Len(o) = b * BlockTokens
      BY <3>2, PrefixFacts
    <3>4. b * BlockTokens <= shared[r] * BlockTokens /\ b * BlockTokens \in Nat /\ shared[r] * BlockTokens \in Nat
      BY <3>1, <3>2, Multiples
    <3>5. o # p
      <4> DEFINE m == b * BlockTokens
                 n == shared[r] * BlockTokens
      <4>1. o = p => m > n
        BY <1>1, <3>3
      <4>2. m <= n /\ m \in Nat /\ n \in Nat
        BY <3>4
      <4> HIDE DEF m, n
      <4>3. QED BY <4>1, <4>2
    <3>6. index[o] # Nothing
      BY <1>5 DEF PromptUnderWay
    <3> HIDE DEF o
    <3>7. index'[o] # Nothing
      BY <1>2, <3>3, <3>5, <3>6
    <3>8. QED BY <3>7 DEF o
  <2>2. QED BY <1>1, <1>5, <2>1 DEF PromptUnderWay
<1>6. PromptsUnderWay'
  BY <1>0, <1>1, <1>5 DEF PromptsUnderWay
<1>7. WaitingClean'
  BY <1>0, <1>1 DEF WaitingClean
<1>8. Decoding'
  <2>1. ASSUME NEW q \in Requests
        PROVE  /\ phase'[q] \in {"decoding", "preempted"} => generated'[q] # <<>>
               /\ phase'[q] = "decoding" => cache'[q] = Alone(HistoryOf(q, generated'[q]))
    BY <1>0, <1>1, HistoryPrimed DEF Decoding
  <2>2. QED BY <2>1, HistoryPrimed DEF Decoding
<1>9. TokensExact'
  <2>1. ASSUME NEW q \in Requests
        PROVE  generated'[q] # <<>> => drawn'[q] = Last(Alone(HistoryOf(q, generated'[q])))
    BY <1>0, <1>1, HistoryPrimed DEF TokensExact
  <2>2. QED BY <2>1, HistoryPrimed DEF TokensExact
<1>10. QED BY <1>3, <1>4, <1>6, <1>7, <1>8, <1>9 DEF ExecutionInvariant

\* A step that changes nothing keeps the invariant.
LEMMA StutterStep ==
  ASSUME ExecutionInvariant, UNCHANGED vars
  PROVE  ExecutionInvariant'
<1>0. ExecutionTypes /\ WaitingClean /\ PromptsUnderWay /\ Decoding /\ TokensExact /\ IndexExact
  BY DEF ExecutionInvariant
<1>1. /\ kind' = kind /\ phase' = phase /\ generated' = generated /\ drawn' = drawn /\ cache' = cache
      /\ shared' = shared /\ chunkLogits' = chunkLogits /\ index' = index
  BY DEF vars
<1>2. ExecutionTypes' /\ WaitingClean' /\ IndexExact'
  BY <1>0, <1>1 DEF ExecutionTypes, WaitingClean, IndexExact
<1>3. PromptsUnderWay'
  <2>1. ASSUME NEW r \in Requests, PromptUnderWay(r) PROVE PromptUnderWay(r)'
    BY <1>0, <1>1, <2>1, UnderWayKept
  <2>2. QED BY <1>0, <1>1, <2>1 DEF PromptsUnderWay
<1>4. Decoding'
  <2>1. ASSUME NEW q \in Requests
        PROVE  /\ phase'[q] \in {"decoding", "preempted"} => generated'[q] # <<>>
               /\ phase'[q] = "decoding" => cache'[q] = Alone(HistoryOf(q, generated'[q]))
    BY <1>0, <1>1, HistoryPrimed DEF Decoding
  <2>2. QED BY <2>1, HistoryPrimed DEF Decoding
<1>5. TokensExact'
  <2>1. ASSUME NEW q \in Requests
        PROVE  generated'[q] # <<>> => drawn'[q] = Last(Alone(HistoryOf(q, generated'[q])))
    BY <1>0, <1>1, HistoryPrimed DEF TokensExact
  <2>2. QED BY <2>1, HistoryPrimed DEF TokensExact
<1>6. QED BY <1>0, <1>2, <1>3, <1>4, <1>5 DEF ExecutionInvariant

\* The invariant holds in the beginning.
LEMMA ExecutionStart == Init => ExecutionInvariant
<1> SUFFICES ASSUME Init PROVE ExecutionInvariant
  OBVIOUS
<1>1. \A r \in Requests : phase[r] = "waiting" /\ generated[r] = <<>> /\ cache[r] = <<>> /\ chunkLogits[r] = <<>>
  BY DEF Init
<1>2. \A p \in PromptPrefixes : index[p] = Nothing
  BY DEF Init
<1>3. List(<<>>)
  BY ListOne
<1>4. phase \in [Requests -> Phases] /\ shared \in [Requests -> Nat] /\ generated \in [Requests -> Seq(Vocabulary)]
  BY DEF Init, Phases
<1>5. /\ kind \in Kinds /\ drawn = [r \in Requests |-> drawn[r]] /\ cache = [r \in Requests |-> cache[r]]
      /\ chunkLogits = [r \in Requests |-> chunkLogits[r]] /\ index = [p \in PromptPrefixes |-> index[p]]
  BY DEF Init
<1>6. ExecutionTypes
  BY <1>1, <1>2, <1>3, <1>4, <1>5 DEF ExecutionTypes
<1>7. WaitingClean /\ PromptsUnderWay /\ Decoding /\ TokensExact
  BY <1>1 DEF WaitingClean, PromptsUnderWay, Decoding, TokensExact
<1>8. IndexExact
  BY <1>2 DEF IndexExact
<1>9. QED BY <1>6, <1>7, <1>8 DEF ExecutionInvariant

\* Every step keeps the invariant.
LEMMA ExecutionStep == ExecutionInvariant /\ [Next]_vars => ExecutionInvariant'
<1> SUFFICES ASSUME ExecutionInvariant, [Next]_vars PROVE ExecutionInvariant'
  OBVIOUS
<1>1. ASSUME NEW r \in Requests, Admit(r) \/ Preempt(r) \/ Recompute(r)
      PROVE  ExecutionInvariant'
  BY <1>1, AdmitStep, PreemptStep, RecomputeStep
<1>2. ASSUME NEW rows \in Orders(InPhase("prefilling")), Prefill(rows) \/ PrefillChunks(rows)
      PROVE  ExecutionInvariant'
  <2>1. InPhase("prefilling") \subseteq Requests
    BY DEF InPhase
  <2>2. RowsOf(rows, InPhase("prefilling"))
    BY <2>1, OrdersRows
  <2>3. QED BY <1>2, <2>2, PrefillStep, ChunksStep
<1>3. ASSUME NEW rows \in {SetToSeq(S) : S \in SUBSET InPhase("decoding") \ {{}}}, Decode(rows)
      PROVE  ExecutionInvariant'
  <2>1. PICK S \in SUBSET InPhase("decoding") : rows = SetToSeq(S)
    BY <1>3
  <2>2. S \subseteq Requests /\ S \subseteq InPhase("decoding")
    BY DEF InPhase
  <2>3. RowsOf(rows, S)
    BY <2>1, <2>2, ChosenRows
  <2>4. RowsOf(rows, InPhase("decoding"))
    BY <2>2, <2>3 DEF RowsOf
  <2>5. QED BY <1>3, <2>4, DecodeStep
<1>4. ASSUME NEW p \in PromptPrefixes, Evict(p)
      PROVE  ExecutionInvariant'
  BY <1>4, EvictStep
<1>5. CASE UNCHANGED vars
  BY <1>5, StutterStep
<1>6. QED BY <1>1, <1>2, <1>3, <1>4, <1>5 DEF Next

\* Whatever the order of the rows, no batch is empty or, unless it is one row,
\* beyond the limits of size, tokens and padding.
LEMMA BatchesKept == BatchesWithinLimits
<1> SUFFICES ASSUME NEW rows \in Orders(InPhase("prefilling"))
             PROVE  LET batches == Batches(rows, SuffixLength) IN
                    /\ FlattenSeq(batches) = rows
                    /\ \A i \in DOMAIN batches :
                         /\ Len(batches[i]) = 1 \/ Fits(batches[i], SuffixLength)
                         /\ i < Len(batches) => ~Fits(Append(batches[i], batches[i + 1][1]), SuffixLength)
  BY DEF BatchesWithinLimits
<1> DEFINE b == Batches(rows, SuffixLength)
<1>1. List(rows)
  <2>1. InPhase("prefilling") \subseteq Requests
    BY DEF InPhase
  <2>2. rows \in Seq(Requests)
    BY <2>1, OrdersRows DEF RowsOf
  <2>3. QED BY <2>2 DEF List
<1>2. Batched(b, Len(rows), rows, SuffixLength)
  BY <1>1, BatchesSound
<1> HIDE DEF b
<1>3. /\ Nested(b) /\ FlattenSeq(b) = First(rows, Len(rows))
      /\ \A i \in 1 .. Len(b) : Len(b[i]) = 1 \/ Fits(b[i], SuffixLength)
      /\ \A i \in 1 .. Len(b) : i < Len(b) => ~Fits(Append(b[i], b[i + 1][1]), SuffixLength)
  BY <1>2 DEF Batched
<1>4. First(rows, Len(rows)) = rows
  BY <1>1, FirstAll
<1>5. DOMAIN b = 1 .. Len(b)
  BY <1>3, ListFacts DEF Nested
<1>6. QED BY <1>3, <1>4, <1>5 DEF b

\* The invariant says that batching is invisible.
LEMMA ExecutionSafe == ExecutionInvariant => BatchingInvisible
<1> SUFFICES ASSUME ExecutionInvariant PROVE BatchingInvisible
  OBVIOUS
<1>1. TokensExact /\ IndexExact
  BY DEF ExecutionInvariant
<1>2. CachesExact
  <2>1. ASSUME NEW r \in Requests, phase[r] = "prefilling"
        PROVE  cache[r] = Alone(SubSeq(Prompt[r], 1, Len(cache[r])))
    <3> DEFINE m == Len(cache[r])
    <3>1. PromptUnderWay(r) /\ ExecutionTypes
      BY <2>1 DEF ExecutionInvariant, PromptsUnderWay
    <3>2. m \in Nat /\ List(Prompt[r])
      BY <3>1, UnderWayFacts
    <3>3. cache[r] = First(Alone(Prompt[r]), m) /\ m <= Len(Prompt[r])
      BY <3>1 DEF PromptUnderWay
    <3> HIDE DEF m
    <3>4. First(Alone(Prompt[r]), m) = Alone(First(Prompt[r], m))
      BY <3>2, <3>3, AloneFacts
    <3>5. QED BY <3>3, <3>4 DEF First, m
  <2>2. ASSUME NEW r \in Requests, phase[r] = "decoding" PROVE cache[r] = Alone(History(r))
    BY <2>2 DEF ExecutionInvariant, Decoding
  <2>3. QED BY <2>1, <2>2 DEF CachesExact
<1>3. QED BY <1>1, <1>2, BatchesKept DEF BatchingInvisible

\* Every token is drawn from the logits that the model alone computes for its
\* request's own history, and every decodable cache and shared block holds what it
\* would, in every batch, chunking, sharing, eviction, failure and preemption.
THEOREM BatchingAlwaysInvisible == Spec => []BatchingInvisible
<1>1. Spec => []ExecutionInvariant
  BY ExecutionStart, ExecutionStep, PTL DEF Spec
<1>2. QED BY <1>1, ExecutionSafe, PTL
=============================================================================
