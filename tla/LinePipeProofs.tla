--------------------------- MODULE LinePipeProofs ---------------------------
(***************************************************************************)
(* Proofs about LinePipe, for any number of jobs, any length of the lines, *)
(* any capacity of the pipes and any size of a read: characters that pass  *)
(* through the pipes in pieces arrive as the lines that were written.      *)
(***************************************************************************)
EXTENDS LinePipe, SequenceLemmas

-----------------------------------------------------------------------------
(* Sequences of characters.                                                *)

Chars == Seq(Nat)

LEMMA Concat ==
  ASSUME NEW s \in Chars, NEW t \in Chars
  PROVE  /\ s \o t \in Chars /\ Len(s \o t) = Len(s) + Len(t)
         /\ \A i \in 1 .. Len(s) : (s \o t)[i] = s[i]
         /\ \A i \in 1 .. Len(t) : (s \o t)[Len(s) + i] = t[i]
         /\ Len(s) \in Nat /\ Len(t) \in Nat
         /\ s \o <<>> = s /\ <<>> \o s = s
         /\ s \o t = <<>> <=> s = <<>> /\ t = <<>>
<1>1. Len(s) \in Nat /\ Len(t) \in Nat
  BY LenProperties DEF Chars
<1>2. /\ s \o t \in Chars /\ Len(s \o t) = Len(s) + Len(t)
      /\ \A i \in 1 .. Len(s) + Len(t) :
           (s \o t)[i] = IF i <= Len(s) THEN s[i] ELSE t[i - Len(s)]
  BY ConcatProperties DEF Chars
<1>3. \A i \in 1 .. Len(s) : (s \o t)[i] = s[i]
  BY <1>1, <1>2
<1>4. ASSUME NEW i \in 1 .. Len(t) PROVE (s \o t)[Len(s) + i] = t[i]
  <2>1. /\ Len(s) + i \in 1 .. Len(s) + Len(t) /\ ~(Len(s) + i <= Len(s))
        /\ Len(s) + i - Len(s) = i
    BY <1>1
  <2> QED BY <1>2, <2>1
<1>5. /\ s \o <<>> = s /\ <<>> \o s = s
      /\ s \o t = <<>> <=> s = <<>> /\ t = <<>>
  BY ConcatEmptySeq, ConcatEqualIffEmpty DEF Chars
<1> QED BY <1>1, <1>2, <1>3, <1>4, <1>5

LEMMA ConcatThree ==
  ASSUME NEW s \in Chars, NEW t \in Chars, NEW u \in Chars
  PROVE  (s \o t) \o u = s \o (t \o u)
  BY ConcatAssociative, SMTT(20) DEF Chars

LEMMA Cancel ==
  ASSUME NEW s \in Chars, NEW t \in Chars, NEW u \in Chars, s \o t = s \o u
  PROVE  t = u
  BY ConcatSimplifications DEF Chars

(* Two sequences are one when they agree place by place. *)
LEMMA SameChars ==
  ASSUME NEW s \in Chars, NEW t \in Chars, Len(s) = Len(t),
         \A i \in 1 .. Len(s) : s[i] = t[i]
  PROVE  s = t
  BY SeqEqual DEF Chars

LEMMA Empty ==
  /\ <<>> \in Chars /\ Len(<<>>) = 0
  /\ \A s \in Chars : s # <<>> <=> Len(s) \in Nat \ {0}
  BY EmptySeq DEF Chars

LEMMA Part ==
  ASSUME NEW s \in Chars, NEW m \in Int, NEW n \in Int,
         m >= 1, n <= Len(s), NEW l \in Nat, l = n - m + 1
  PROVE  /\ SubSeq(s, m, n) \in Chars /\ Len(SubSeq(s, m, n)) = l
         /\ \A i \in 1 .. l : SubSeq(s, m, n)[i] = s[m + i - 1]
<1>1. Len(s) \in Nat /\ \A i \in 1 .. Len(s) : s[i] \in Nat
  BY LenProperties, ElementOfSeq DEF Chars
<1>2. \A i \in m .. n : s[i] \in Nat
  BY <1>1
<1>3. /\ SubSeq(s, m, n) \in Seq(Nat)
      /\ Len(SubSeq(s, m, n)) = IF m <= n THEN n - m + 1 ELSE 0
      /\ \A i \in 1 .. n - m + 1 : SubSeq(s, m, n)[i] = s[m + i - 1]
  BY <1>2, SubSeqProperties
<1>4. (IF m <= n THEN n - m + 1 ELSE 0) = l
  OBVIOUS
<1> QED BY <1>3, <1>4 DEF Chars

(* What is taken of a sequence, and what is left of it.                    *)
LEMMA Cut ==
  ASSUME NEW s \in Chars, NEW n \in 0 .. Len(s)
  PROVE  /\ First(s, n) \in Chars /\ Len(First(s, n)) = n
         /\ \A i \in 1 .. n : First(s, n)[i] = s[i]
         /\ Without(s, n) \in Chars /\ Len(Without(s, n)) = Len(s) - n
         /\ \A i \in 1 .. Len(s) - n : Without(s, n)[i] = s[n + i]
         /\ First(s, n) \o Without(s, n) = s
<1>1. Len(s) \in Nat /\ \A i \in 1 .. Len(s) : s[i] \in Nat
  BY LenProperties, ElementOfSeq DEF Chars
<1>2. /\ First(s, n) \in Chars /\ Len(First(s, n)) = n
      /\ \A i \in 1 .. n : First(s, n)[i] = s[i]
  <2>1. /\ 1 \in Int /\ n \in Int /\ n = n - 1 + 1 /\ n \in Nat
        /\ 1 >= 1 /\ n <= Len(s) /\ \A i \in 1 .. n : 1 + i - 1 = i
    BY <1>1
  <2>2. /\ SubSeq(s, 1, n) \in Chars /\ Len(SubSeq(s, 1, n)) = n
        /\ \A i \in 1 .. n : SubSeq(s, 1, n)[i] = s[1 + i - 1]
    BY <2>1, Part
  <2> QED BY <2>1, <2>2 DEF First
<1>3. /\ Without(s, n) \in Chars /\ Len(Without(s, n)) = Len(s) - n
      /\ \A i \in 1 .. Len(s) - n : Without(s, n)[i] = s[n + i]
  <2> DEFINE l == Len(s) - n
             m == n + 1
  <2>1. /\ m \in Int /\ Len(s) \in Int /\ l = Len(s) - m + 1 /\ l \in Nat
        /\ m >= 1 /\ Len(s) <= Len(s) /\ \A i \in 1 .. l : m + i - 1 = n + i
    BY <1>1
  <2> HIDE DEF l, m
  <2>2. /\ SubSeq(s, m, Len(s)) \in Chars /\ Len(SubSeq(s, m, Len(s))) = l
        /\ \A i \in 1 .. l : SubSeq(s, m, Len(s))[i] = s[m + i - 1]
    BY <2>1, Part
  <2>3. \A i \in 1 .. l : SubSeq(s, m, Len(s))[i] = s[n + i]
    BY <2>1, <2>2
  <2> QED BY <2>2, <2>3 DEF Without, l, m
<1>4. First(s, n) \o Without(s, n) = s
  <2> DEFINE f == First(s, n)
             w == Without(s, n)
  <2>1. /\ f \o w \in Chars /\ Len(f \o w) = Len(s)
        /\ \A i \in 1 .. n : (f \o w)[i] = s[i]
        /\ \A i \in 1 .. Len(s) - n : (f \o w)[n + i] = s[n + i]
    <3> HIDE DEF f, w
    <3>1. /\ f \in Chars /\ Len(f) = n /\ w \in Chars /\ Len(w) = Len(s) - n
          /\ \A i \in 1 .. n : f[i] = s[i]
          /\ \A i \in 1 .. Len(s) - n : w[i] = s[n + i]
      BY <1>2, <1>3 DEF f, w
    <3>2. /\ f \o w \in Chars /\ Len(f \o w) = Len(f) + Len(w)
          /\ \A i \in 1 .. Len(f) : (f \o w)[i] = f[i]
          /\ \A i \in 1 .. Len(w) : (f \o w)[Len(f) + i] = w[i]
      <4>1. f \in Chars /\ w \in Chars
        BY <3>1
      <4> QED BY <4>1, Concat
    <3>3. Len(f) = n /\ Len(w) = Len(s) - n /\ n + (Len(s) - n) = Len(s)
      BY <1>1, <3>1
    <3> QED BY <3>1, <3>2, <3>3
  <2>2. ASSUME NEW i \in 1 .. Len(s) PROVE (f \o w)[i] = s[i]
    <3>1. CASE i <= n
      BY <2>1, <3>1
    <3>2. CASE ~(i <= n)
      <4>1. i - n \in 1 .. Len(s) - n /\ n + (i - n) = i
        BY <1>1, <3>2
      <4> QED BY <2>1, <4>1
    <3> QED BY <3>1, <3>2
  <2> HIDE DEF f, w
  <2>3. f \o w = s
    BY <2>1, <2>2, SameChars
  <2> QED BY <2>3 DEF f, w
<1> QED BY <1>2, <1>3, <1>4

(* The beginning of a sequence can be cut off from both sides of an        *)
(* equation.                                                               *)
LEMMA CutConcat ==
  ASSUME NEW s \in Chars, NEW t \in Chars, NEW n \in 0 .. Len(s)
  PROVE  /\ First(s \o t, n) = First(s, n)
         /\ Without(s \o t, n) = Without(s, n) \o t
<1>0. /\ Len(s) \in Nat /\ Len(t) \in Nat /\ s \o t \in Chars
      /\ Len(s \o t) = Len(s) + Len(t) /\ n \in 0 .. Len(s \o t)
  BY Concat
<1>1. First(s \o t, n) = First(s, n)
  <2>1. /\ First(s \o t, n) \in Chars /\ Len(First(s \o t, n)) = n
        /\ \A i \in 1 .. n : First(s \o t, n)[i] = (s \o t)[i]
    BY <1>0, Cut
  <2>2. /\ First(s, n) \in Chars /\ Len(First(s, n)) = n
        /\ \A i \in 1 .. n : First(s, n)[i] = s[i]
    BY <1>0, Cut
  <2>3. \A i \in 1 .. n : i \in 1 .. Len(s)
    BY <1>0
  <2>4. \A i \in 1 .. Len(s) : (s \o t)[i] = s[i]
    BY Concat
  <2>5. \A i \in 1 .. n : First(s \o t, n)[i] = First(s, n)[i]
    BY <2>1, <2>2, <2>3, <2>4
  <2> QED BY <2>1, <2>2, <2>5, SameChars
<1>2. Without(s \o t, n) = Without(s, n) \o t
  <2> DEFINE f == First(s, n)
             w == Without(s, n)
  <2>1. f \in Chars /\ w \in Chars /\ Len(f) = n /\ s = f \o w
    BY Cut
  <2>2. First(s \o t, n) \o Without(s \o t, n) = s \o t
        /\ Without(s \o t, n) \in Chars
    BY <1>0, Cut
  <2>3. f \o Without(s \o t, n) = f \o (w \o t)
    <3> HIDE DEF f, w
    <3>1. (f \o w) \o t = f \o (w \o t)
      BY <2>1, ConcatThree
    <3>2. f \o Without(s \o t, n) = s \o t
      BY <1>1, <2>2 DEF f
    <3> QED BY <2>1, <3>1, <3>2
  <2>4. w \o t \in Chars
    BY <2>1, Concat
  <2> HIDE DEF f, w
  <2>5. Without(s \o t, n) = w \o t
    BY <2>1, <2>2, <2>3, <2>4, Cancel
  <2> QED BY <2>5 DEF w
<1> QED BY <1>1, <1>2

(* Where the newlines of a concatenation are.                              *)
LEMMA NewlinesOf ==
  ASSUME NEW s \in Chars
  PROVE  /\ Newlines(s) \subseteq 1 .. Len(s) /\ Newlines(s) \subseteq Nat
         /\ IsFiniteSet(Newlines(s)) /\ Cardinality(Newlines(s)) \in Nat
         /\ \A k \in 1 .. Len(s) : k \in Newlines(s) <=> s[k] = NL
<1>1. DOMAIN s = 1 .. Len(s) /\ Len(s) \in Nat
  BY LenProperties DEF Chars
<1>2. IsFiniteSet(1 .. Len(s))
  BY <1>1, FS_Interval
<1> QED BY <1>1, <1>2, FS_Subset, FS_CardinalityType DEF Newlines

LEMMA NewlinesConcat ==
  ASSUME NEW s \in Chars, NEW t \in Chars
  PROVE  Newlines(s \o t) = Newlines(s) \cup {Len(s) + k : k \in Newlines(t)}
<1>0. /\ s \o t \in Chars /\ Len(s \o t) = Len(s) + Len(t)
      /\ Len(s) \in Nat /\ Len(t) \in Nat
  BY Concat
<1> DEFINE u == s \o t
<1>a. /\ \A k \in 1 .. Len(s) : u[k] = s[k]
      /\ \A k \in 1 .. Len(t) : u[Len(s) + k] = t[k]
  BY Concat
<1>b. /\ \A k : k \in Newlines(s) <=> k \in 1 .. Len(s) /\ s[k] = NL
      /\ \A k : k \in Newlines(t) <=> k \in 1 .. Len(t) /\ t[k] = NL
      /\ \A k : k \in Newlines(u) <=> k \in 1 .. Len(u) /\ u[k] = NL
  <2> HIDE DEF u
  <2> QED BY <1>0, NewlinesOf DEF u
<1> HIDE DEF u
<1>1. ASSUME NEW k \in Newlines(u)
      PROVE  k \in Newlines(s) \cup {Len(s) + j : j \in Newlines(t)}
  <2>1. k \in 1 .. Len(s) + Len(t) /\ u[k] = NL
    BY <1>0, <1>b DEF u
  <2>2. CASE k <= Len(s)
    BY <1>0, <1>a, <1>b, <2>1, <2>2
  <2>3. CASE ~(k <= Len(s))
    <3>1. k - Len(s) \in 1 .. Len(t) /\ Len(s) + (k - Len(s)) = k
      BY <1>0, <2>1, <2>3
    <3>2. k - Len(s) \in Newlines(t)
      BY <1>a, <1>b, <2>1, <3>1
    <3> QED BY <3>1, <3>2
  <2> QED BY <2>2, <2>3
<1>2. ASSUME NEW k \in Newlines(s) PROVE k \in Newlines(u)
  <2>1. k \in 1 .. Len(s) /\ k \in 1 .. Len(u)
    BY <1>0, <1>b DEF u
  <2> QED BY <1>a, <1>b, <2>1
<1>3. ASSUME NEW k \in Newlines(t) PROVE Len(s) + k \in Newlines(u)
  <2>1. k \in 1 .. Len(t) /\ Len(s) + k \in 1 .. Len(u)
    BY <1>0, <1>b DEF u
  <2> QED BY <1>a, <1>b, <2>1
<1> QED BY <1>1, <1>2, <1>3 DEF u

LEMMA NoNewline ==
  Newlines(<<>>) = {}
  BY DEF Newlines

-----------------------------------------------------------------------------
(* Lines.                                                                  *)

LengthOK == length \in [1 .. LastLine -> 1 .. MaxLength]

LEMMA Bounds ==
  /\ LastLine \in Nat /\ LastLine = 3 * Jobs + 3 /\ Jobs \in Nat
  /\ MaxLength \in Nat \ {0} /\ Chunk \in Nat \ {0} /\ Capacity \in Nat
  BY PipeAssumption DEF PipeAssumption, LastLine, Channel!LastLine

LEMMA Texts ==
  ASSUME LengthOK, NEW i \in 1 .. LastLine
  PROVE  /\ Text(i) \in Chars /\ Len(Text(i)) = length[i]
         /\ \A k \in 1 .. length[i] : Text(i)[k] = i
         /\ length[i] \in Nat \ {0} /\ i \in Nat \ {0}
         /\ Newlines(Text(i)) = {}
<1>1. length[i] \in Nat \ {0} /\ i \in Nat \ {0}
  BY Bounds DEF LengthOK
<1>2. /\ Text(i) \in Chars /\ Len(Text(i)) = length[i]
      /\ DOMAIN Text(i) = 1 .. length[i]
      /\ \A k \in 1 .. length[i] : Text(i)[k] = i
  <2>1. Text(i) \in [1 .. length[i] -> Nat]
    BY <1>1 DEF Text
  <2> QED BY <1>1, <2>1 DEF Text, Chars
<1>3. Newlines(Text(i)) = {}
  BY <1>1, <1>2 DEF Newlines, NL
<1> QED BY <1>1, <1>2, <1>3

LEMMA TerminatedTexts ==
  ASSUME LengthOK, NEW i \in 1 .. LastLine
  PROVE  /\ Terminated(i) \in Chars /\ Len(Terminated(i)) = length[i] + 1
         /\ \A k \in 1 .. length[i] : Terminated(i)[k] = i
         /\ Terminated(i) # <<>>
         /\ First(Terminated(i), length[i]) = Text(i)
         /\ Newlines(Terminated(i)) = {length[i] + 1}
<1> DEFINE x == Text(i)
           n == length[i]
<1>1. /\ x \in Chars /\ Len(x) = n /\ n \in Nat \ {0} /\ Newlines(x) = {}
      /\ \A k \in 1 .. n : x[k] = i
  BY Texts
<1> HIDE DEF x, n
<1>2. /\ Append(x, NL) \in Chars /\ Append(x, NL) # <<>>
      /\ Len(Append(x, NL)) = n + 1
      /\ \A k \in 1 .. n : Append(x, NL)[k] = x[k]
      /\ Append(x, NL)[n + 1] = NL
  <2>1. NL \in Nat
    BY DEF NL
  <2> QED BY <1>1, <2>1, AppendProperties DEF Chars
<1>3. Newlines(Append(x, NL)) = {n + 1}
  <2>1. \A k : k \in Newlines(Append(x, NL)) <=>
                 k \in 1 .. n + 1 /\ Append(x, NL)[k] = NL
    BY <1>2, NewlinesOf
  <2>2. \A k \in 1 .. n : x[k] # NL
    BY <1>1, NewlinesOf
  <2>3. \A k \in 1 .. n + 1 : k \in 1 .. n \/ k = n + 1
    BY <1>1
  <2>4. n + 1 \in 1 .. n + 1
    BY <1>1
  <2> QED BY <1>2, <2>1, <2>2, <2>3, <2>4
<1>4. First(Append(x, NL), n) = x
  <2>1. n \in 0 .. Len(Append(x, NL))
    BY <1>1, <1>2
  <2>2. /\ First(Append(x, NL), n) \in Chars
        /\ Len(First(Append(x, NL), n)) = n
        /\ \A k \in 1 .. n : First(Append(x, NL), n)[k] = Append(x, NL)[k]
    BY <1>2, <2>1, Cut
  <2> QED BY <1>1, <1>2, <2>2, SameChars
<1> QED BY <1>1, <1>2, <1>3, <1>4 DEF Terminated, x, n

(* A text tells which line it is. *)
LEMMA LineOfText ==
  ASSUME LengthOK, NEW i \in 1 .. LastLine
  PROVE  LineOf(Text(i)) = i /\ LineOf(<<>>) = 0
<1>0. DOMAIN length = 1 .. LastLine
  BY DEF LengthOK
<1>1. ASSUME NEW j \in 1 .. LastLine, Text(j) = Text(i) PROVE j = i
  <2>1. Text(j)[1] = j /\ Text(i)[1] = i
    <3>1. 1 \in 1 .. length[j] /\ 1 \in 1 .. length[i]
      BY Texts
    <3> QED BY <3>1, Texts
  <2> QED BY <1>1, <2>1
<1>2. {j \in DOMAIN length : Text(j) = Text(i)} = {i}
  BY <1>0, <1>1
<1>3. {j \in DOMAIN length : Text(j) = <<>>} = {}
  BY <1>0, Texts, Empty
<1>4. LineOf(Text(i)) = i
  BY <1>2 DEF LineOf
<1>5. LineOf(<<>>) = 0
  BY <1>3 DEF LineOf
<1> QED BY <1>4, <1>5

(* What has been written of a line is no complete line, and is taken for   *)
(* one only when nothing but the newline is missing.                       *)
LEMMA Written ==
  ASSUME LengthOK, NEW i \in 1 .. LastLine, NEW p \in Chars, NEW out \in Chars,
         p \o out = Terminated(i), out # <<>>
  PROVE  /\ Newlines(p) = {}
         /\ LineOf(p) = IF p = Text(i) THEN i ELSE 0
<1>1. /\ Len(p) + Len(out) = length[i] + 1 /\ Len(p) \in Nat
      /\ length[i] \in Nat \ {0} /\ Len(out) \in Nat \ {0}
      /\ \A k \in 1 .. Len(p) : Terminated(i)[k] = p[k]
  <2>1. /\ Len(p \o out) = Len(p) + Len(out) /\ Len(p) \in Nat
        /\ \A k \in 1 .. Len(p) : (p \o out)[k] = p[k]
    BY Concat
  <2>2. Len(Terminated(i)) = length[i] + 1 /\ length[i] \in Nat \ {0}
    BY TerminatedTexts, Texts
  <2>3. Len(out) \in Nat \ {0}
    BY Empty
  <2> QED BY <2>1, <2>2, <2>3
<1>2. \A k \in 1 .. Len(p) : p[k] = i /\ i # NL
  <2>1. \A k \in 1 .. Len(p) : k \in 1 .. length[i]
    BY <1>1
  <2> QED BY <1>1, <2>1, TerminatedTexts, Texts DEF NL
<1>3. Newlines(p) = {}
  BY <1>2, NewlinesOf
<1>4. CASE p = Text(i)
  BY <1>3, <1>4, LineOfText
<1>5. CASE p # Text(i)
  <2>1. ASSUME NEW j \in 1 .. LastLine, Text(j) = p PROVE FALSE
    <3>1. 1 \in 1 .. Len(p) /\ p[1] = j
      BY <2>1, Texts
    <3>2. j = i
      BY <1>2, <3>1
    <3> QED BY <1>5, <2>1, <3>2
  <2>2. {j \in DOMAIN length : Text(j) = p} = {}
    BY <2>1 DEF LengthOK
  <2> QED BY <1>3, <1>5, <2>2 DEF LineOf
<1> QED BY <1>4, <1>5

LEMMA SameFunction ==
  ASSUME NEW D, NEW S, NEW g \in [D -> S], NEW h \in [D -> S],
         \A i \in D : g[i] = h[i]
  PROVE  g = h
  OBVIOUS

LEMMA AscendingOnce ==
  ASSUME NEW S, S \subseteq Nat, IsFiniteSet(S),
         NEW e \in [1 .. Cardinality(S) -> S],
         NEW f \in [1 .. Cardinality(S) -> S],
         \A i, j \in 1 .. Cardinality(S) : i < j => e[i] < e[j],
         \A i, j \in 1 .. Cardinality(S) : i < j => f[i] < f[j]
  PROVE  e = f
<1> DEFINE n == Cardinality(S)
           odd == {i \in 1 .. n : e[i] # f[i]}
<1>0. n \in Nat
  BY FS_CardinalityType
<1>1. ASSUME NEW g \in [1 .. n -> S],
             \A i, j \in 1 .. n : i < j => g[i] < g[j]
      PROVE  \A x \in S : \E i \in 1 .. n : g[i] = x
  <2>1. IsInjective(g)
    <3> SUFFICES ASSUME NEW i \in 1 .. n, NEW j \in 1 .. n, g[i] = g[j]
                 PROVE  i = j
      BY DEF IsInjective
    <3>1. g[i] \in Nat /\ g[j] \in Nat
      BY <1>1
    <3>2. ~(i < j) /\ ~(j < i)
      BY <1>1, <3>1
    <3> QED BY <1>0, <3>2
  <2>2. DOMAIN g = 1 .. n /\ Range(g) = S
    BY <2>1, ListsAll
  <2> QED BY <2>2 DEF Range
<1>2. ASSUME NEW g \in [1 .. n -> S], NEW h \in [1 .. n -> S],
             \A i, j \in 1 .. n : i < j => g[i] < g[j],
             \A i, j \in 1 .. n : i < j => h[i] < h[j],
             NEW k \in 1 .. n, \A i \in 1 .. n : i < k => g[i] = h[i]
      PROVE  ~(g[k] < h[k])
  <2> SUFFICES ASSUME g[k] < h[k] PROVE FALSE
    OBVIOUS
  <2>1. PICK j \in 1 .. n : h[j] = g[k]
    BY <1>1, <1>2
  <2>2. g[k] \in Nat /\ h[k] \in Nat /\ h[j] \in Nat /\ g[j] \in Nat
    BY <1>2
  <2>3. j < k
    <3>1. ~(k < j) /\ j # k
      BY <1>2, <2>1, <2>2
    <3> QED BY <1>0, <3>1
  <2> QED BY <1>2, <2>1, <2>2, <2>3
<1>3. odd = {}
  <2> SUFFICES ASSUME odd # {} PROVE FALSE
    OBVIOUS
  <2>0. odd \subseteq Nat /\ odd \subseteq 1 .. n
    BY <1>0
  <2> HIDE DEF odd
  <2>1. PICK k \in odd : \A i \in odd : k <= i
    BY <2>0, LeastMember
  <2> USE DEF odd
  <2>2. \A i \in 1 .. n : i < k => e[i] = f[i] /\ f[i] = e[i]
    BY <1>0, <2>1
  <2>3. ~(e[k] < f[k]) /\ ~(f[k] < e[k])
    BY <1>2, <2>2
  <2>4. e[k] \in Nat /\ f[k] \in Nat /\ e[k] # f[k]
    BY <2>0
  <2> QED BY <2>3, <2>4
<1>4. \A i \in 1 .. n : e[i] = f[i]
  BY <1>3
<1> DEFINE I == 1 .. n
<1>5. /\ e \in [I -> S] /\ f \in [I -> S] /\ \A i \in I : e[i] = f[i]
  BY <1>4
<1> HIDE DEF I
<1>6. \A g, h \in [I -> S] : (\A i \in I : g[i] = h[i]) => g = h
  BY SameFunction
<1> QED BY <1>5, <1>6, Zenon

LEMMA EndsOf ==
  ASSUME NEW s \in Chars
  PROVE  LET n == Cardinality(Newlines(s))
         IN  /\ n \in Nat /\ Ends(s) \in [1 .. n -> Newlines(s)]
             /\ \A i, j \in 1 .. n : i < j => Ends(s)[i] < Ends(s)[j]
             /\ DOMAIN Ends(s) = 1 .. n
             /\ \A i \in 1 .. n : Ends(s)[i] \in 1 .. Len(s)
<1> DEFINE S == Newlines(s)
           n == Cardinality(S)
<1>1. S \subseteq Nat /\ IsFiniteSet(S) /\ n \in Nat /\ S \subseteq 1 .. Len(s)
  BY NewlinesOf
<1>2. \E e \in [1 .. n -> S] : \A i, j \in 1 .. n : i < j => e[i] < e[j]
  BY <1>1, AscendingExists
<1>3. \E e \in [1 .. n -> S] : \A i, j \in DOMAIN e : i < j => e[i] < e[j]
  BY <1>2
<1>4. /\ Ends(s) \in [1 .. n -> S]
      /\ \A i, j \in DOMAIN Ends(s) : i < j => Ends(s)[i] < Ends(s)[j]
  BY <1>3 DEF Ends
<1> QED BY <1>1, <1>4

(* A text without newlines has no complete lines. *)
LEMMA LinesOfNone ==
  ASSUME NEW s \in Chars, Newlines(s) = {}
  PROVE  LinesOf(s) = <<>> /\ RestOf(s) = s
<1>1. Cardinality(Newlines(s)) = 0
  BY FS_EmptySet
<1>2. DOMAIN Ends(s) = {}
  BY <1>1, EndsOf
<1>3. LinesOf(s) = <<>>
  BY <1>2 DEF LinesOf
<1>4. Max(Newlines(s) \cup {0}) = 0
  BY DEF Max
<1>5. Without(s, 0) = s
  BY SubSeqFull DEF Without, Chars
<1> QED BY <1>3, <1>4, <1>5 DEF RestOf

(* The part of a concatenation that lies in its second half.               *)
LEMMA PartOfSecond ==
  ASSUME NEW s \in Chars, NEW t \in Chars, NEW a \in Nat, NEW b \in Nat,
         a >= 1, b <= Len(t), a <= b + 1
  PROVE  SubSeq(s \o t, Len(s) + a, Len(s) + b) = SubSeq(t, a, b)
<1> DEFINE u == s \o t
           l == b - a + 1
           m == Len(s) + a
           n == Len(s) + b
<1>1. /\ u \in Chars /\ Len(u) = Len(s) + Len(t)
      /\ Len(s) \in Nat /\ Len(t) \in Nat
      /\ \A i \in 1 .. Len(t) : u[Len(s) + i] = t[i]
  BY Concat
<1>2. /\ m \in Int /\ n \in Int /\ a \in Int /\ b \in Int
      /\ m >= 1 /\ n <= Len(u) /\ l \in Nat /\ l = n - m + 1
      /\ \A i \in 1 .. l : /\ m + i - 1 = Len(s) + (a + i - 1)
                           /\ a + i - 1 \in 1 .. Len(t)
  BY <1>1
<1> HIDE DEF u, l, m, n
<1>3. /\ SubSeq(u, m, n) \in Chars /\ Len(SubSeq(u, m, n)) = l
      /\ \A i \in 1 .. l : SubSeq(u, m, n)[i] = u[m + i - 1]
  BY <1>1, <1>2, Part
<1>4. /\ SubSeq(t, a, b) \in Chars /\ Len(SubSeq(t, a, b)) = l
      /\ \A i \in 1 .. l : SubSeq(t, a, b)[i] = t[a + i - 1]
  <2>1. l = b - a + 1
    BY DEF l
  <2> QED BY <1>2, <2>1, Part
<1>5. ASSUME NEW i \in 1 .. l PROVE SubSeq(u, m, n)[i] = SubSeq(t, a, b)[i]
  <2>1. SubSeq(u, m, n)[i] = u[m + i - 1] /\ SubSeq(t, a, b)[i] = t[a + i - 1]
    BY <1>3, <1>4
  <2>2. m + i - 1 = Len(s) + (a + i - 1) /\ a + i - 1 \in 1 .. Len(t)
    BY <1>2
  <2> HIDE <1>2, <1>3, <1>4
  <2> QED BY <1>1, <2>1, <2>2
<1>6. SubSeq(u, m, n) = SubSeq(t, a, b)
  BY <1>3, <1>4, <1>5, SameChars
<1> QED BY <1>6 DEF u, m, n

LEMMA LineOfType ==
  ASSUME LengthOK, NEW x
  PROVE  LineOf(x) \in Nat /\ LineOf(x) \in 0 .. LastLine
<1> DEFINE I == {i \in DOMAIN length : Text(i) = x}
<1>1. I \subseteq 1 .. LastLine
  BY DEF LengthOK
<1> HIDE DEF I
<1>2. ASSUME I # {} PROVE (CHOOSE i \in I : TRUE) \in 1 .. LastLine
  <2>1. (CHOOSE i \in I : TRUE) \in I
    BY <1>2
  <2> QED BY <1>1, <2>1
<1>3. LineOf(x) = IF I = {} THEN 0 ELSE CHOOSE i \in I : TRUE
  BY DEF LineOf, I
<1>4. CASE I = {}
  BY <1>3, <1>4, Bounds
<1>5. CASE I # {}
  <2>1. LineOf(x) = CHOOSE i \in I : TRUE
    BY <1>3, <1>5
  <2> HIDE <1>3
  <2>2. LineOf(x) \in 1 .. LastLine
    BY <1>2, <1>5, <2>1
  <2> QED BY <2>2, Bounds
<1> QED BY <1>4, <1>5

LEMMA LinesOfShape ==
  ASSUME LengthOK, NEW s \in Chars
  PROVE  /\ LinesOf(s) \in Chars
         /\ Len(LinesOf(s)) = Cardinality(Newlines(s))
         /\ \A j \in 1 .. Cardinality(Newlines(s)) :
              LinesOf(s)[j] =
                LineOf(SubSeq(s, IF j = 1 THEN 1 ELSE Ends(s)[j - 1] + 1,
                              Ends(s)[j] - 1))
<1> DEFINE n == Cardinality(Newlines(s))
           line(j) == LineOf(SubSeq(s, IF j = 1 THEN 1 ELSE Ends(s)[j - 1] + 1,
                                    Ends(s)[j] - 1))
<1>1. n \in Nat /\ DOMAIN Ends(s) = 1 .. n
  BY EndsOf
<1>2. \A j : line(j) \in Nat
  BY LineOfType
<1>3. LinesOf(s) = [j \in 1 .. n |-> line(j)]
  BY <1>1 DEF LinesOf
<1> HIDE DEF n, line
<1>4. /\ LinesOf(s) \in Chars /\ Len(LinesOf(s)) = n
      /\ \A j \in 1 .. n : LinesOf(s)[j] = line(j)
  BY <1>1, <1>2, <1>3 DEF Chars
<1> QED BY <1>4 DEF n, line

(* A complete line in front is the first line. *)
LEMMA LinesOfFirst ==
  ASSUME LengthOK, NEW i \in 1 .. LastLine, NEW t \in Chars
  PROVE  LinesOf(Terminated(i) \o t) = <<i>> \o LinesOf(t)
<1> DEFINE x == Terminated(i)
           s == x \o t
           L == length[i] + 1
           m == Cardinality(Newlines(t))
           e == Ends(t)
           g == [j \in 1 .. m + 1 |-> IF j = 1 THEN L ELSE L + e[j - 1]]
<1>1. /\ x \in Chars /\ Len(x) = L /\ Newlines(x) = {L} /\ L \in Nat \ {0}
      /\ L - 1 = length[i] /\ First(x, L - 1) = Text(i) /\ length[i] \in Nat
  BY TerminatedTexts, Texts
<1>2. /\ m \in Nat /\ e \in [1 .. m -> Newlines(t)]
      /\ \A j, k \in 1 .. m : j < k => e[j] < e[k]
      /\ \A j \in 1 .. m : e[j] \in 1 .. Len(t)
      /\ Newlines(t) \subseteq Nat /\ IsFiniteSet(Newlines(t))
      /\ Newlines(t) \subseteq 1 .. Len(t)
  BY EndsOf, NewlinesOf
<1> HIDE DEF x
<1>3. /\ s \in Chars /\ Len(s) = L + Len(t) /\ Len(t) \in Nat
      /\ Newlines(s) = {L} \cup {L + k : k \in Newlines(t)}
      /\ Newlines(s) \subseteq Nat /\ IsFiniteSet(Newlines(s))
  <2>1. /\ s \in Chars /\ Len(s) = Len(x) + Len(t) /\ Len(t) \in Nat
    BY <1>1, Concat
  <2>2. Newlines(s) = Newlines(x) \cup {Len(x) + k : k \in Newlines(t)}
    BY <1>1, NewlinesConcat
  <2> HIDE DEF s
  <2>3. Newlines(s) \subseteq Nat /\ IsFiniteSet(Newlines(s))
    BY <2>1, NewlinesOf
  <2> QED BY <1>1, <2>1, <2>2, <2>3
<1> HIDE DEF s, L, m, e
<1>4. Cardinality(Newlines(s)) = m + 1
  <2> DEFINE T == {L + k : k \in Newlines(t)}
             h == [k \in Newlines(t) |-> L + k]
  <2>1. L \notin T
    BY <1>1, <1>2
  <2>2. h \in Bijection(Newlines(t), T)
    <3>1. h \in Injection(Newlines(t), T)
      BY <1>1, <1>2 DEF Injection, IsInjective
    <3>2. h \in Surjection(Newlines(t), T)
      BY DEF Surjection
    <3> QED BY <3>1, <3>2 DEF Bijection
  <2> HIDE DEF h
  <2>3. IsFiniteSet(T) /\ Cardinality(T) = m
    <3> HIDE DEF T
    <3>1. ExistsBijection(Newlines(t), T)
      BY <2>2 DEF ExistsBijection
    <3> QED BY <1>2, <3>1, FS_Bijection DEF m
  <2> HIDE DEF T
  <2>4. Cardinality(T \cup {L}) = m + 1
    BY <2>1, <2>3, FS_AddElement
  <2>5. Newlines(s) = T \cup {L}
    BY <1>3 DEF T
  <2> QED BY <2>4, <2>5
<1>5. /\ g \in [1 .. m + 1 -> Newlines(s)]
      /\ \A j, k \in 1 .. m + 1 : j < k => g[j] < g[k]
  <2>0. \A j \in 1 .. m + 1 : j # 1 => j - 1 \in 1 .. m
    BY <1>2
  <2>1. ASSUME NEW j \in 1 .. m + 1
        PROVE  (IF j = 1 THEN L ELSE L + e[j - 1]) \in Newlines(s)
    BY <1>2, <1>3, <2>0
  <2>2. g \in [1 .. m + 1 -> Newlines(s)]
    BY <2>1
  <2>3. ASSUME NEW j \in 1 .. m + 1, NEW k \in 1 .. m + 1, j < k
        PROVE  g[j] < g[k]
    <3>1. k # 1 /\ k - 1 \in 1 .. m
      BY <1>2, <2>3
    <3>2. g[k] = L + e[k - 1] /\ e[k - 1] \in Nat \ {0}
      BY <1>2, <1>3, <3>1
    <3>3. CASE j = 1
      BY <1>1, <3>2, <3>3
    <3>4. CASE j # 1
      <4>1. j - 1 \in 1 .. m /\ j - 1 < k - 1
        BY <1>2, <2>3, <3>1, <3>4
      <4>2. g[j] = L + e[j - 1] /\ e[j - 1] \in Nat /\ e[j - 1] < e[k - 1]
        BY <1>2, <1>3, <3>1, <3>4, <4>1
      <4> QED BY <1>1, <3>2, <4>2
    <3> QED BY <3>3, <3>4
  <2> QED BY <2>2, <2>3
<1>6. Ends(s) = g
  <2>1. /\ Ends(s) \in [1 .. m + 1 -> Newlines(s)]
        /\ \A j, k \in 1 .. m + 1 : j < k => Ends(s)[j] < Ends(s)[k]
    BY <1>3, <1>4, EndsOf
  <2> HIDE DEF g
  <2> DEFINE c == Cardinality(Newlines(s))
  <2>2. /\ Ends(s) \in [1 .. c -> Newlines(s)] /\ g \in [1 .. c -> Newlines(s)]
        /\ \A j, k \in 1 .. c : j < k => Ends(s)[j] < Ends(s)[k]
        /\ \A j, k \in 1 .. c : j < k => g[j] < g[k]
    BY <1>4, <1>5, <2>1
  <2> QED BY <1>3, <2>2, AscendingOnce
<1>7. /\ \A j \in 1 .. m + 1 : g[j] = IF j = 1 THEN L ELSE L + e[j - 1]
      /\ g[1] = L
  BY <1>2
<1> HIDE DEF g
<1> DEFINE ls == LinesOf(s)
           lt == LinesOf(t)
<1>8. /\ ls \in Chars /\ Len(ls) = m + 1
      /\ \A j \in 1 .. m + 1 :
           ls[j] = LineOf(SubSeq(s, IF j = 1 THEN 1 ELSE g[j - 1] + 1, g[j] - 1))
  BY <1>3, <1>4, <1>6, LinesOfShape
<1>9. /\ lt \in Chars /\ Len(lt) = m
      /\ \A j \in 1 .. m :
           lt[j] = LineOf(SubSeq(t, IF j = 1 THEN 1 ELSE e[j - 1] + 1, e[j] - 1))
  BY LinesOfShape DEF m, e
<1> HIDE DEF ls, lt
<1>10. ls[1] = i
  <2>1. 1 \in 1 .. m + 1
    BY <1>2
  <2>2. ls[1] = LineOf(SubSeq(s, 1, L - 1))
    BY <1>7, <1>8, <2>1
  <2>3. L - 1 \in 0 .. Len(x)
    BY <1>1
  <2>4. First(s, L - 1) = Text(i)
    BY <1>1, <2>3, CutConcat DEF s
  <2> QED BY <2>2, <2>4, LineOfText DEF First
<1>11. ASSUME NEW j \in 1 .. m PROVE ls[1 + j] = lt[j]
  <2>1. /\ 1 + j \in 1 .. m + 1 /\ 1 + j # 1 /\ (1 + j) - 1 = j
        /\ j \in 1 .. m + 1 /\ (j # 1 => j - 1 \in 1 .. m)
    BY <1>2
  <2> DEFINE a == IF j = 1 THEN 1 ELSE e[j - 1] + 1
             b == e[j] - 1
  <2>2. /\ a \in Nat /\ b \in Nat /\ a >= 1 /\ b <= Len(t) /\ a <= b + 1
        /\ g[j] + 1 = L + a /\ g[1 + j] - 1 = L + b
    <3>1. /\ e[j] \in 1 .. Len(t) /\ g[1 + j] = L + e[j]
          /\ Len(t) \in Nat /\ L \in Nat /\ j \in Nat
      <4>1. g[1 + j] = L + e[(1 + j) - 1]
        BY <1>7, <2>1
      <4>2. e[(1 + j) - 1] = e[j]
        BY <2>1
      <4>3. e[j] \in 1 .. Len(t)
        BY <1>2
      <4>4. Len(t) \in Nat /\ L \in Nat /\ j \in Nat
        BY <1>1, <1>2, <1>3
      <4> QED BY <4>1, <4>2, <4>3, <4>4
    <3>2. CASE j = 1
      <4>1. a = 1 /\ b = e[j] - 1 /\ g[j] = L
        BY <1>7, <3>2
      <4> HIDE DEF a, b
      <4> QED BY <3>1, <4>1, SMTT(20)
    <3>3. CASE j # 1
      <4>1. /\ e[j - 1] \in 1 .. Len(t) /\ e[j - 1] < e[j]
            /\ g[j] = L + e[j - 1]
        <5>1. j - 1 \in 1 .. m /\ j - 1 < j
          BY <1>2, <2>1, <3>3
        <5> QED BY <1>2, <1>7, <2>1, <3>3, <5>1
      <4>2. a = e[j - 1] + 1 /\ b = e[j] - 1
        BY <3>3
      <4> DEFINE p == e[j - 1]
                 q == e[j]
      <4>3. /\ p \in 1 .. Len(t) /\ q \in 1 .. Len(t) /\ p < q
            /\ a = p + 1 /\ b = q - 1 /\ g[j] = L + p /\ g[1 + j] = L + q
            /\ Len(t) \in Nat /\ L \in Nat
        BY <3>1, <4>1, <4>2
      <4> HIDE DEF a, b, p, q
      <4> QED BY <4>3
    <3> QED BY <3>2, <3>3
  <2>3. ls[1 + j] = LineOf(SubSeq(s, g[j] + 1, g[1 + j] - 1))
    BY <1>8, <2>1
  <2>4. lt[j] = LineOf(SubSeq(t, a, b))
    BY <1>9
  <2> HIDE DEF a, b
  <2>5. SubSeq(s, L + a, L + b) = SubSeq(t, a, b)
    BY <1>1, <2>2, PartOfSecond, SMTT(20) DEF s
  <2> QED BY <2>2, <2>3, <2>4, <2>5
<1>12. /\ <<i>> \in Chars /\ Len(<<i>>) = 1 /\ <<i>>[1] = i
  BY Bounds DEF Chars
<1>13. /\ <<i>> \o lt \in Chars /\ Len(<<i>> \o lt) = 1 + m
       /\ (<<i>> \o lt)[1] = i
       /\ \A j \in 1 .. m : (<<i>> \o lt)[1 + j] = lt[j]
  <2> DEFINE y == <<i>>
  <2>1. y \in Chars /\ Len(y) = 1 /\ y[1] = i
    BY <1>12
  <2> HIDE DEF y
  <2>2. /\ y \o lt \in Chars /\ Len(y \o lt) = Len(y) + Len(lt)
        /\ \A j \in 1 .. Len(y) : (y \o lt)[j] = y[j]
        /\ \A j \in 1 .. Len(lt) : (y \o lt)[Len(y) + j] = lt[j]
    <3>1. y \in Chars /\ lt \in Chars
      BY <1>9, <2>1
    <3> QED BY <3>1, Concat
  <2>3. /\ y \o lt \in Chars /\ Len(y \o lt) = 1 + m
        /\ (y \o lt)[1] = i
        /\ \A j \in 1 .. m : (y \o lt)[1 + j] = lt[j]
    BY <1>9, <2>1, <2>2
  <2> QED BY <2>3 DEF y
<1> DEFINE r == <<i>> \o lt
<1>14. ASSUME NEW j \in 1 .. m + 1 PROVE ls[j] = r[j]
  <2> HIDE DEF r
  <2>0. r[1] = i /\ \A k \in 1 .. m : r[1 + k] = lt[k]
    BY <1>13 DEF r
  <2>1. CASE j = 1
    BY <1>10, <2>0, <2>1
  <2>2. CASE j # 1
    <3>1. j - 1 \in 1 .. m /\ 1 + (j - 1) = j
      BY <1>2, <2>2
    <3> QED BY <1>11, <2>0, <3>1
  <2> QED BY <2>1, <2>2
<1>15. r \in Chars /\ Len(r) = m + 1
  BY <1>2, <1>13
<1> HIDE DEF r
<1>16. ls = r
  BY <1>8, <1>14, <1>15, SameChars
<1> QED BY <1>16 DEF ls, lt, r, s, x

(* A complete line has no rest. *)
LEMMA RestOfLine ==
  ASSUME LengthOK, NEW i \in 1 .. LastLine
  PROVE  LinesOf(Terminated(i)) = <<i>> /\ RestOf(Terminated(i)) = <<>>
<1> DEFINE x == Terminated(i)
           L == length[i] + 1
<1>1. /\ x \in Chars /\ Len(x) = L /\ Newlines(x) = {L} /\ L \in Nat \ {0}
  BY TerminatedTexts, Texts
<1>2. LinesOf(x) = <<i>>
  <2>1. x = x \o <<>> /\ <<>> \in Chars
    BY <1>1, Concat, Empty
  <2>2. LinesOf(x \o <<>>) = <<i>> \o LinesOf(<<>>)
    BY <2>1, LinesOfFirst
  <2>3. LinesOf(<<>>) = <<>>
    BY <2>1, NoNewline, LinesOfNone
  <2>4. <<i>> \in Chars
    BY Bounds DEF Chars
  <2>5. <<i>> \o <<>> = <<i>>
    BY <2>4, ConcatEmptySeq DEF Chars
  <2> HIDE DEF x
  <2> QED BY <2>1, <2>2, <2>3, <2>5
<1> HIDE DEF x, L
<1>3. Max(Newlines(x) \cup {0}) = L
  <2>1. \A y \in {L} \cup {0} : (\A z \in {L} \cup {0} : y >= z) <=> y = L
    BY <1>1
  <2> QED BY <1>1, <2>1 DEF Max
<1>4. Without(x, L) = <<>>
  <2>1. Without(x, L) \in Chars /\ Len(Without(x, L)) = 0
    <3>1. L \in 0 .. Len(x) /\ Len(x) - L = 0
      BY <1>1
    <3> QED BY <1>1, <3>1, Cut
  <2> QED BY <2>1, Empty
<1> QED BY <1>2, <1>3, <1>4 DEF RestOf, x

(* What a reader of lines takes off the front of a buffer, when more may   *)
(* be on its way.                                                          *)
Holds(s, r, i, t) ==
  /\ i \in 1 .. LastLine /\ s \in Chars /\ r \in Chars /\ t \in Chars
  /\ s \o r = Terminated(i) \o t /\ Newlines(s) # {}

Yields(s, r, i, t) ==
  /\ First(s, Min(Newlines(s)) - 1) = Text(i)
  /\ Without(s, Min(Newlines(s))) \in Chars
  /\ Without(s, Min(Newlines(s))) \o r = t

LEMMA FirstLine ==
  ASSUME LengthOK, NEW i, NEW s, NEW r, NEW t, Holds(s, r, i, t)
  PROVE  Yields(s, r, i, t)
<1>0. /\ i \in 1 .. LastLine /\ s \in Chars /\ r \in Chars /\ t \in Chars
      /\ s \o r = Terminated(i) \o t /\ Newlines(s) # {}
  BY DEF Holds
<1> DEFINE x == Terminated(i)
           n == length[i]
           L == n + 1
<1>1. /\ x \in Chars /\ Len(x) = L /\ Newlines(x) = {L} /\ n \in Nat
      /\ First(x, n) = Text(i)
  BY <1>0, TerminatedTexts, Texts
<1> HIDE DEF x, n
<1>2. /\ Newlines(s \o r) = Newlines(s) \cup {Len(s) + k : k \in Newlines(r)}
      /\ Newlines(x \o t) = {L} \cup {L + k : k \in Newlines(t)}
      /\ s \o r = x \o t
  <2>1. Newlines(s \o r) = Newlines(s) \cup {Len(s) + k : k \in Newlines(r)}
    BY <1>0, NewlinesConcat
  <2>2. Newlines(x \o t) = Newlines(x) \cup {Len(x) + k : k \in Newlines(t)}
    BY <1>0, <1>1, NewlinesConcat
  <2>3. s \o r = x \o t
    BY <1>0 DEF x
  <2> QED BY <1>1, <2>1, <2>2, <2>3
<1>3. /\ Newlines(s) \subseteq 1 .. Len(s) /\ Len(s) \in Nat
      /\ Newlines(r) \subseteq 1 .. Len(r) /\ Len(r) \in Nat
      /\ Newlines(t) \subseteq 1 .. Len(t) /\ Len(t) \in Nat
  BY <1>0, NewlinesOf, Concat
<1>4. \A k \in Newlines(s) : k \in Nat /\ k >= L
  <2> SUFFICES ASSUME NEW k \in Newlines(s) PROVE k \in Nat /\ k >= L
    OBVIOUS
  <2>1. k \in {L} \cup {L + j : j \in Newlines(t)}
    BY <1>2
  <2> QED BY <1>1, <1>3, <2>1
<1>5. L \in Newlines(s) /\ L <= Len(s)
  <2>1. L \in Newlines(s) \cup {Len(s) + k : k \in Newlines(r)}
    BY <1>2
  <2>2. ASSUME NEW k \in Newlines(r), L = Len(s) + k PROVE FALSE
    <3>1. PICK j : j \in Newlines(s)
      BY <1>0
    <3>2. j <= Len(s) /\ j >= L /\ k >= 1 /\ j \in Nat /\ k \in Nat
      BY <1>3, <1>4, <3>1
    <3> QED BY <1>1, <1>3, <2>2, <3>2
  <2>3. L \in Newlines(s)
    BY <2>1, <2>2
  <2> QED BY <1>3, <2>3
<1>6. Min(Newlines(s)) = L
  <2>1. \A y \in Newlines(s) : (\A z \in Newlines(s) : y <= z) <=> y = L
    BY <1>1, <1>4, <1>5
  <2>2. \E y \in Newlines(s) : \A z \in Newlines(s) : y <= z
    BY <1>5, <2>1
  <2>3. Min(Newlines(s)) = CHOOSE y \in Newlines(s) : \A z \in Newlines(s) : y <= z
    BY DEF Min
  <2>4. /\ Min(Newlines(s)) \in Newlines(s)
        /\ \A z \in Newlines(s) : Min(Newlines(s)) <= z
    BY <2>2, <2>3
  <2> QED BY <2>1, <2>4
<1>7. /\ n \in 0 .. Len(s) /\ n \in 0 .. Len(x) /\ L \in 0 .. Len(s)
      /\ L \in 0 .. Len(x) /\ L - 1 = n
  BY <1>1, <1>5
<1>8. First(s, n) = Text(i)
  <2>1. First(s \o r, n) = First(s, n)
    BY <1>0, <1>7, CutConcat
  <2>2. First(x \o t, n) = First(x, n)
    BY <1>0, <1>1, <1>7, CutConcat
  <2> QED BY <1>1, <1>2, <2>1, <2>2
<1>9. Without(s, L) \in Chars /\ Without(s, L) \o r = t
  <2>1. Without(s \o r, L) = Without(s, L) \o r
    BY <1>0, <1>7, CutConcat
  <2>2. Without(x \o t, L) = Without(x, L) \o t
    BY <1>0, <1>1, <1>7, CutConcat
  <2>3. Without(s, L) \in Chars
    BY <1>0, <1>7, Cut
  <2>4. Without(x, L) = <<>>
    <3>1. Without(x, L) \in Chars /\ Len(Without(x, L)) = Len(x) - L
      BY <1>1, <1>7, Cut
    <3>2. Len(Without(x, L)) = 0
      BY <1>1, <3>1
    <3> QED BY <3>1, <3>2, Empty
  <2>5. <<>> \o t = t
    BY <1>0, Concat, Empty
  <2> QED BY <1>2, <2>1, <2>2, <2>3, <2>4, <2>5
<1> QED BY <1>6, <1>7, <1>8, <1>9 DEF n, Yields

(* A piece of what is to be written moves into the pipe. *)
LEMMA PieceMoves ==
  ASSUME NEW p \in Chars, NEW out \in Chars, NEW n \in 1 .. Len(out)
  PROVE  /\ First(out, n) \in Chars /\ Without(out, n) \in Chars
         /\ p \o First(out, n) \in Chars
         /\ (p \o First(out, n)) \o Without(out, n) = p \o out
<1>1. /\ First(out, n) \in Chars /\ Without(out, n) \in Chars
      /\ First(out, n) \o Without(out, n) = out
  <2>1. n \in 0 .. Len(out)
    BY Concat
  <2> QED BY <2>1, Cut
<1>2. /\ p \o First(out, n) \in Chars
      /\ (p \o First(out, n)) \o Without(out, n)
           = p \o (First(out, n) \o Without(out, n))
  <2> DEFINE f == First(out, n)
             w == Without(out, n)
  <2>1. f \in Chars /\ w \in Chars
    BY <1>1
  <2> HIDE DEF f, w
  <2>2. p \o f \in Chars
    BY <2>1, Concat
  <2>3. (p \o f) \o w = p \o (f \o w)
    BY <2>1, ConcatThree
  <2> QED BY <2>2, <2>3 DEF f, w
<1> QED BY <1>1, <1>2

-----------------------------------------------------------------------------
(* The order of the lines.                                                 *)

LEMMA Turns ==
  /\ \A i \in 1 .. LastLine : FromWorker(i) \/ ToWorker(i)
  /\ \A i : FromWorker(i) => /\ i \in Nat /\ i >= 2 /\ i + 1 \in 1 .. LastLine
                             /\ i \in 1 .. LastLine /\ ~ToWorker(i)
  /\ \A i : ToWorker(i) => /\ i \in 1 .. LastLine /\ ~FromWorker(i)
                           /\ ~ToWorker(i + 1)
  /\ \A i : FromWorker(i) /\ FromWorker(i + 1) => ~FromWorker(i + 2)
  /\ ToWorker(1) /\ 1 \in 1 .. LastLine /\ ToWorker(LastLine)
<1>1. LastLine \in Nat /\ LastLine >= 3 /\ LastLine % 3 = 0
  <2>1. (3 * Jobs + 3) % 3 = 0
    BY Bounds
  <2> QED BY Bounds, <2>1
<1>2. \A i : FromWorker(i) <=> i \in 1 .. LastLine /\ i # 1 /\ i % 3 # 0
  BY DEF FromWorker, Channel!FromWorker, Channel!LineNo, LastLine
<1>3. \A i : ToWorker(i) <=> i \in 1 .. LastLine /\ ~FromWorker(i)
  BY DEF FromWorker, ToWorker, Channel!ToWorker, Channel!LineNo, LastLine
<1>4. ASSUME NEW i, FromWorker(i)
      PROVE  i \in Nat /\ i >= 2 /\ i + 1 \in 1 .. LastLine
  <2>1. i # LastLine
    BY <1>1, <1>2, <1>4
  <2> QED BY <1>1, <1>2, <1>4, <2>1
<1>5. ASSUME NEW i, ToWorker(i) PROVE ~ToWorker(i + 1)
  <2>1. i \in Nat /\ (i = 1 \/ i % 3 = 0) /\ i >= 1
    BY <1>1, <1>2, <1>3, <1>5
  <2>2. (i + 1) % 3 # 0 /\ i + 1 # 1
    BY <2>1
  <2> QED BY <1>2, <1>3, <2>2
<1>6. ASSUME NEW i, FromWorker(i), FromWorker(i + 1)
      PROVE  ~FromWorker(i + 2)
  <2>1. i \in Nat /\ i % 3 # 0 /\ (i + 1) % 3 # 0
    BY <1>2, <1>4, <1>6
  <2>2. (i + 2) % 3 = 0
    BY <2>1
  <2> QED BY <1>2, <2>2
<1>7. 1 \in 1 .. LastLine /\ LastLine \in 1 .. LastLine
  BY <1>1
<1>8. ToWorker(1) /\ ToWorker(LastLine)
  BY <1>1, <1>2, <1>3, <1>7
<1> QED BY <1>2, <1>3, <1>4, <1>5, <1>6, <1>7, <1>8

-----------------------------------------------------------------------------
(* The inductive invariant.                                                *)

TypeInv ==
  /\ LengthOK
  /\ down \in Chars /\ up \in Chars /\ stdio \in Chars /\ buf \in Chars
  /\ workerOut \in Chars /\ collectorOut \in Chars
  /\ workerNext \in 1 .. LastLine + 1 /\ collectorNext \in 1 .. LastLine + 1
  /\ workerUp \in BOOLEAN /\ eof \in BOOLEAN
  /\ at \in {"write", "poll", "fill", "pop", "gone"}
  /\ scanned \in Nat

(* One side is ahead of the other by lines that are on their way.          *)
OrderInv ==
  CollectorUp =>
    /\ \A i \in collectorNext .. workerNext - 1 : FromWorker(i)
    /\ workerNext < collectorNext =>
         collectorNext = workerNext + 1 /\ ToWorker(workerNext)

(* What the worker has written of the line it is at is p. *)
Begun(p) ==
  /\ p \in Chars
  /\ IF workerOut = <<>> THEN p = <<>>
     ELSE p \o workerOut = Terminated(workerNext)

(* Characters s are the lines by which the worker is ahead, and then p. *)
Ahead(s, p) ==
  \/ workerNext <= collectorNext /\ s = p
  \/ workerNext = collectorNext + 1 /\ s = Terminated(collectorNext) \o p
  \/ /\ workerNext = collectorNext + 2
     /\ s = Terminated(collectorNext) \o (Terminated(collectorNext + 1) \o p)

UpInv ==
  /\ workerOut # <<>> => FromWorker(workerNext)
  /\ CollectorUp => \E p : Begun(p) /\ Ahead(buf \o up, p)

(* The line is on its way, or being written, or there is nothing. *)
LineDown ==
  /\ collectorNext = workerNext + 1 /\ ToWorker(workerNext)
  /\ stdio \o down = Terminated(workerNext)

PartDown ==
  /\ collectorNext = workerNext /\ ToWorker(collectorNext)
  /\ collectorOut # <<>>
  /\ (stdio \o down) \o collectorOut = Terminated(collectorNext)

NothingDown == workerNext >= collectorNext /\ stdio \o down = <<>>

DownInv == workerUp => LineDown \/ PartDown \/ NothingDown

AtInv ==
  /\ CollectorUp /\ workerUp => (at = "write" <=> collectorOut # <<>>)
  /\ at = "write" => /\ ToWorker(collectorNext) /\ collectorOut # <<>>
                     /\ workerUp => PartDown
  /\ eof => ~workerUp /\ (CollectorUp => up = <<>> /\ at = "pop")

PipeInv ==
  TypeInv /\ OrderInv /\ UpInv /\ DownInv /\ AtInv /\ NothingSkipped

LEMMA Frozen ==
  ASSUME length' = length
  PROVE  /\ \A i : Terminated(i)' = Terminated(i)
         /\ \A i : Text(i)' = Text(i)
         /\ \A x : LineOf(x)' = LineOf(x)
         /\ \A x : LinesOf(x)' = LinesOf(x)
         /\ LengthOK' = LengthOK
  BY DEF Terminated, Text, LineOf, LinesOf, LengthOK

(* A part of the invariant stays when what it is about does.               *)
LEMMA OrderStays ==
  ASSUME OrderInv, CollectorUp' => CollectorUp,
         workerNext' = workerNext, collectorNext' = collectorNext
  PROVE  OrderInv'
  BY DEF OrderInv

LEMMA UpStays ==
  ASSUME UpInv, CollectorUp' => CollectorUp, length' = length,
         workerNext' = workerNext, collectorNext' = collectorNext,
         workerOut' = workerOut, (buf \o up)' = buf \o up
  PROVE  UpInv'
<1> DEFINE u == buf \o up
<1>1. u' = u
  OBVIOUS
<1> HIDE DEF u
<1>2. \A p : Begun(p)' = Begun(p)
  BY Frozen DEF Begun
<1>3. \A p : Ahead(u, p)' = Ahead(u, p)
  <2>1. /\ Terminated(collectorNext)' = Terminated(collectorNext)
        /\ Terminated(collectorNext + 1)' = Terminated(collectorNext + 1)
    BY DEF Terminated, Text
  <2> QED BY <1>1, <2>1 DEF Ahead
<1>4. CollectorUp => \E p : Begun(p) /\ Ahead(u, p)
  BY DEF UpInv, u
<1>5. CollectorUp' => \E p : Begun(p)' /\ Ahead(u, p)'
  BY <1>2, <1>3, <1>4
<1> QED BY <1>5 DEF UpInv, u

LEMMA DownStays ==
  ASSUME DownInv, workerUp' => workerUp, length' = length,
         workerNext' = workerNext, collectorNext' = collectorNext,
         collectorOut' = collectorOut, (stdio \o down)' = stdio \o down
  PROVE  /\ DownInv' /\ LineDown' = LineDown /\ PartDown' = PartDown
         /\ NothingDown' = NothingDown
<1> DEFINE d == stdio \o down
<1>1. d' = d
  OBVIOUS
<1> HIDE DEF d
<1>2. /\ LineDown' = LineDown /\ PartDown' = PartDown
      /\ NothingDown' = NothingDown
  <2>1. LineDown = (/\ collectorNext = workerNext + 1 /\ ToWorker(workerNext)
                    /\ d = Terminated(workerNext))
    BY DEF LineDown, d
  <2>2. PartDown = (/\ collectorNext = workerNext /\ ToWorker(collectorNext)
                    /\ collectorOut # <<>>
                    /\ d \o collectorOut = Terminated(collectorNext))
    BY DEF PartDown, d
  <2>3. NothingDown = (workerNext >= collectorNext /\ d = <<>>)
    BY DEF NothingDown, d
  <2>4. LineDown' = (/\ collectorNext' = workerNext' + 1 /\ ToWorker(workerNext')
                     /\ d' = Terminated(workerNext)')
    BY DEF LineDown, d
  <2>5. PartDown' = (/\ collectorNext' = workerNext' /\ ToWorker(collectorNext')
                     /\ collectorOut' # <<>>
                     /\ d' \o collectorOut' = Terminated(collectorNext)')
    BY DEF PartDown, d
  <2>6. NothingDown' = (workerNext' >= collectorNext' /\ d' = <<>>)
    BY DEF NothingDown, d
  <2> QED BY <1>1, <2>1, <2>2, <2>3, <2>4, <2>5, <2>6, Frozen
<1> QED BY <1>2 DEF DownInv

LEMMA InitialPipe ==
  Init => PipeInv
<1> SUFFICES ASSUME Init PROVE PipeInv
  OBVIOUS
<1>1. /\ LengthOK /\ <<>> \in Chars /\ <<>> \o <<>> = <<>>
      /\ ToWorker(1) /\ 1 \in 1 .. LastLine /\ LastLine \in Nat
      /\ Len(<<>>) = 0
  BY Turns, Bounds, Empty, Concat DEF Init, LengthOK
<1>2. Terminated(1) \in Chars /\ Terminated(1) # <<>>
  BY <1>1, TerminatedTexts
<1>3. <<>> \o Terminated(1) = Terminated(1)
  BY <1>2, Concat
<1>4. TypeInv
  <2>1. 1 \in 1 .. LastLine + 1 /\ 0 \in Nat
    BY <1>1
  <2> QED BY <1>1, <1>2, <2>1 DEF Init, TypeInv
<1>5. OrderInv
  BY DEF Init, OrderInv
<1>6. UpInv
  <2>1. Begun(<<>>)
    BY <1>1 DEF Init, Begun
  <2>2. buf \o up = <<>>
    BY <1>1 DEF Init
  <2>3. Ahead(buf \o up, <<>>)
    BY <2>2 DEF Init, Ahead
  <2> QED BY <2>1, <2>3 DEF Init, UpInv
<1>7. PartDown
  BY <1>1, <1>2, <1>3 DEF Init, PartDown
<1>8. DownInv /\ AtInv
  BY <1>1, <1>2, <1>7 DEF Init, DownInv, AtInv
<1>9. NothingSkipped
  BY <1>1, NoNewline DEF Init, NothingSkipped
<1> QED BY <1>4, <1>5, <1>6, <1>8, <1>9 DEF PipeInv

-----------------------------------------------------------------------------
(* What the invariant says of the pipes.                                   *)

LEMMA Counters ==
  ASSUME TypeInv
  PROVE  /\ workerNext \in Nat /\ collectorNext \in Nat /\ LastLine \in Nat
         /\ workerNext >= 1 /\ collectorNext >= 1
         /\ workerNext <= LastLine + 1 /\ collectorNext <= LastLine + 1
         /\ buf \o up \in Chars /\ stdio \o down \in Chars
  BY Bounds, Concat DEF TypeInv

LEMMA AheadCases ==
  ASSUME TypeInv, NEW s, NEW p
  PROVE  /\ Ahead(s, p) => workerNext \in {collectorNext + 1, collectorNext + 2}
                           \/ workerNext <= collectorNext
         /\ workerNext <= collectorNext => (Ahead(s, p) <=> s = p)
         /\ workerNext = collectorNext + 1 =>
              (Ahead(s, p) <=> s = Terminated(collectorNext) \o p)
         /\ workerNext = collectorNext + 2 =>
              (Ahead(s, p) <=> s = Terminated(collectorNext)
                                    \o (Terminated(collectorNext + 1) \o p))
<1> DEFINE x == Terminated(collectorNext) \o p
           y == Terminated(collectorNext) \o (Terminated(collectorNext + 1) \o p)
<1>1. Ahead(s, p) <=> \/ workerNext <= collectorNext /\ s = p
                      \/ workerNext = collectorNext + 1 /\ s = x
                      \/ workerNext = collectorNext + 2 /\ s = y
  BY DEF Ahead
<1> HIDE DEF x, y
<1>2. workerNext \in Nat /\ collectorNext \in Nat
  BY Counters
<1>3. /\ Ahead(s, p) => workerNext \in {collectorNext + 1, collectorNext + 2}
                        \/ workerNext <= collectorNext
      /\ workerNext <= collectorNext => (Ahead(s, p) <=> s = p)
      /\ workerNext = collectorNext + 1 => (Ahead(s, p) <=> s = x)
      /\ workerNext = collectorNext + 2 => (Ahead(s, p) <=> s = y)
  BY <1>1, <1>2
<1> QED BY <1>3 DEF x, y

LEMMA BegunPart ==
  ASSUME TypeInv, UpInv, NEW p, Begun(p)
  PROVE  /\ p \in Chars /\ Newlines(p) = {} /\ LinesOf(p) = <<>>
         /\ ToWorker(workerNext) => p = <<>> /\ workerOut = <<>>
<1>1. p \in Chars
  BY DEF Begun
<1>2. Newlines(p) = {}
  <2>1. CASE workerOut = <<>>
    BY <2>1, NoNewline DEF Begun
  <2>2. CASE workerOut # <<>>
    <3>1. /\ p \o workerOut = Terminated(workerNext)
          /\ workerNext \in 1 .. LastLine
      BY <2>2, Turns DEF Begun, UpInv
    <3> QED BY <1>1, <2>2, <3>1, Written DEF TypeInv
  <2> QED BY <2>1, <2>2
<1>3. LinesOf(p) = <<>>
  BY <1>1, <1>2, LinesOfNone
<1>4. ToWorker(workerNext) => p = <<>> /\ workerOut = <<>>
  BY Turns DEF Begun, UpInv
<1> QED BY <1>1, <1>2, <1>3, <1>4

LEMMA PartIsNoLine ==
  ASSUME TypeInv, PartDown
  PROVE  LET d == stdio \o down
         IN  /\ Newlines(d) = {} /\ LinesOf(d) = <<>> /\ RestOf(d) = d
             /\ LineOf(d) \in {0, collectorNext}
<1> DEFINE d == stdio \o down
<1>1. d \in Chars /\ collectorOut \in Chars /\ LengthOK
  BY Counters DEF TypeInv
<1>2. /\ collectorNext \in 1 .. LastLine /\ collectorOut # <<>>
      /\ d \o collectorOut = Terminated(collectorNext)
  BY Turns DEF PartDown
<1> HIDE DEF d
<1>3. /\ Newlines(d) = {}
      /\ LineOf(d) = IF d = Text(collectorNext) THEN collectorNext ELSE 0
  BY <1>1, <1>2, Written
<1>4. LinesOf(d) = <<>> /\ RestOf(d) = d
  BY <1>1, <1>3, LinesOfNone
<1>5. LineOf(d) \in {0, collectorNext}
  BY <1>3
<1> QED BY <1>3, <1>4, <1>5 DEF d

(* A newline in what was read is one in what is on its way.                *)
LEMMA NewlineRead ==
  ASSUME NEW s \in Chars, NEW r \in Chars
  PROVE  Newlines(s) \subseteq Newlines(s \o r)
  BY NewlinesConcat

(* The worker reads only from a complete line.                             *)
LEMMA WorkerFindsLine ==
  ASSUME PipeInv, workerUp, Newlines(stdio) # {}
  PROVE  LineDown
<1>1. TypeInv /\ DownInv /\ stdio \in Chars /\ down \in Chars
  BY DEF PipeInv, TypeInv
<1>2. Newlines(stdio \o down) # {}
  BY <1>1, NewlineRead
<1>3. ~PartDown
  BY <1>1, <1>2, PartIsNoLine
<1>4. ~NothingDown
  BY <1>2, NoNewline DEF NothingDown
<1> QED BY <1>1, <1>3, <1>4 DEF DownInv

(* A line that the collector finds is one by which the worker is ahead.    *)
LEMMA CollectorFindsLine ==
  ASSUME PipeInv, CollectorUp, Newlines(buf \o up) # {}
  PROVE  /\ workerNext > collectorNext /\ FromWorker(collectorNext)
         /\ \E p, t : /\ Begun(p) /\ t \in Chars
                      /\ buf \o up = Terminated(collectorNext) \o t
                      /\ \/ workerNext = collectorNext + 1 /\ t = p
                         \/ /\ workerNext = collectorNext + 2
                            /\ t = Terminated(collectorNext + 1) \o p
<1>1. TypeInv /\ UpInv /\ OrderInv
  BY DEF PipeInv
<1>2. PICK p : Begun(p) /\ Ahead(buf \o up, p)
  BY <1>1 DEF UpInv
<1>3. p \in Chars /\ Newlines(p) = {}
  BY <1>1, <1>2, BegunPart
<1>4. workerNext > collectorNext
  <2>1. ~(workerNext <= collectorNext)
    BY <1>1, <1>2, <1>3, AheadCases
  <2> QED BY <1>1, <2>1, Counters
<1>5. FromWorker(collectorNext)
  <2>1. collectorNext \in collectorNext .. workerNext - 1
    BY <1>1, <1>4, Counters
  <2> QED BY <1>1, <2>1 DEF OrderInv
<1>6. CASE workerNext = collectorNext + 1
  <2>1. buf \o up = Terminated(collectorNext) \o p
    BY <1>1, <1>2, <1>6, AheadCases
  <2> QED BY <1>2, <1>3, <1>4, <1>5, <1>6, <2>1
<1>7. CASE workerNext = collectorNext + 2
  <2> DEFINE t == Terminated(collectorNext + 1) \o p
  <2>1. buf \o up = Terminated(collectorNext) \o t
    BY <1>1, <1>2, <1>7, AheadCases
  <2>2. collectorNext + 1 \in 1 .. LastLine
    BY <1>1, <1>7, Counters
  <2>3. Terminated(collectorNext + 1) \in Chars
    BY <1>1, <2>2, TerminatedTexts DEF TypeInv
  <2>4. t \in Chars
    BY <1>3, <2>3, Concat
  <2> QED BY <1>2, <1>4, <1>5, <1>7, <2>1, <2>4
<1>8. workerNext = collectorNext + 1 \/ workerNext = collectorNext + 2
  BY <1>1, <1>2, <1>4, AheadCases, Counters
<1> QED BY <1>6, <1>7, <1>8

LEMMA Appended ==
  ASSUME NEW s \in Chars, NEW n \in Nat
  PROVE  /\ Append(s, n) \in Chars /\ Len(Append(s, n)) = Len(s) + 1
         /\ \A k \in 1 .. Len(s) : Append(s, n)[k] = s[k]
         /\ Append(s, n)[Len(s) + 1] = n
  BY AppendProperties DEF Chars

(* The worker writes one line ahead at most.                               *)
LEMMA WorkerIsNear ==
  ASSUME PipeInv, CollectorUp, FromWorker(workerNext)
  PROVE  workerNext = collectorNext \/ workerNext = collectorNext + 1
<1> DEFINE w == workerNext
           c == collectorNext
<1>1. TypeInv /\ OrderInv /\ UpInv
  BY DEF PipeInv
<1>2. w \in Nat /\ c \in Nat /\ ~ToWorker(w)
  BY <1>1, Turns, Counters
<1>3. ~(w < c)
  BY <1>1, <1>2 DEF OrderInv
<1>4. w <= c \/ w = c + 1 \/ w = c + 2
  <2>1. PICK p : Ahead(buf \o up, p)
    BY <1>1 DEF UpInv
  <2> QED BY <1>1, <2>1, AheadCases
<1>5. w # c + 2
  <2>1. SUFFICES ASSUME w = c + 2 PROVE FALSE
    OBVIOUS
  <2>2. c \in c .. w - 1 /\ c + 1 \in c .. w - 1
    BY <1>2, <2>1
  <2>3. FromWorker(c) /\ FromWorker(c + 1)
    BY <1>1, <2>2 DEF OrderInv
  <2> QED BY <2>1, <2>3, Turns
<1> QED BY <1>2, <1>3, <1>4, <1>5

LEMMA TwoLines ==
  ASSUME NEW i \in Nat, NEW j \in Nat
  PROVE  <<i>> \o <<j>> = <<i, j>> /\ Append(<<i>>, j) = <<i, j>>
<1> DEFINE x == <<i>>
           y == <<j>>
           z == <<i, j>>
<1>1. /\ x \in Chars /\ Len(x) = 1 /\ x[1] = i
      /\ y \in Chars /\ Len(y) = 1 /\ y[1] = j
      /\ z \in Chars /\ Len(z) = 2 /\ z[1] = i /\ z[2] = j
  BY DEF Chars
<1> HIDE DEF x, y, z
<1>2. Append(x, j) = z
  <2> DEFINE a == Append(x, j)
  <2>1. /\ a \in Chars /\ Len(a) = 2 /\ a[1] = x[1] /\ a[2] = j
    <3>1. /\ a \in Chars /\ Len(a) = Len(x) + 1
          /\ \A k \in 1 .. Len(x) : a[k] = x[k]
          /\ a[Len(x) + 1] = j
      BY <1>1, Appended
    <3>2. 1 \in 1 .. 1 /\ 1 + 1 = 2
      OBVIOUS
    <3> QED BY <1>1, <3>1, <3>2
  <2> HIDE DEF a
  <2>2. \A k \in 1 .. Len(a) : a[k] = z[k]
    BY <1>1, <2>1
  <2>3. a = z
    BY <1>1, <2>1, <2>2, SameChars
  <2> QED BY <2>3 DEF a
<1>3. /\ x \o y \in Chars /\ Len(x \o y) = Len(x) + Len(y)
      /\ \A k \in 1 .. Len(x) : (x \o y)[k] = x[k]
      /\ \A k \in 1 .. Len(y) : (x \o y)[Len(x) + k] = y[k]
  BY <1>1, Concat
<1>4. Len(x \o y) = 2 /\ (x \o y)[1] = i /\ (x \o y)[2] = j
  <2>1. 1 \in 1 .. 1 /\ 1 + 1 = 2
    OBVIOUS
  <2> QED BY <1>1, <1>3, <2>1
<1>5. x \o y = z
  <2> DEFINE a == x \o y
  <2>1. a \in Chars /\ Len(a) = 2 /\ a[1] = i /\ a[2] = j
    BY <1>3, <1>4
  <2> HIDE DEF a
  <2>2. \A k \in 1 .. Len(a) : a[k] = z[k]
    BY <1>1, <2>1
  <2>3. a = z
    BY <1>1, <2>1, <2>2, SameChars
  <2> QED BY <2>3 DEF a
<1> QED BY <1>2, <1>5 DEF x, y, z

(* The refinement mapping, in terms of how far the two sides are.          *)
UpIs ==
  LinesUp = IF ~CollectorUp \/ workerNext <= collectorNext THEN <<>>
            ELSE IF workerNext = collectorNext + 1 THEN <<collectorNext>>
            ELSE <<collectorNext, collectorNext + 1>>

DownIs ==
  LinesDown = IF ~workerUp THEN <<>>
              ELSE IF collectorNext = workerNext + 1 THEN <<workerNext>>
              ELSE IF ~CollectorUp /\ PartDown /\ LineOf(stdio \o down) # 0
                   THEN <<collectorNext>>
              ELSE <<>>

LEMMA LinesUpAre ==
  ASSUME PipeInv
  PROVE  UpIs
<1>1. TypeInv /\ UpInv
  BY DEF PipeInv
<1>2. CASE ~CollectorUp
  BY <1>2 DEF LinesUp, UpIs
<1>3. CASE CollectorUp
  <2>1. PICK p : Begun(p) /\ Ahead(buf \o up, p)
    BY <1>1, <1>3 DEF UpInv
  <2>2. p \in Chars /\ LinesOf(p) = <<>>
    BY <1>1, <2>1, BegunPart
  <2>3. LinesUp = LinesOf(buf \o up)
    BY <1>3 DEF LinesUp
  <2>4. CASE workerNext <= collectorNext
    <3>1. buf \o up = p
      BY <1>1, <2>1, <2>4, AheadCases
    <3> QED BY <1>3, <2>2, <2>3, <2>4, <3>1 DEF UpIs
  <2>5. ASSUME NEW i \in 1 .. LastLine
        PROVE  LinesOf(Terminated(i) \o p) = <<i>>
    <3>1. LinesOf(Terminated(i) \o p) = <<i>> \o <<>>
      BY <1>1, <2>2, LinesOfFirst DEF TypeInv
    <3>2. <<i>> \in Chars
      BY Bounds DEF Chars
    <3>3. <<i>> \o <<>> = <<i>>
      BY <3>2, ConcatEmptySeq DEF Chars
    <3> QED BY <3>1, <3>3
  <2>6. CASE workerNext = collectorNext + 1
    <3>1. buf \o up = Terminated(collectorNext) \o p
      BY <1>1, <2>1, <2>6, AheadCases
    <3>2. collectorNext \in 1 .. LastLine
      BY <1>1, <2>6, Counters
    <3>3. ~(workerNext <= collectorNext)
      BY <1>1, <2>6, Counters
    <3> QED BY <1>3, <2>3, <2>5, <2>6, <3>1, <3>2, <3>3 DEF UpIs
  <2>7. CASE workerNext = collectorNext + 2
    <3> DEFINE c == collectorNext
               t == Terminated(c + 1) \o p
    <3>1. buf \o up = Terminated(c) \o t
      BY <1>1, <2>1, <2>7, AheadCases
    <3>2. c \in 1 .. LastLine /\ c + 1 \in 1 .. LastLine /\ c \in Nat
      BY <1>1, <2>7, Counters
    <3>3. t \in Chars
      BY <1>1, <2>2, <3>2, TerminatedTexts, Concat DEF TypeInv
    <3>4. LinesOf(t) = <<c + 1>>
      BY <2>5, <3>2
    <3> HIDE DEF t
    <3>5. LinesOf(Terminated(c) \o t) = <<c>> \o LinesOf(t)
      BY <1>1, <3>2, <3>3, LinesOfFirst DEF TypeInv
    <3>6. <<c>> \o <<c + 1>> = <<c, c + 1>>
      BY <3>2, TwoLines
    <3>7. ~(workerNext <= c) /\ workerNext # c + 1
      BY <2>7, <3>2
    <3> QED BY <1>3, <2>3, <3>1, <3>4, <3>5, <3>6, <3>7 DEF UpIs
  <2>8. \/ workerNext <= collectorNext \/ workerNext = collectorNext + 1
        \/ workerNext = collectorNext + 2
    BY <1>1, <2>1, AheadCases
  <2> QED BY <2>4, <2>6, <2>7, <2>8
<1> QED BY <1>2, <1>3

LEMMA LinesDownAre ==
  ASSUME PipeInv
  PROVE  DownIs
<1> DEFINE d == stdio \o down
<1>1. TypeInv /\ DownInv /\ d \in Chars /\ LengthOK
      /\ workerNext \in Nat /\ collectorNext \in Nat
  BY Counters DEF PipeInv, TypeInv
<1>2. CASE ~workerUp
  BY <1>2 DEF LinesDown, DownIs
<1>3. CASE workerUp
  <2>1. LinesDown = LinesOf(d) \o IF ~CollectorUp /\ LineOf(RestOf(d)) # 0
                                  THEN <<LineOf(RestOf(d))>> ELSE <<>>
    BY <1>3 DEF LinesDown
  <2>2. 1 \in 1 .. LastLine /\ LineOf(<<>>) = 0 /\ <<>> \o <<>> = <<>>
    <3>1. 1 \in 1 .. LastLine
      BY Turns
    <3> QED BY <1>1, <3>1, LineOfText, Empty, Concat
  <2>3. CASE LineDown
    <3>1. /\ d = Terminated(workerNext) /\ workerNext \in 1 .. LastLine
          /\ collectorNext = workerNext + 1
      BY <2>3, Turns DEF LineDown
    <3> HIDE DEF d
    <3>2. LinesOf(d) = <<workerNext>> /\ RestOf(d) = <<>>
      BY <1>1, <3>1, RestOfLine
    <3>3. <<workerNext>> \in Chars
      BY <1>1 DEF Chars
    <3>4. <<workerNext>> \o <<>> = <<workerNext>>
      BY <3>3, ConcatEmptySeq DEF Chars
    <3> QED BY <1>3, <2>1, <2>2, <3>1, <3>2, <3>4 DEF DownIs
  <2>4. CASE PartDown
    <3>1. /\ LinesOf(d) = <<>> /\ RestOf(d) = d
          /\ LineOf(d) \in {0, collectorNext}
      BY <1>1, <2>4, PartIsNoLine
    <3>2. collectorNext # workerNext + 1
      BY <1>1, <2>4 DEF PartDown
    <3>3. <<collectorNext>> \in Chars /\ <<>> \in Chars
      BY <1>1, Empty DEF Chars
    <3>4. <<>> \o <<collectorNext>> = <<collectorNext>> /\ <<>> \o <<>> = <<>>
      BY <3>3, ConcatEmptySeq DEF Chars
    <3> HIDE DEF d
    <3>5. LinesDown = IF ~CollectorUp /\ LineOf(d) # 0
                      THEN <<collectorNext>> ELSE <<>>
      BY <2>1, <3>1, <3>4
    <3> QED BY <1>3, <2>4, <3>2, <3>5 DEF d, DownIs
  <2>5. CASE NothingDown
    <3>1. d = <<>> /\ collectorNext # workerNext + 1
      BY <1>1, <2>5 DEF NothingDown
    <3> HIDE DEF d
    <3>2. LinesOf(d) = <<>> /\ RestOf(d) = <<>>
      BY <1>1, <3>1, NoNewline, LinesOfNone
    <3>3. LinesDown = <<>>
      BY <2>1, <2>2, <3>2
    <3> QED BY <1>3, <2>2, <3>1, <3>3 DEF d, DownIs
  <2> QED BY <1>1, <1>3, <2>3, <2>4, <2>5 DEF DownInv
<1> QED BY <1>2, <1>3

-----------------------------------------------------------------------------
(* Every action keeps the invariant.                                       *)

LEMMA PipeParts ==
  PipeInv <=>
    TypeInv /\ OrderInv /\ UpInv /\ DownInv /\ AtInv /\ NothingSkipped
  BY DEF PipeInv

LEMMA KeptByWorkerBegins ==
  ASSUME PipeInv, WorkerBegins
  PROVE  PipeInv'
<1>1. TypeInv /\ OrderInv /\ UpInv /\ DownInv /\ AtInv /\ NothingSkipped
  BY DEF PipeInv
<1>2. /\ workerUp /\ FromWorker(workerNext) /\ workerOut = <<>>
      /\ workerOut' = Terminated(workerNext)
      /\ UNCHANGED <<length, down, up, workerNext, workerUp, stdio,
                     collectorNext, at, collectorOut, buf, scanned, eof>>
  BY DEF WorkerBegins, collectorVars
<1>3. workerNext \in 1 .. LastLine
  BY <1>2, Turns
<1>4. Terminated(workerNext) \in Chars /\ Terminated(workerNext) # <<>>
  BY <1>1, <1>3, TerminatedTexts DEF TypeInv
<1>5. TypeInv'
  BY <1>1, <1>2, <1>4, Frozen DEF TypeInv
<1>6. OrderInv' /\ DownInv' /\ PartDown' = PartDown
  BY <1>1, <1>2, OrderStays, DownStays DEF CollectorUp
<1>7. UpInv'
  <2>1. CASE CollectorUp
    <3>1. PICK p : Begun(p) /\ Ahead(buf \o up, p)
      BY <1>1, <2>1 DEF UpInv
    <3>2. p = <<>> /\ <<>> \in Chars
      BY <1>2, <3>1, Empty DEF Begun
    <3>3. <<>> \o Terminated(workerNext) = Terminated(workerNext)
      BY <1>4, Concat
    <3>4. Begun(p)'
      <4>1. Terminated(workerNext)' = Terminated(workerNext)
        BY <1>2, Frozen
      <4> QED BY <1>2, <1>4, <3>2, <3>3, <4>1 DEF Begun
    <3>5. Ahead(buf \o up, p)'
      <4>1. /\ Terminated(collectorNext)' = Terminated(collectorNext)
            /\ Terminated(collectorNext + 1)' = Terminated(collectorNext + 1)
        BY <1>2 DEF Terminated, Text
      <4> QED BY <1>2, <3>1, <4>1 DEF Ahead
    <3>6. FromWorker(workerNext')
      BY <1>2
    <3> QED BY <3>4, <3>5, <3>6 DEF UpInv
  <2>2. CASE ~CollectorUp
    BY <1>2, <2>2 DEF UpInv, CollectorUp
  <2> QED BY <2>1, <2>2
<1>8. AtInv' /\ NothingSkipped'
  BY <1>1, <1>2, <1>6 DEF AtInv, NothingSkipped, CollectorUp, Newlines
<1> QED BY <1>5, <1>6, <1>7, <1>8 DEF PipeInv

LEMMA KeptByWorkerWrites ==
  ASSUME PipeInv, WorkerWrites
  PROVE  PipeInv'
<1>1. TypeInv /\ OrderInv /\ UpInv /\ DownInv /\ AtInv /\ NothingSkipped
  BY DEF PipeInv
<1> DEFINE w == workerNext
           c == collectorNext
<1>2. /\ workerUp /\ workerOut # <<>> /\ CollectorUp
      /\ workerNext' = IF workerOut' = <<>> THEN w + 1 ELSE w
      /\ UNCHANGED <<length, down, workerUp, stdio,
                     collectorNext, at, collectorOut, buf, scanned, eof>>
  BY DEF WorkerWrites, collectorVars
<1>3. PICK n \in 1 .. Len(workerOut) :
        /\ up' = up \o First(workerOut, n)
        /\ workerOut' = Without(workerOut, n)
  BY DEF WorkerWrites, Room, LeftToWrite
<1>4. /\ FromWorker(w) /\ ~ToWorker(w) /\ w + 1 \in 1 .. LastLine
      /\ w \in 1 .. LastLine /\ w \in Nat /\ c \in Nat
  BY <1>1, <1>2, Turns, Counters DEF UpInv
<1>5. PICK p : Begun(p) /\ Ahead(buf \o up, p)
  BY <1>1, <1>2 DEF UpInv
<1>6. /\ p \in Chars /\ workerOut \in Chars /\ up \in Chars /\ buf \in Chars
      /\ p \o workerOut = Terminated(w)
  BY <1>1, <1>2, <1>5 DEF Begun, TypeInv
<1>7. PICK f, q :
        /\ f = First(workerOut, n) /\ q = p \o f
        /\ f \in Chars /\ workerOut' \in Chars /\ q \in Chars
        /\ q \o workerOut' = Terminated(w)
  <2>1. p \in Chars /\ workerOut \in Chars
    BY <1>6
  <2>2. /\ First(workerOut, n) \in Chars /\ Without(workerOut, n) \in Chars
        /\ p \o First(workerOut, n) \in Chars
        /\ (p \o First(workerOut, n)) \o Without(workerOut, n) = p \o workerOut
    BY <2>1, PieceMoves
  <2> QED BY <1>3, <1>6, <2>2
<1>8. w = c \/ w = c + 1
  BY <1>2, <1>4, WorkerIsNear
<1>9. (buf \o up)' = (buf \o up) \o f
  <2>0. buf \in Chars /\ up \in Chars /\ f \in Chars
    BY <1>6, <1>7
  <2>1. buf \o (up \o f) = (buf \o up) \o f
    BY <2>0, ConcatThree
  <2> QED BY <1>2, <1>3, <1>7, <2>1
<1>10. NothingDown /\ ~LineDown /\ ~PartDown
  BY <1>1, <1>2, <1>4 DEF DownInv, LineDown, PartDown
<1>11. at # "write" /\ ~eof
  BY <1>1, <1>2, <1>10 DEF AtInv
<1>12. TypeInv'
  <2>1. up' \in Chars
    BY <1>3, <1>6, <1>7, Concat
  <2>2. workerNext' \in 1 .. LastLine + 1
    BY <1>2, <1>4, Bounds
  <2> QED BY <1>1, <1>2, <1>7, <2>1, <2>2, Frozen DEF TypeInv
<1>13. OrderInv'
  <2>1. ~(workerNext' < collectorNext')
    BY <1>2, <1>4, <1>8
  <2>2. ASSUME NEW i \in collectorNext' .. workerNext' - 1
        PROVE  FromWorker(i)
    <3>1. i \in c .. w - 1 \/ i = w
      BY <1>2, <1>4, <1>8
    <3> QED BY <1>1, <1>2, <1>4, <3>1 DEF OrderInv
  <2> QED BY <2>1, <2>2 DEF OrderInv
<1>14. UpInv'
  <2> DEFINE u == buf \o up
  <2>1. u \in Chars /\ u' = u \o f
    BY <1>1, <1>9, Counters
  <2>2. (w = c => u = p) /\ (w = c + 1 => u = Terminated(c) \o p)
    <3>1. Ahead(u, p) /\ (w = c => w <= c)
      BY <1>4, <1>5
    <3> HIDE DEF u
    <3> QED BY <1>1, <3>1, AheadCases
  <2>3. /\ Terminated(w) \in Chars
        /\ w = c + 1 => Terminated(c) \in Chars
    <3>1. w = c + 1 => c \in 1 .. LastLine
      BY <1>1, <1>4, Counters
    <3> QED BY <1>1, <1>4, <3>1, TerminatedTexts DEF TypeInv
  <2>4. \A i : Terminated(i)' = Terminated(i)
    BY <1>2, Frozen
  <2> HIDE DEF u
  <2>5. (w = c => u' = q) /\ (w = c + 1 => u' = Terminated(c) \o q)
    <3>1. CASE w = c
      BY <1>4, <1>7, <2>1, <2>2, <3>1
    <3>2. CASE w = c + 1
      <4>1. p \in Chars /\ f \in Chars /\ Terminated(c) \in Chars
        BY <1>6, <1>7, <2>3, <3>2
      <4>2. (Terminated(c) \o p) \o f = Terminated(c) \o (p \o f)
        BY <4>1, ConcatThree
      <4> QED BY <1>7, <2>1, <2>2, <3>2, <4>2
    <3> QED BY <1>8, <3>1, <3>2
  <2>6. CASE workerOut' # <<>>
    <3>1. Begun(q)'
      <4>1. workerNext' = w
        BY <1>2, <2>6
      <4>2. Terminated(workerNext)' = Terminated(w)
        BY <1>2, <4>1 DEF Terminated, Text
      <4> QED BY <1>7, <2>6, <4>2 DEF Begun
    <3>2. Ahead(u, q)'
      <4>1. workerNext' = w /\ collectorNext' = c
        BY <1>2, <2>6
      <4>2. Terminated(collectorNext)' = Terminated(c)
        BY <1>2 DEF Terminated, Text
      <4> QED BY <1>4, <1>8, <2>5, <4>1, <4>2 DEF Ahead
    <3>3. FromWorker(workerNext')
      BY <1>2, <1>4, <2>6
    <3> QED BY <3>1, <3>2, <3>3 DEF UpInv, u
  <2>7. CASE workerOut' = <<>>
    <3>1. q = Terminated(w) /\ <<>> \in Chars
      BY <1>7, <2>7, Concat, Empty
    <3>2. Begun(<<>>)'
      BY <2>7, <3>1 DEF Begun
    <3>3. workerNext' = w + 1 /\ collectorNext' = c
      BY <1>2, <2>7
    <3>4. /\ Terminated(collectorNext)' = Terminated(c)
          /\ Terminated(collectorNext + 1)' = Terminated(c + 1)
      BY <1>2 DEF Terminated, Text
    <3>5. CASE w = c
      <4>1. u' = Terminated(c) \o <<>>
        BY <2>3, <2>5, <3>1, <3>5, Concat, Empty
      <4>2. Ahead(u, <<>>)'
        BY <3>3, <3>4, <3>5, <4>1 DEF Ahead
      <4> QED BY <2>7, <3>2, <4>2 DEF UpInv, u
    <3>6. CASE w = c + 1
      <4>1. u' = Terminated(c) \o (Terminated(c + 1) \o <<>>)
        <5>1. Terminated(w) \o <<>> = Terminated(w)
          BY <2>3, <3>1, Concat
        <5> QED BY <1>4, <2>5, <3>1, <3>6, <5>1
      <4>2. workerNext' = collectorNext' + 2
        BY <1>4, <3>3, <3>6
      <4>3. Ahead(u, <<>>)'
        BY <3>4, <4>1, <4>2 DEF Ahead
      <4> QED BY <2>7, <3>2, <4>3 DEF UpInv, u
    <3> QED BY <1>8, <3>5, <3>6
  <2> QED BY <2>6, <2>7
<1>15. DownInv'
  <2>1. NothingDown'
    BY <1>2, <1>4, <1>10 DEF NothingDown
  <2> QED BY <2>1 DEF DownInv
<1>16. AtInv' /\ NothingSkipped'
  BY <1>1, <1>2, <1>11 DEF AtInv, NothingSkipped, CollectorUp, Newlines
<1> QED BY <1>12, <1>13, <1>14, <1>15, <1>16 DEF PipeInv

(* However the worker ends. *)
LEMMA KeptByEndOfWorker ==
  ASSUME PipeInv, EndOfWorker
  PROVE  PipeInv'
<1>1. TypeInv /\ OrderInv /\ UpInv /\ DownInv /\ AtInv /\ NothingSkipped
  BY DEF PipeInv
<1>2. /\ ~workerUp' /\ workerUp' \in BOOLEAN
      /\ UNCHANGED <<length, down, up, workerNext, workerOut, stdio,
                     collectorNext, at, collectorOut, buf, scanned, eof>>
  BY DEF EndOfWorker, collectorVars
<1>3. TypeInv'
  BY <1>1, <1>2, Frozen DEF TypeInv
<1>4. OrderInv' /\ UpInv' /\ DownInv'
  <2>1. (CollectorUp' => CollectorUp) /\ (buf \o up)' = buf \o up
    BY <1>2 DEF CollectorUp
  <2> QED BY <1>1, <1>2, <2>1, OrderStays, UpStays DEF DownInv
<1>5. AtInv' /\ NothingSkipped'
  BY <1>1, <1>2 DEF AtInv, NothingSkipped, CollectorUp, Newlines
<1> QED BY <1>3, <1>4, <1>5 DEF PipeInv

LEMMA NoNumber ==
  ASSUME NEW i \in Nat
  PROVE  i .. i - 1 = {}
  OBVIOUS

(* The worker gets the line that it waits for. *)
LEMMA ReadLineDoes ==
  ASSUME PipeInv, ReadLine
  PROVE  /\ LineDown /\ workerUp' = workerUp /\ workerNext' = workerNext + 1
         /\ stdio' \in Chars /\ stdio' \o down = <<>>
<1>1. TypeInv /\ workerUp /\ Newlines(stdio) # {} /\ LineDown
  BY WorkerFindsLine DEF PipeInv, ReadLine, Reading
<1> DEFINE w == workerNext
           nl == Min(Newlines(stdio))
<1>2. /\ stdio \in Chars /\ down \in Chars /\ <<>> \in Chars /\ LengthOK
      /\ w \in 1 .. LastLine /\ w \in Nat
      /\ stdio \o down = Terminated(w)
  BY <1>1, Turns, Empty, Counters DEF LineDown, TypeInv
<1>3. stdio \o down = Terminated(w) \o <<>>
  <2>1. Terminated(w) \in Chars
    BY <1>2, TerminatedTexts
  <2> QED BY <1>2, <2>1, Concat
<1>4. /\ First(stdio, nl - 1) = Text(w) /\ Without(stdio, nl) \in Chars
      /\ Without(stdio, nl) \o down = <<>>
  <2>1. Holds(stdio, down, w, <<>>)
    BY <1>1, <1>2, <1>3 DEF Holds
  <2>2. Yields(stdio, down, w, <<>>)
    BY <1>2, <2>1, FirstLine
  <2> QED BY <2>2 DEF Yields
<1>5. LineOf(First(stdio, nl - 1)) = w /\ w # 0
  BY <1>2, <1>4, LineOfText
<1>6. Returns(First(stdio, nl - 1), Without(stdio, nl))
  BY DEF ReadLine
<1> HIDE DEF nl
<1>7. /\ stdio' = Without(stdio, nl) /\ workerNext' = w + 1
      /\ workerUp' = workerUp
  BY <1>5, <1>6 DEF Returns
<1> QED BY <1>1, <1>4, <1>7

LEMMA KeptByReadLine ==
  ASSUME PipeInv, ReadLine
  PROVE  PipeInv'
<1>1. TypeInv /\ OrderInv /\ UpInv /\ DownInv /\ AtInv /\ NothingSkipped
  BY DEF PipeInv
<1> DEFINE w == workerNext
           c == collectorNext
<1>2. /\ LineDown /\ workerUp' = workerUp /\ workerNext' = w + 1
      /\ stdio' \in Chars /\ stdio' \o down = <<>>
  BY ReadLineDoes
<1>3. /\ workerUp /\ ToWorker(w)
      /\ UNCHANGED <<length, down, up, workerOut, collectorNext, at,
                     collectorOut, buf, scanned, eof>>
  BY DEF ReadLine, Reading, Returns, collectorVars
<1>4. /\ c = w + 1 /\ w \in Nat /\ w + 1 \in 1 .. LastLine + 1 /\ ~PartDown
  <2>1. c = w + 1 /\ w \in Nat /\ w >= 1 /\ w <= LastLine /\ LastLine \in Nat
    BY <1>1, <1>2, <1>3, Counters, Turns DEF LineDown
  <2> QED BY <2>1 DEF PartDown
<1>5. TypeInv'
  BY <1>1, <1>2, <1>3, <1>4, Frozen DEF TypeInv
<1>6. OrderInv'
  <2>1. /\ workerNext' = collectorNext' /\ collectorNext' \in Nat
    BY <1>2, <1>3, <1>4
  <2>2. collectorNext' .. workerNext' - 1 = {}
    BY <2>1, NoNumber
  <2>3. ~(workerNext' < collectorNext')
    BY <2>1
  <2> QED BY <2>2, <2>3 DEF OrderInv
<1>7. UpInv'
  <2>1. CASE CollectorUp
    <3>1. PICK p : Begun(p) /\ Ahead(buf \o up, p)
      BY <1>1, <2>1 DEF UpInv
    <3>2. p = <<>> /\ workerOut = <<>> /\ p \in Chars
      BY <1>1, <1>3, <3>1, BegunPart
    <3>3. Begun(p)'
      BY <1>3, <3>2 DEF Begun
    <3>4. buf \o up = p
      <4>1. workerNext <= collectorNext
        BY <1>4
      <4> QED BY <1>1, <3>1, <4>1, AheadCases
    <3>5. Ahead(buf \o up, p)'
      <4>1. (buf \o up)' = p /\ workerNext' <= collectorNext'
        BY <1>2, <1>3, <1>4, <3>4
      <4> QED BY <4>1 DEF Ahead
    <3> QED BY <1>3, <3>2, <3>3, <3>5 DEF UpInv
  <2>2. CASE ~CollectorUp
    <3>1. workerOut = <<>>
      BY <1>1, <1>3, Turns DEF UpInv
    <3> QED BY <1>3, <2>2, <3>1 DEF UpInv, CollectorUp
  <2> QED BY <2>1, <2>2
<1>8. DownInv'
  <2>1. workerNext' >= collectorNext' /\ (stdio \o down)' = <<>>
    BY <1>2, <1>3, <1>4
  <2> QED BY <2>1 DEF DownInv, NothingDown
<1>9. at # "write"
  BY <1>1, <1>3, <1>4 DEF AtInv
<1>10. AtInv' /\ NothingSkipped'
  BY <1>1, <1>2, <1>3, <1>9 DEF AtInv, NothingSkipped, CollectorUp, Newlines
<1> QED BY <1>5, <1>6, <1>7, <1>8, <1>10 DEF PipeInv

LEMMA Smaller ==
  ASSUME NEW i \in Nat, NEW j \in Nat \ {0}
  PROVE  Min({i, j}) \in 0 .. i
<1>1. (\E x \in {i, j} : \A y \in {i, j} : x <= y)
  <2>1. CASE i <= j
    BY <2>1
  <2>2. CASE ~(i <= j)
    BY <2>2
  <2> QED BY <2>1, <2>2
<1>2. /\ Min({i, j}) \in {i, j} /\ \A y \in {i, j} : Min({i, j}) <= y
  BY <1>1 DEF Min
<1> QED BY <1>2

(* Characters move from a pipe into the buffer of its reader. *)
LEMMA CharactersMove ==
  ASSUME NEW s \in Chars, NEW r \in Chars, NEW n \in 0 .. Len(r)
  PROVE  /\ s \o First(r, n) \in Chars /\ Without(r, n) \in Chars
         /\ (s \o First(r, n)) \o Without(r, n) = s \o r
         /\ Len(s) <= Len(s \o First(r, n)) /\ Len(s) \in Nat
         /\ \A k \in 1 .. Len(s) : (s \o First(r, n))[k] = s[k]
<1> DEFINE f == First(r, n)
           g == Without(r, n)
<1>1. f \in Chars /\ g \in Chars /\ f \o g = r
  BY Cut
<1> HIDE DEF f, g
<1>2. /\ s \o f \in Chars /\ Len(s \o f) = Len(s) + Len(f)
      /\ Len(s) \in Nat /\ Len(f) \in Nat
      /\ \A k \in 1 .. Len(s) : (s \o f)[k] = s[k]
  BY <1>1, Concat
<1>3. (s \o f) \o g = s \o (f \o g)
  <2>1. f \in Chars /\ g \in Chars
    BY <1>1
  <2> QED BY <2>1, ConcatThree
<1>4. Len(s) <= Len(s \o f)
  BY <1>2
<1> QED BY <1>1, <1>2, <1>3, <1>4 DEF f, g

LEMMA KeptByFillStdio ==
  ASSUME PipeInv, FillStdio
  PROVE  PipeInv' /\ (stdio \o down)' = stdio \o down
<1>1. TypeInv /\ OrderInv /\ UpInv /\ DownInv /\ AtInv /\ NothingSkipped
  BY DEF PipeInv
<1> DEFINE n == Min({Len(down), Chunk})
<1>2. /\ stdio' = stdio \o First(down, n) /\ down' = Without(down, n)
      /\ UNCHANGED <<length, up, workerNext, workerUp, workerOut,
                     collectorNext, at, collectorOut, buf, scanned, eof>>
  BY DEF FillStdio, collectorVars
<1>3. stdio \in Chars /\ down \in Chars /\ n \in 0 .. Len(down)
  <2>1. stdio \in Chars /\ down \in Chars
    BY <1>1 DEF TypeInv
  <2>2. Len(down) \in Nat
    BY <2>1, Concat
  <2> QED BY <2>1, <2>2, Smaller, Bounds
<1> HIDE DEF n
<1>4. stdio' \in Chars /\ down' \in Chars /\ (stdio \o down)' = stdio \o down
  BY <1>2, <1>3, CharactersMove
<1>5. TypeInv'
  BY <1>1, <1>2, <1>4, Frozen DEF TypeInv
<1>6. OrderInv' /\ UpInv' /\ DownInv' /\ PartDown' = PartDown
  <2>1. (CollectorUp' => CollectorUp) /\ (buf \o up)' = buf \o up
    BY <1>2 DEF CollectorUp
  <2> QED BY <1>1, <1>2, <1>4, <2>1, OrderStays, UpStays, DownStays
<1>7. AtInv' /\ NothingSkipped'
  BY <1>1, <1>2, <1>6 DEF AtInv, NothingSkipped, CollectorUp, Newlines
<1> QED BY <1>4, <1>5, <1>6, <1>7 DEF PipeInv

(* Without the collector, the worker takes a line that was cut off for     *)
(* what it is.                                                             *)
LEMMA ReadUnterminatedDoes ==
  ASSUME PipeInv, ReadUnterminated
  PROVE  /\ ~CollectorUp /\ workerUp /\ PartDown
         /\ stdio \o down = stdio /\ stdio' \o down = <<>>
         /\ \/ LineOf(stdio) = 0 /\ ~workerUp' /\ workerNext' = workerNext
            \/ /\ LineOf(stdio) = collectorNext /\ workerUp'
               /\ workerNext' = collectorNext + 1
<1>1. /\ TypeInv /\ DownInv /\ workerUp /\ ~CollectorUp /\ stdio # <<>>
      /\ Newlines(stdio) = {} /\ down = <<>> /\ Returns(stdio, <<>>)
  BY DEF PipeInv, ReadUnterminated, AtEof, Reading
<1>2. stdio \in Chars /\ stdio \o down = stdio /\ <<>> \o <<>> = <<>>
  <2>1. stdio \in Chars /\ <<>> \in Chars
    BY <1>1, Empty DEF TypeInv
  <2> QED BY <1>1, <2>1, Concat
<1>3. ~NothingDown
  BY <1>1, <1>2 DEF NothingDown
<1>4. ~LineDown
  <2>1. SUFFICES ASSUME LineDown PROVE FALSE
    OBVIOUS
  <2>2. workerNext \in 1 .. LastLine /\ stdio = Terminated(workerNext)
    BY <1>2, <2>1, Turns DEF LineDown
  <2> QED BY <1>1, <2>2, TerminatedTexts DEF TypeInv
<1>5. PartDown
  BY <1>1, <1>3, <1>4 DEF DownInv
<1>6. LineOf(stdio) \in {0, collectorNext}
  BY <1>1, <1>2, <1>5, PartIsNoLine
<1>7. stdio' = <<>>
  BY <1>1 DEF Returns
<1>8. \/ LineOf(stdio) = 0 /\ ~workerUp' /\ workerNext' = workerNext
      \/ /\ LineOf(stdio) = collectorNext /\ workerUp'
         /\ workerNext' = collectorNext + 1
  BY <1>1, <1>6 DEF Returns
<1> QED BY <1>1, <1>2, <1>5, <1>7, <1>8

LEMMA KeptByReadUnterminated ==
  ASSUME PipeInv, ReadUnterminated
  PROVE  PipeInv'
<1>1. TypeInv /\ OrderInv /\ UpInv /\ DownInv /\ AtInv /\ NothingSkipped
  BY DEF PipeInv
<1>2. /\ ~CollectorUp /\ workerUp /\ PartDown /\ stdio' \o down = <<>>
      /\ \/ ~workerUp' /\ workerNext' = workerNext
         \/ workerUp' /\ workerNext' = collectorNext + 1
  BY ReadUnterminatedDoes
<1>3. /\ ToWorker(workerNext) /\ stdio' = <<>>
      /\ workerUp' \in BOOLEAN
      /\ UNCHANGED <<length, down, up, workerOut, collectorNext, at,
                     collectorOut, buf, scanned, eof>>
  BY <1>1 DEF ReadUnterminated, AtEof, Reading, Returns, collectorVars, TypeInv
<1>4. ~CollectorUp' /\ workerOut = <<>>
  BY <1>1, <1>2, <1>3, Turns DEF CollectorUp, UpInv
<1>5. /\ collectorNext \in Nat /\ collectorNext + 1 \in 1 .. LastLine + 1
  <2>1. collectorNext \in 1 .. LastLine /\ LastLine \in Nat
    BY <1>2, Turns, Bounds DEF PartDown
  <2> QED BY <2>1
<1>6. TypeInv'
  BY <1>1, <1>2, <1>3, <1>5, Empty, Frozen DEF TypeInv
<1>7. OrderInv' /\ UpInv'
  BY <1>3, <1>4 DEF OrderInv, UpInv
<1>8. DownInv'
  <2>1. CASE workerUp'
    <3>1. workerNext' >= collectorNext' /\ (stdio \o down)' = <<>>
      BY <1>2, <1>3, <1>5, <2>1
    <3> QED BY <3>1 DEF DownInv, NothingDown
  <2>2. CASE ~workerUp'
    BY <2>2 DEF DownInv
  <2> QED BY <2>1, <2>2
<1>9. AtInv' /\ NothingSkipped'
  BY <1>1, <1>2, <1>3, <1>4 DEF AtInv, NothingSkipped, CollectorUp, Newlines
<1> QED BY <1>6, <1>7, <1>8, <1>9 DEF PipeInv

(* The collector writes when the worker waits for its line. *)
LEMMA WriteState ==
  ASSUME PipeInv, at = "write", workerUp
  PROVE  /\ PartDown /\ ~LineDown /\ CollectorUp /\ ~eof
         /\ workerNext = collectorNext /\ ToWorker(collectorNext)
         /\ collectorNext \in 1 .. LastLine /\ collectorNext \in Nat
         /\ collectorOut \in Chars /\ collectorOut # <<>>
         /\ stdio \in Chars /\ down \in Chars /\ LengthOK
         /\ workerOut = <<>> /\ Begun(<<>>) /\ buf \o up = <<>>
<1>1. TypeInv /\ OrderInv /\ UpInv /\ DownInv /\ AtInv
  BY DEF PipeInv
<1>2. PartDown /\ CollectorUp /\ ~eof
  BY <1>1 DEF AtInv, CollectorUp
<1>3. /\ workerNext = collectorNext /\ ToWorker(collectorNext)
      /\ collectorNext \in 1 .. LastLine /\ collectorNext \in Nat
      /\ workerNext <= collectorNext
  BY <1>1, <1>2, Turns, Counters DEF PartDown
<1>4. PICK p : Begun(p) /\ Ahead(buf \o up, p)
  BY <1>1, <1>2 DEF UpInv
<1>5. p = <<>> /\ workerOut = <<>>
  BY <1>1, <1>3, <1>4, BegunPart
<1>6. buf \o up = <<>>
  BY <1>1, <1>3, <1>4, <1>5, AheadCases
<1>7. ~LineDown
  BY <1>3 DEF LineDown
<1> QED BY <1>1, <1>2, <1>3, <1>4, <1>5, <1>6, <1>7 DEF TypeInv, PartDown

LEMMA KeptByCollectorWrites ==
  ASSUME PipeInv, CollectorWrites
  PROVE  PipeInv'
<1>1. TypeInv /\ OrderInv /\ UpInv /\ DownInv /\ AtInv /\ NothingSkipped
  BY DEF PipeInv
<1> DEFINE c == collectorNext
<1>2. /\ at = "write" /\ workerUp
      /\ collectorNext' = IF collectorOut' = <<>> THEN c + 1 ELSE c
      /\ at' = IF collectorOut' = <<>> THEN "poll" ELSE "write"
      /\ UNCHANGED <<length, up, workerNext, workerUp, workerOut, stdio, buf,
                     scanned, eof>>
  BY DEF CollectorWrites, workerVars
<1>3. PICK n \in 1 .. Len(collectorOut) :
        /\ down' = down \o First(collectorOut, n)
        /\ collectorOut' = Without(collectorOut, n)
  BY DEF CollectorWrites, Room, LeftToWrite
<1>4. /\ PartDown /\ CollectorUp /\ ~eof
      /\ workerNext = c /\ ToWorker(c) /\ c \in 1 .. LastLine /\ c \in Nat
      /\ collectorOut \in Chars /\ stdio \in Chars /\ down \in Chars
      /\ workerOut = <<>> /\ Begun(<<>>) /\ buf \o up = <<>> /\ LengthOK
  BY <1>2, WriteState
<1> DEFINE f == First(collectorOut, n)
<1>5. /\ f \in Chars /\ collectorOut' \in Chars /\ down' \in Chars
      /\ (stdio \o down)' \in Chars
      /\ (stdio \o down)' \o collectorOut' = Terminated(c)
  <2> DEFINE d == stdio \o down
             g == Without(collectorOut, n)
  <2>1. d \in Chars /\ d \o collectorOut = Terminated(c)
    <3>1. d \in Chars
      BY <1>4, Concat
    <3> QED BY <1>4, <3>1 DEF PartDown
  <2>2. f \in Chars /\ g \in Chars
    BY <1>4, PieceMoves
  <2> HIDE DEF f
  <2>3. down \o f \in Chars
    BY <1>4, <2>2, Concat
  <2>4. stdio \o (down \o f) = d \o f
    <3>1. (stdio \o down) \o f = stdio \o (down \o f)
      BY <1>4, <2>2, ConcatThree
    <3> QED BY <3>1
  <2> HIDE DEF d
  <2>5. d \o f \in Chars /\ (d \o f) \o g = d \o collectorOut
    BY <1>4, <2>1, PieceMoves DEF f
  <2> QED BY <1>2, <1>3, <2>1, <2>2, <2>3, <2>4, <2>5 DEF f
<1> HIDE DEF f
<1>6. TypeInv'
  <2>1. collectorNext' \in 1 .. LastLine + 1
    BY <1>2, <1>4, Bounds
  <2> QED BY <1>1, <1>2, <1>5, <2>1, Frozen DEF TypeInv
<1>7. OrderInv'
  <2>1. /\ collectorNext' \in {c, c + 1} /\ workerNext' = c
    BY <1>2, <1>4
  <2>2. \A i \in collectorNext' .. workerNext' - 1 : FALSE
    BY <1>4, <2>1
  <2>3. workerNext' < collectorNext' =>
          collectorNext' = workerNext' + 1 /\ ToWorker(workerNext')
    BY <1>4, <2>1
  <2> QED BY <2>2, <2>3 DEF OrderInv
<1>8. UpInv'
  <2>1. Begun(<<>>)'
    BY <1>2, <1>4 DEF Begun
  <2>2. Ahead(buf \o up, <<>>)'
    <3>1. workerNext' <= collectorNext' /\ (buf \o up)' = <<>>
      BY <1>2, <1>4
    <3> QED BY <3>1 DEF Ahead
  <2>3. workerOut' = <<>>
    BY <1>2, <1>4
  <2> QED BY <2>1, <2>2, <2>3 DEF UpInv
<1>9. CASE collectorOut' # <<>>
  <2>1. PartDown'
    <3>1. /\ collectorNext' = c /\ workerNext' = c /\ ToWorker(c)
          /\ Terminated(collectorNext)' = Terminated(c)
      BY <1>2, <1>4, <1>9 DEF Terminated, Text
    <3> QED BY <1>5, <1>9, <3>1 DEF PartDown
  <2>2. DownInv'
    BY <2>1 DEF DownInv
  <2>3. AtInv' /\ NothingSkipped'
    <3>1. ToWorker(collectorNext')
      BY <1>2, <1>4, <1>9
    <3> QED BY <1>1, <1>2, <1>4, <1>9, <2>1, <3>1
            DEF AtInv, NothingSkipped, CollectorUp, Newlines
  <2> QED BY <1>6, <1>7, <1>8, <2>2, <2>3 DEF PipeInv
<1>10. CASE collectorOut' = <<>>
  <2>1. LineDown'
    <3>1. (stdio \o down)' = Terminated(c)
      BY <1>5, <1>10, Concat
    <3>2. /\ collectorNext' = workerNext' + 1 /\ workerNext' = c
          /\ Terminated(workerNext)' = Terminated(c)
      BY <1>2, <1>4, <1>10 DEF Terminated, Text
    <3> QED BY <1>4, <3>1, <3>2 DEF LineDown
  <2>2. DownInv'
    BY <2>1 DEF DownInv
  <2>3. AtInv' /\ NothingSkipped'
    BY <1>1, <1>2, <1>4, <1>10 DEF AtInv, NothingSkipped, CollectorUp, Newlines
  <2> QED BY <1>6, <1>7, <1>8, <2>2, <2>3 DEF PipeInv
<1> QED BY <1>9, <1>10

(* Steps of the collector that touch neither the pipes nor the counters.   *)
LEMMA KeptByCollector ==
  ASSUME PipeInv, CollectorUp,
         UNCHANGED <<length, down, up, workerNext, workerUp, workerOut, stdio,
                     collectorNext, collectorOut, buf>>,
         at' \in {"write", "poll", "fill", "pop", "gone"},
         eof' \in BOOLEAN, scanned' \in Nat, AtInv', NothingSkipped'
  PROVE  PipeInv'
<1>1. TypeInv /\ OrderInv /\ UpInv /\ DownInv
  BY DEF PipeInv
<1>2. TypeInv'
  BY <1>1, Frozen DEF TypeInv
<1>3. OrderInv' /\ UpInv' /\ DownInv'
  <2>1. (buf \o up)' = buf \o up /\ (stdio \o down)' = stdio \o down
    OBVIOUS
  <2> QED BY <1>1, <2>1, OrderStays, UpStays, DownStays
<1> QED BY <1>2, <1>3 DEF PipeInv

LEMMA KeptBySendFails ==
  ASSUME PipeInv, SendFails
  PROVE  PipeInv'
<1>1. /\ at = "write" /\ ~workerUp /\ CollectorUp /\ at' \in {"poll", "gone"}
      /\ UNCHANGED <<length, down, up, workerNext, workerUp, workerOut, stdio,
                     collectorNext, collectorOut, buf, scanned, eof>>
  BY DEF SendFails, workerVars, CollectorUp
<1>2. AtInv' /\ NothingSkipped' /\ eof' \in BOOLEAN /\ scanned' \in Nat
  BY <1>1 DEF PipeInv, TypeInv, AtInv, NothingSkipped, CollectorUp, Newlines
<1> QED BY <1>1, <1>2, KeptByCollector

LEMMA KeptByPoll ==
  ASSUME PipeInv, Poll
  PROVE  PipeInv'
<1>1. /\ at = "poll" /\ CollectorUp /\ at' = "fill"
      /\ UNCHANGED <<length, down, up, workerNext, workerUp, workerOut, stdio,
                     collectorNext, collectorOut, buf, scanned, eof>>
  BY DEF Poll, workerVars, CollectorUp
<1>2. AtInv' /\ NothingSkipped' /\ eof' \in BOOLEAN /\ scanned' \in Nat
  BY <1>1 DEF PipeInv, TypeInv, AtInv, NothingSkipped, CollectorUp, Newlines
<1> QED BY <1>1, <1>2, KeptByCollector

LEMMA KeptByFillReturns ==
  ASSUME PipeInv, FillReturns
  PROVE  PipeInv'
<1>1. /\ at = "fill" /\ CollectorUp /\ at' = "pop" /\ up = <<>>
      /\ eof' = ~workerUp
      /\ UNCHANGED <<length, down, up, workerNext, workerUp, workerOut, stdio,
                     collectorNext, collectorOut, buf, scanned>>
  BY DEF FillReturns, workerVars, CollectorUp
<1>2. AtInv' /\ NothingSkipped' /\ eof' \in BOOLEAN /\ scanned' \in Nat
  BY <1>1 DEF PipeInv, TypeInv, AtInv, NothingSkipped, CollectorUp, Newlines
<1> QED BY <1>1, <1>2, KeptByCollector

LEMMA KeptByCollectorDies ==
  ASSUME PipeInv, CollectorDies
  PROVE  PipeInv'
<1>1. /\ CollectorUp /\ at' = "gone"
      /\ UNCHANGED <<length, down, up, workerNext, workerUp, workerOut, stdio,
                     collectorNext, collectorOut, buf, scanned, eof>>
  BY DEF CollectorDies, workerVars
<1>2. AtInv' /\ NothingSkipped' /\ eof' \in BOOLEAN /\ scanned' \in Nat
  BY <1>1 DEF PipeInv, TypeInv, AtInv, NothingSkipped, CollectorUp, Newlines
<1> QED BY <1>1, <1>2, KeptByCollector

LEMMA KeptByFillReads ==
  ASSUME PipeInv, FillReads
  PROVE  PipeInv' /\ (buf \o up)' = buf \o up
<1>1. TypeInv /\ OrderInv /\ UpInv /\ DownInv /\ AtInv /\ NothingSkipped
  BY DEF PipeInv
<1> DEFINE n == Min({Len(up), Chunk})
<1>2. /\ at = "fill" /\ buf' = buf \o First(up, n) /\ up' = Without(up, n)
      /\ UNCHANGED <<length, down, workerNext, workerUp, workerOut, stdio,
                     collectorNext, at, collectorOut, scanned, eof>>
  BY DEF FillReads, workerVars
<1>3. buf \in Chars /\ up \in Chars /\ n \in 0 .. Len(up)
  <2>1. buf \in Chars /\ up \in Chars
    BY <1>1 DEF TypeInv
  <2>2. Len(up) \in Nat
    BY <2>1, Concat
  <2> QED BY <2>1, <2>2, Smaller, Bounds
<1> HIDE DEF n
<1>4. /\ buf' \in Chars /\ up' \in Chars /\ (buf \o up)' = buf \o up
      /\ Len(buf) <= Len(buf') /\ Len(buf) \in Nat
      /\ \A k \in 1 .. Len(buf) : buf'[k] = buf[k]
  BY <1>2, <1>3, CharactersMove
<1>5. TypeInv'
  BY <1>1, <1>2, <1>4, Frozen DEF TypeInv
<1>6. OrderInv' /\ UpInv' /\ DownInv' /\ PartDown' = PartDown
  <2>1. (CollectorUp' => CollectorUp) /\ (stdio \o down)' = stdio \o down
    BY <1>2 DEF CollectorUp
  <2> QED BY <1>1, <1>2, <1>4, <2>1, OrderStays, UpStays, DownStays
<1>7. AtInv'
  BY <1>1, <1>2, <1>6 DEF AtInv, CollectorUp
<1>8. NothingSkipped'
  <2>1. scanned \in Nat /\ Len(buf') \in Nat /\ scanned <= Len(buf)
    BY <1>1, <1>4, Concat DEF TypeInv, NothingSkipped
  <2>2. scanned <= Len(buf')
    BY <1>4, <2>1
  <2>3. ASSUME NEW k \in 1 .. scanned PROVE k \notin Newlines(buf')
    <3>1. k \in 1 .. Len(buf) /\ k \in 1 .. Len(buf')
      BY <1>4, <2>1, <2>2
    <3>2. k \notin Newlines(buf)
      BY <1>1 DEF NothingSkipped
    <3>3. buf[k] # NL /\ buf'[k] = buf[k]
      BY <1>3, <1>4, <3>1, <3>2, NewlinesOf
    <3> QED BY <1>4, <3>1, <3>3, NewlinesOf
  <2>4. Newlines(buf)' = Newlines(buf')
    BY DEF Newlines
  <2> QED BY <1>2, <2>2, <2>3, <2>4 DEF NothingSkipped
<1> QED BY <1>4, <1>5, <1>6, <1>7, <1>8 DEF PipeInv

(* When the collector finds a line, it is the one that it waits for. *)
LEMMA PopLineDoes ==
  ASSUME PipeInv, PopLine
  PROVE  /\ at = "pop" /\ at' = at /\ collectorNext' = collectorNext + 1
         /\ workerNext > collectorNext /\ FromWorker(collectorNext)
         /\ buf' \in Chars
         /\ \E p : /\ Begun(p)
                   /\ \/ /\ workerNext = collectorNext + 1
                         /\ buf' \o up = p
                      \/ /\ workerNext = collectorNext + 2
                         /\ buf' \o up = Terminated(collectorNext + 1) \o p
<1>1. /\ TypeInv /\ NothingSkipped /\ at = "pop" /\ CollectorUp /\ Found # {}
      /\ buf \in Chars /\ up \in Chars /\ LengthOK
  BY DEF PipeInv, TypeInv, PopLine, CollectorUp
<1> DEFINE c == collectorNext
           nl == Min(Newlines(buf))
<1>2. Found = Newlines(buf)
  <2>1. \A k \in Newlines(buf) : k \in Nat /\ k >= 1
    BY <1>1, NewlinesOf, Concat
  <2>2. \A k \in Newlines(buf) : k \notin 1 .. scanned /\ scanned \in Nat
    BY <1>1 DEF NothingSkipped, TypeInv
  <2>3. \A k \in Newlines(buf) : k > scanned
    BY <2>1, <2>2
  <2> QED BY <2>3 DEF Found
<1>3. Newlines(buf \o up) # {}
  BY <1>1, <1>2, NewlineRead
<1>4. workerNext > c /\ FromWorker(c)
  BY <1>1, <1>3, CollectorFindsLine
<1>5. PICK p, t : /\ Begun(p) /\ t \in Chars
                  /\ buf \o up = Terminated(c) \o t
                  /\ \/ workerNext = c + 1 /\ t = p
                     \/ workerNext = c + 2 /\ t = Terminated(c + 1) \o p
  BY <1>1, <1>3, CollectorFindsLine
<1>6. c \in 1 .. LastLine /\ c # 0
  BY <1>4, Turns
<1>7. /\ First(buf, nl - 1) = Text(c) /\ Without(buf, nl) \in Chars
      /\ Without(buf, nl) \o up = t
  <2>1. Holds(buf, up, c, t)
    BY <1>1, <1>2, <1>5, <1>6 DEF Holds
  <2>2. Yields(buf, up, c, t)
    BY <1>1, <2>1, FirstLine
  <2> QED BY <2>2 DEF Yields
<1>8. LineOf(First(buf, nl - 1)) = c
  BY <1>1, <1>6, <1>7, LineOfText
<1>9. /\ buf' = Without(buf, nl)
      /\ collectorNext' = LineOf(First(buf, nl - 1)) + 1
      /\ at' = IF LineOf(First(buf, nl - 1)) = 0 THEN "gone" ELSE at
  BY <1>2 DEF PopLine
<1> HIDE DEF nl
<1>10. buf' \in Chars /\ buf' \o up = t /\ collectorNext' = c + 1 /\ at' = at
  BY <1>6, <1>7, <1>8, <1>9
<1> QED BY <1>1, <1>4, <1>5, <1>10

LEMMA KeptByPopLine ==
  ASSUME PipeInv, PopLine
  PROVE  PipeInv'
<1>1. TypeInv /\ OrderInv /\ UpInv /\ DownInv /\ AtInv /\ NothingSkipped
  BY DEF PipeInv
<1> DEFINE w == workerNext
           c == collectorNext
<1>2. /\ at = "pop" /\ at' = at /\ collectorNext' = c + 1
      /\ w > c /\ FromWorker(c) /\ buf' \in Chars
  BY PopLineDoes
<1>3. PICK p : /\ Begun(p)
               /\ \/ w = c + 1 /\ buf' \o up = p
                  \/ w = c + 2 /\ buf' \o up = Terminated(c + 1) \o p
  BY PopLineDoes
<1>4. /\ scanned' = 0 /\ CollectorUp
      /\ UNCHANGED <<length, down, up, workerNext, workerUp, workerOut, stdio,
                     collectorOut, eof>>
  BY <1>2 DEF PopLine, ScannedAfterLine, workerVars, CollectorUp
<1>5. /\ w \in Nat /\ c \in Nat /\ w <= LastLine + 1 /\ LastLine \in Nat
      /\ c >= 1 /\ c + 1 \in 1 .. LastLine
  BY <1>1, <1>2, Counters, Turns
<1>6. TypeInv'
  <2>1. collectorNext' \in 1 .. LastLine + 1
    BY <1>2, <1>5
  <2> QED BY <1>1, <1>2, <1>4, <2>1, Frozen DEF TypeInv
<1>7. OrderInv'
  <2>1. \A i \in collectorNext' .. workerNext' - 1 : i \in c .. w - 1
    BY <1>2, <1>4, <1>5
  <2>2. ~(workerNext' < collectorNext')
    BY <1>2, <1>4, <1>5
  <2> QED BY <1>1, <1>4, <2>1, <2>2 DEF OrderInv
<1>8. UpInv'
  <2>1. Begun(p)'
    BY <1>3, <1>4, Frozen DEF Begun
  <2>2. Ahead(buf \o up, p)'
    <3>1. CASE w = c + 1 /\ buf' \o up = p
      <4>1. workerNext' <= collectorNext' /\ (buf \o up)' = p
        BY <1>2, <1>4, <1>5, <3>1
      <4> QED BY <4>1 DEF Ahead
    <3>2. CASE w = c + 2 /\ buf' \o up = Terminated(c + 1) \o p
      <4>1. Terminated(collectorNext)' = Terminated(c + 1)
        BY <1>2, <1>4 DEF Terminated, Text
      <4>2. /\ workerNext' = collectorNext' + 1
            /\ (buf \o up)' = Terminated(collectorNext)' \o p
        BY <1>2, <1>4, <1>5, <3>2, <4>1
      <4> QED BY <4>2 DEF Ahead
    <3> QED BY <1>3, <3>1, <3>2
  <2>3. workerOut' # <<>> => FromWorker(workerNext')
    BY <1>1, <1>4 DEF UpInv
  <2> QED BY <2>1, <2>2, <2>3 DEF UpInv
<1>9. DownInv'
  <2>1. CASE workerUp
    <3>1. ~LineDown /\ ~PartDown
      BY <1>2, <1>5 DEF LineDown, PartDown
    <3>2. NothingDown
      BY <1>1, <2>1, <3>1 DEF DownInv
    <3>3. workerNext' >= collectorNext' /\ (stdio \o down)' = <<>>
      BY <1>2, <1>4, <1>5, <3>2 DEF NothingDown
    <3> QED BY <3>3 DEF DownInv, NothingDown
  <2>2. CASE ~workerUp
    BY <1>4, <2>2 DEF DownInv
  <2> QED BY <2>1, <2>2
<1>10. AtInv'
  BY <1>1, <1>2, <1>4 DEF AtInv, CollectorUp
<1>11. NothingSkipped'
  <2>1. 0 <= Len(buf') /\ 1 .. 0 = {}
    BY <1>2, Concat
  <2> QED BY <1>2, <1>4, <2>1 DEF NothingSkipped
<1> QED BY <1>6, <1>7, <1>8, <1>9, <1>10, <1>11 DEF PipeInv

(* When nothing is left, the collector writes only if it is its turn. *)
LEMMA KeptByPopNothing ==
  ASSUME PipeInv, PopNothing
  PROVE  PipeInv'
<1>1. TypeInv /\ OrderInv /\ UpInv /\ DownInv /\ AtInv /\ NothingSkipped
  BY DEF PipeInv
<1> DEFINE c == collectorNext
<1>2. /\ at = "pop" /\ CollectorUp
      /\ UNCHANGED <<length, down, up, workerNext, workerUp, workerOut, stdio,
                     collectorNext, buf, eof>>
  BY DEF PopNothing, workerVars, CollectorUp
<1>3. buf \in Chars /\ Len(buf) \in Nat /\ scanned \in Nat
  BY <1>1, Concat DEF TypeInv
<1>4. CASE /\ AfterLines /\ at' = "gone" /\ UNCHANGED <<collectorOut, scanned>>
  <2>1. AtInv' /\ NothingSkipped' /\ eof' \in BOOLEAN /\ scanned' \in Nat
    BY <1>1, <1>2, <1>4
       DEF TypeInv, AtInv, NothingSkipped, CollectorUp, Newlines
  <2> QED BY <1>2, <1>4, <2>1, KeptByCollector
<1>5. CASE ~eof /\ Found = {} /\ scanned' = Len(buf)
  <2>1. Newlines(buf) = {}
    <3>1. SUFFICES ASSUME NEW k \in Newlines(buf) PROVE FALSE
      OBVIOUS
    <3>2. k \in Nat /\ k >= 1 /\ k \notin 1 .. scanned
      BY <1>1, <1>3, <3>1, NewlinesOf DEF NothingSkipped
    <3>3. k > scanned
      BY <1>3, <3>2
    <3> QED BY <1>5, <3>3 DEF Found
  <2>2. NothingSkipped'
    <3>1. Newlines(buf)' = {} /\ Len(buf)' = Len(buf)
      BY <1>2, <2>1 DEF Newlines
    <3> QED BY <1>3, <1>5, <3>1 DEF NothingSkipped
  <2>3. CASE ~ToWorker(c)
    <3>1. at' = "poll" /\ collectorOut' = collectorOut
      BY <1>5, <2>3 DEF PopNothing, AfterLines
    <3>2. AtInv' /\ eof' \in BOOLEAN /\ scanned' \in Nat
      BY <1>1, <1>2, <1>3, <1>5, <3>1 DEF TypeInv, AtInv, CollectorUp
    <3> QED BY <1>2, <2>2, <3>1, <3>2, KeptByCollector
  <2>4. CASE ToWorker(c)
    <3>1. at' = "write" /\ collectorOut' = Terminated(c)
      BY <1>5, <2>4 DEF PopNothing, AfterLines
    <3>2. /\ c \in 1 .. LastLine /\ ~FromWorker(c) /\ LengthOK
          /\ workerNext \in Nat /\ c \in Nat
      BY <1>1, <2>4, Turns, Counters DEF TypeInv
    <3>3. Terminated(c) \in Chars /\ Terminated(c) # <<>>
      BY <3>2, TerminatedTexts
    <3>4. workerNext = c
      <4>1. ~(workerNext > c)
        <5>1. workerNext > c => c \in c .. workerNext - 1
          BY <3>2
        <5> QED BY <1>1, <1>2, <3>2, <5>1 DEF OrderInv
      <4>2. ~(workerNext < c)
        BY <1>1, <1>2, <2>4, Turns DEF OrderInv
      <4> QED BY <3>2, <4>1, <4>2
    <3>5. workerUp => stdio \o down = <<>>
      <4>1. ~LineDown
        BY <3>2, <3>4 DEF LineDown
      <4>2. workerUp => ~PartDown
        BY <1>1, <1>2 DEF AtInv, PartDown
      <4> QED BY <1>1, <4>1, <4>2 DEF DownInv, NothingDown
    <3>6. workerUp' => PartDown'
      <4>1. SUFFICES ASSUME workerUp' PROVE PartDown'
        OBVIOUS
      <4>2. (stdio \o down)' = <<>>
        BY <1>2, <3>5, <4>1
      <4>3. Terminated(collectorNext)' = Terminated(c)
        BY <1>2 DEF Terminated, Text
      <4>4. (stdio \o down)' \o collectorOut' = Terminated(c)
        BY <3>1, <3>3, <4>2, Concat
      <4>5. /\ collectorNext' = workerNext' /\ ToWorker(collectorNext')
            /\ collectorOut' # <<>>
        BY <1>2, <2>4, <3>1, <3>3, <3>4
      <4> QED BY <4>3, <4>4, <4>5 DEF PartDown
    <3>7. TypeInv'
      BY <1>1, <1>2, <1>3, <1>5, <3>1, <3>3, Frozen DEF TypeInv
    <3>8. OrderInv' /\ UpInv'
      <4>1. (CollectorUp' => CollectorUp) /\ (buf \o up)' = buf \o up
        BY <1>2
      <4> QED BY <1>1, <1>2, <4>1, OrderStays, UpStays
    <3>9. DownInv'
      BY <3>6 DEF DownInv
    <3>10. AtInv'
      <4>1. ToWorker(collectorNext') /\ collectorOut' # <<>> /\ ~eof'
        BY <1>2, <1>5, <2>4, <3>1, <3>3
      <4> QED BY <3>1, <3>6, <4>1 DEF AtInv
    <3> QED BY <2>2, <3>7, <3>8, <3>9, <3>10 DEF PipeInv
  <2> QED BY <2>3, <2>4
<1> QED BY <1>4, <1>5 DEF PopNothing

LEMMA PipeStep ==
  ASSUME PipeInv, [Next]_vars
  PROVE  PipeInv'
<1>1. CASE WorkerBegins
  BY <1>1, KeptByWorkerBegins
<1>2. CASE WorkerWrites
  BY <1>2, KeptByWorkerWrites
<1>3. CASE EndOfWorker
  BY <1>3, KeptByEndOfWorker
<1>4. CASE ReadLine
  BY <1>4, KeptByReadLine
<1>5. CASE FillStdio
  BY <1>5, KeptByFillStdio
<1>6. CASE ReadUnterminated
  BY <1>6, KeptByReadUnterminated
<1>7. CASE CollectorWrites
  BY <1>7, KeptByCollectorWrites
<1>8. CASE SendFails
  BY <1>8, KeptBySendFails
<1>9. CASE Poll
  BY <1>9, KeptByPoll
<1>10. CASE FillReads
  BY <1>10, KeptByFillReads
<1>11. CASE FillReturns
  BY <1>11, KeptByFillReturns
<1>12. CASE PopLine
  BY <1>12, KeptByPopLine
<1>13. CASE PopNothing
  BY <1>13, KeptByPopNothing
<1>14. CASE CollectorDies
  BY <1>14, KeptByCollectorDies
<1>15. CASE UNCHANGED vars
  <2>1. UNCHANGED <<length, down, up, workerNext, workerUp, workerOut, stdio,
                    collectorNext, at, collectorOut, buf, scanned, eof>>
    BY <1>15 DEF vars, workerVars, collectorVars
  <2>2. TypeInv /\ OrderInv /\ UpInv /\ DownInv /\ AtInv /\ NothingSkipped
    BY DEF PipeInv
  <2>3. TypeInv'
    BY <2>1, <2>2, Frozen DEF TypeInv
  <2>4. OrderInv' /\ UpInv' /\ DownInv' /\ PartDown' = PartDown
    <3>1. /\ CollectorUp' => CollectorUp
          /\ (buf \o up)' = buf \o up /\ (stdio \o down)' = stdio \o down
      BY <2>1 DEF CollectorUp
    <3> QED BY <2>1, <2>2, <3>1, OrderStays, UpStays, DownStays
  <2>5. AtInv' /\ NothingSkipped'
    BY <2>1, <2>2, <2>4 DEF AtInv, NothingSkipped, CollectorUp, Newlines
  <2> QED BY <2>3, <2>4, <2>5 DEF PipeInv
<1> QED
  BY <1>1, <1>2, <1>3, <1>4, <1>5, <1>6, <1>7, <1>8, <1>9, <1>10, <1>11,
     <1>12, <1>13, <1>14, <1>15
     DEF Next, Worker, Collector, Stay, WorkerCannotWrite, ReadEof,
         WorkerExits, WorkerDies

LEMMA PipeInvariant ==
  Spec => []PipeInv
BY InitialPipe, PipeStep, PTL DEF Spec

(* popLine skips no line although it never searches a character twice, and *)
(* the collector neither polls nor writes while a complete line is in its  *)
(* buffer.                                                                 *)
THEOREM NoLineIsSkipped ==
  Spec => []NothingSkipped
<1>1. PipeInv => NothingSkipped
  BY DEF PipeInv
<1> QED BY <1>1, PipeInvariant, PTL

-----------------------------------------------------------------------------
(* LinePipe implements LineChannel: every step is a step of the channel,   *)
(* or none.                                                                *)

LEMMA Mapping ==
  PipeInv => UpIs /\ DownIs
  BY LinesUpAre, LinesDownAre

LEMMA MappingAfter ==
  PipeInv' => UpIs' /\ DownIs'
  BY Mapping, PTL

(* Characters move, and no line does. *)
LEMMA MappingStays ==
  ASSUME PipeInv, PipeInv', workerUp' = workerUp, CollectorUp' = CollectorUp,
         workerNext' = workerNext, collectorNext' = collectorNext,
         killed' = killed,
         \/ CollectorUp
         \/ /\ PartDown' = PartDown
            /\ LineOf(stdio \o down)' = LineOf(stdio \o down)
  PROVE  UNCHANGED Channel!channelVars
<1>1. UpIs /\ DownIs /\ UpIs' /\ DownIs'
  BY Mapping, MappingAfter
<1>2. LinesUp' = LinesUp
  BY <1>1 DEF UpIs
<1>3. LinesDown' = LinesDown
  BY <1>1 DEF DownIs
<1> QED BY <1>2, <1>3 DEF Channel!channelVars

LEMMA WorkerEndsImplements ==
  ASSUME PipeInv, PipeInv', EndOfWorker
  PROVE  /\ Channel!WorkerGone
         /\ UNCHANGED <<workerNext, collectorNext, LinesUp, CollectorUp>>
<1>1. UpIs /\ UpIs' /\ DownIs'
  BY Mapping, MappingAfter
<1>2. /\ workerUp' = FALSE /\ CollectorUp' = CollectorUp
      /\ UNCHANGED <<workerNext, collectorNext>>
  BY DEF EndOfWorker, collectorVars, CollectorUp
<1>3. LinesUp' = LinesUp
  BY <1>1, <1>2 DEF UpIs
<1>4. LinesDown' = <<>>
  BY <1>1, <1>2 DEF DownIs
<1> QED BY <1>2, <1>3, <1>4 DEF Channel!WorkerGone

LEMMA ReadingImplements ==
  ASSUME PipeInv, PipeInv', ReadLine \/ ReadUnterminated
  PROVE  Channel!WorkerActs
<1>1. UpIs /\ DownIs /\ UpIs' /\ DownIs' /\ TypeInv /\ TypeInv'
  BY Mapping, MappingAfter DEF PipeInv
<1>2. /\ workerUp /\ CollectorUp' = CollectorUp /\ killed' = killed
      /\ collectorNext' = collectorNext /\ down' = down /\ length' = length
  BY DEF ReadLine, ReadUnterminated, AtEof, Reading, Returns, collectorVars,
         CollectorUp
<1>3. workerNext \in Nat /\ collectorNext \in Nat
  BY <1>1, Counters
<1>4. LineOf(<<>>) = 0 /\ LineOf(<<>>)' = 0
  <2>1. LineOf(<<>>) = 0
    BY <1>1, Turns, LineOfText DEF TypeInv
  <2> QED BY <1>2, <2>1, Frozen
<1>5. \A i : <<i>> # <<>> /\ Head(<<i>>) = i /\ Tail(<<i>>) = <<>>
  OBVIOUS
<1>6. CASE ReadLine
  <2>1. /\ LineDown /\ workerUp' = workerUp /\ workerNext' = workerNext + 1
        /\ stdio' \o down = <<>>
    BY <1>6, ReadLineDoes
  <2>2. collectorNext = workerNext + 1
    BY <2>1 DEF LineDown
  <2>3. LinesDown = <<workerNext>>
    BY <1>1, <1>2, <2>2 DEF DownIs
  <2>4. LinesDown' = <<>>
    <3>1. LineOf(stdio \o down)' = 0
      <4>1. (stdio \o down)' = <<>>
        BY <1>2, <2>1
      <4> QED BY <1>4, <4>1 DEF LineOf, Text
    <3>2. collectorNext' # workerNext' + 1
      BY <1>2, <1>3, <2>1, <2>2
    <3> QED BY <1>1, <3>1, <3>2 DEF DownIs
  <2>5. LinesUp = <<>> /\ LinesUp' = <<>>
    <3>1. workerNext <= collectorNext /\ workerNext' <= collectorNext'
      BY <1>2, <1>3, <2>1, <2>2
    <3> QED BY <1>1, <3>1 DEF UpIs
  <2>6. Channel!WorkerReceives
    BY <1>2, <1>5, <2>1, <2>3, <2>4, <2>5 DEF Channel!WorkerReceives
  <2> QED BY <2>6 DEF Channel!WorkerActs
<1>7. CASE ReadUnterminated
  <2>1. /\ ~CollectorUp /\ PartDown /\ stdio \o down = stdio
        /\ stdio' \o down = <<>>
        /\ \/ LineOf(stdio) = 0 /\ ~workerUp' /\ workerNext' = workerNext
           \/ /\ LineOf(stdio) = collectorNext /\ workerUp'
              /\ workerNext' = collectorNext + 1
    BY <1>7, ReadUnterminatedDoes
  <2>2. LinesUp = <<>> /\ LinesUp' = <<>>
    BY <1>1, <1>2, <2>1 DEF UpIs
  <2>3. CASE LineOf(stdio) = 0 /\ ~workerUp' /\ workerNext' = workerNext
    <3>1. LinesDown' = <<>> /\ workerUp' = FALSE
      BY <1>1, <2>3 DEF DownIs, TypeInv
    <3>2. Channel!WorkerEnds
      BY <1>2, <2>1, <2>2, <2>3, <3>1
         DEF Channel!WorkerEnds, Channel!WorkerGone
    <3> QED BY <3>2 DEF Channel!WorkerActs
  <2>4. CASE /\ LineOf(stdio) = collectorNext /\ workerUp'
             /\ workerNext' = collectorNext + 1
    <3>1. /\ workerNext = collectorNext /\ collectorNext # 0
          /\ collectorNext # workerNext + 1
      BY <1>1, <1>3, <2>1, Counters DEF PartDown
    <3>2. LineOf(stdio \o down) # 0
      BY <2>1, <2>4, <3>1
    <3>3. LinesDown = <<collectorNext>>
      BY <1>1, <1>2, <2>1, <3>1, <3>2 DEF DownIs
    <3>4. LinesDown' = <<>>
      <4>1. LineOf(stdio \o down)' = 0
        <5>1. (stdio \o down)' = <<>>
          BY <1>2, <2>1
        <5> QED BY <1>4, <5>1 DEF LineOf, Text
      <4>2. collectorNext' # workerNext' + 1
        BY <1>2, <1>3, <2>4
      <4> QED BY <1>1, <4>1, <4>2 DEF DownIs
    <3>5. workerUp' = workerUp
      BY <1>1, <1>2, <2>4 DEF TypeInv
    <3>6. Channel!WorkerReceives
      BY <1>2, <1>5, <2>2, <2>4, <3>3, <3>4, <3>5 DEF Channel!WorkerReceives
    <3> QED BY <3>6 DEF Channel!WorkerActs
  <2> QED BY <2>1, <2>3, <2>4
<1> QED BY <1>6, <1>7

LEMMA FromWorkerIs ==
  /\ \A i : FromWorker(i) <=> Channel!FromWorker(i)
  /\ \A i : ToWorker(i) <=> Channel!ToWorker(i)
  BY DEF FromWorker, ToWorker

LEMMA WorkerWritesImplements ==
  ASSUME PipeInv, PipeInv', WorkerWrites
  PROVE  Channel!WorkerSends \/ UNCHANGED Channel!channelVars
<1> DEFINE w == workerNext
           c == collectorNext
<1>1. UpIs /\ DownIs /\ UpIs' /\ DownIs' /\ TypeInv /\ UpInv
  BY Mapping, MappingAfter DEF PipeInv
<1>2. /\ workerUp /\ workerUp' = workerUp /\ CollectorUp
      /\ CollectorUp' = CollectorUp /\ killed' = killed
      /\ collectorNext' = c /\ workerOut # <<>>
      /\ workerNext' = IF workerOut' = <<>> THEN w + 1 ELSE w
  BY DEF WorkerWrites, collectorVars, CollectorUp
<1>3. w \in Nat /\ c \in Nat /\ FromWorker(w) /\ (w = c \/ w = c + 1)
  BY <1>1, <1>2, Counters, WorkerIsNear DEF UpInv
<1>4. CASE workerNext' = w
  BY <1>2, <1>4, MappingStays
<1>5. CASE workerNext' = w + 1
  <2>1. LinesDown = <<>> /\ LinesDown' = <<>>
    <3>1. c # w + 1 /\ collectorNext' # workerNext' + 1
      BY <1>2, <1>3, <1>5
    <3> QED BY <1>1, <1>2, <3>1 DEF DownIs
  <2>2. CASE w = c
    <3>1. /\ w <= c /\ ~(workerNext' <= collectorNext')
          /\ workerNext' = collectorNext' + 1
      BY <1>2, <1>3, <1>5, <2>2
    <3>2. LinesUp = <<>> /\ LinesUp' = <<c>>
      BY <1>1, <1>2, <3>1 DEF UpIs
    <3>3. Append(<<>>, c) = <<c>>
      OBVIOUS
    <3>4. LinesUp' = Append(LinesUp, w)
      BY <2>2, <3>2, <3>3
    <3> QED BY <1>2, <1>3, <1>5, <2>1, <3>4, FromWorkerIs
            DEF Channel!WorkerSends
  <2>3. CASE w = c + 1
    <3>1. /\ ~(w <= c) /\ ~(workerNext' <= collectorNext')
          /\ workerNext' # collectorNext' + 1
      BY <1>2, <1>3, <1>5, <2>3
    <3>2. LinesUp = <<c>> /\ LinesUp' = <<c, c + 1>>
      BY <1>1, <1>2, <2>3, <3>1 DEF UpIs
    <3>3. Append(<<c>>, c + 1) = <<c, c + 1>>
      <4>1. c \in Nat /\ c + 1 \in Nat
        BY <1>3
      <4> HIDE DEF c
      <4> QED BY <4>1, TwoLines
    <3>4. LinesUp' = Append(LinesUp, w)
      BY <2>3, <3>2, <3>3
    <3> QED BY <1>2, <1>3, <1>5, <2>1, <3>4, FromWorkerIs
            DEF Channel!WorkerSends
  <2> QED BY <1>3, <2>2, <2>3
<1> QED BY <1>2, <1>4, <1>5

LEMMA CollectorWritesImplements ==
  ASSUME PipeInv, PipeInv', CollectorWrites
  PROVE  Channel!CollectorSends \/ UNCHANGED Channel!channelVars
<1> DEFINE c == collectorNext
<1>1. UpIs /\ DownIs /\ UpIs' /\ DownIs'
  BY Mapping, MappingAfter
<1>2. /\ at = "write" /\ workerUp /\ workerUp' = workerUp /\ killed' = killed
      /\ workerNext' = workerNext /\ CollectorUp' /\ CollectorUp
      /\ collectorNext' = IF collectorOut' = <<>> THEN c + 1 ELSE c
  BY DEF CollectorWrites, workerVars, CollectorUp
<1>3. workerNext = c /\ ToWorker(c) /\ c \in Nat
  BY <1>2, WriteState
<1>4. CASE collectorNext' = c
  <2>1. CollectorUp' = CollectorUp
    BY <1>2 DEF CollectorUp
  <2> QED BY <1>2, <1>4, <2>1, MappingStays
<1>5. CASE collectorNext' = c + 1
  <2>1. LinesDown = <<>> /\ LinesDown' = <<c>>
    <3>1. c # workerNext + 1 /\ collectorNext' = workerNext' + 1
      BY <1>2, <1>3, <1>5
    <3> QED BY <1>1, <1>2, <1>3, <3>1 DEF DownIs
  <2>2. LinesUp = <<>> /\ LinesUp' = <<>>
    <3>1. workerNext <= c /\ workerNext' <= collectorNext'
      BY <1>2, <1>3, <1>5
    <3> QED BY <1>1, <3>1 DEF UpIs
  <2>3. Append(<<>>, c) = <<c>>
    OBVIOUS
  <2>4. CollectorUp' = CollectorUp
    BY <1>2 DEF CollectorUp
  <2> QED BY <1>2, <1>3, <1>5, <2>1, <2>2, <2>3, <2>4, FromWorkerIs
          DEF Channel!CollectorSends
<1> QED BY <1>2, <1>4, <1>5

LEMMA PopLineImplements ==
  ASSUME PipeInv, PipeInv', PopLine
  PROVE  Channel!CollectorReceives
<1> DEFINE w == workerNext
           c == collectorNext
<1>1. UpIs /\ DownIs /\ UpIs' /\ DownIs' /\ TypeInv
  BY Mapping, MappingAfter DEF PipeInv
<1>2. /\ at' = at /\ collectorNext' = c + 1 /\ CollectorUp
      /\ CollectorUp' = CollectorUp
      /\ w = c + 1 \/ w = c + 2
  <2>1. at = "pop" /\ at' = at /\ collectorNext' = c + 1
    BY PopLineDoes
  <2>2. w = c + 1 \/ w = c + 2
    BY PopLineDoes
  <2> QED BY <2>1, <2>2 DEF CollectorUp
<1>3. workerNext' = w /\ workerUp' = workerUp /\ killed' = killed
  BY DEF PopLine, workerVars
<1>4. w \in Nat /\ c \in Nat
  BY <1>1, Counters
<1>5. LinesDown = <<>> /\ LinesDown' = <<>>
  <2>1. c # w + 1 /\ collectorNext' # workerNext' + 1
    BY <1>2, <1>3, <1>4
  <2> QED BY <1>1, <1>2, <2>1 DEF DownIs
<1>6. LinesUp # <<>> /\ c = Head(LinesUp) /\ LinesUp' = Tail(LinesUp)
  <2>1. CASE w = c + 1
    <3>1. ~(w <= c) /\ workerNext' <= collectorNext'
      BY <1>2, <1>3, <1>4, <2>1
    <3>2. LinesUp = <<c>> /\ LinesUp' = <<>>
      BY <1>1, <1>2, <2>1, <3>1 DEF UpIs
    <3> QED BY <3>2
  <2>2. CASE w = c + 2
    <3>1. /\ ~(w <= c) /\ w # c + 1 /\ ~(workerNext' <= collectorNext')
          /\ workerNext' = collectorNext' + 1
      BY <1>2, <1>3, <1>4, <2>2
    <3>2. LinesUp = <<c, c + 1>> /\ LinesUp' = <<c + 1>>
      BY <1>1, <1>2, <3>1 DEF UpIs
    <3> QED BY <3>2
  <2> QED BY <1>2, <2>1, <2>2
<1> QED BY <1>2, <1>3, <1>5, <1>6 DEF Channel!CollectorReceives

(* The collector gives a worker up when it is gone. *)
LEMMA GoneImplements ==
  ASSUME PipeInv, PipeInv', CollectorUp, ~CollectorUp', ~workerUp,
         workerUp' = workerUp, LinesUp = <<>>,
         UNCHANGED <<workerNext, collectorNext, killed>>
  PROVE  Channel!CollectorSeesEnd
<1>1. UpIs' /\ DownIs /\ DownIs'
  BY Mapping, MappingAfter
<1>2. LinesUp' = <<>> /\ LinesDown = <<>> /\ LinesDown' = <<>>
  BY <1>1 DEF UpIs, DownIs
<1>3. CollectorUp' = FALSE
  BY DEF CollectorUp
<1> QED BY <1>2, <1>3 DEF Channel!CollectorSeesEnd

LEMMA SendFailsImplements ==
  ASSUME PipeInv, PipeInv', SendFails
  PROVE  Channel!CollectorSeesEnd \/ UNCHANGED Channel!channelVars
<1>1. /\ at = "write" /\ CollectorUp /\ ~workerUp /\ workerUp' = workerUp
      /\ UNCHANGED <<workerNext, collectorNext, killed>>
      /\ at' \in {"poll", "gone"}
  BY DEF SendFails, workerVars, CollectorUp
<1>2. CASE at' = "poll"
  <2>1. CollectorUp' = CollectorUp
    BY <1>1, <1>2 DEF CollectorUp
  <2> QED BY <1>1, <2>1, MappingStays
<1>3. CASE at' = "gone"
  <2>1. TypeInv /\ OrderInv /\ AtInv /\ UpIs
    BY Mapping DEF PipeInv
  <2>2. workerNext \in Nat /\ collectorNext \in Nat /\ ~FromWorker(collectorNext)
    BY <1>1, <2>1, Counters, Turns DEF AtInv
  <2>3. workerNext <= collectorNext
    <3>1. ~(workerNext <= collectorNext) =>
            collectorNext \in collectorNext .. workerNext - 1
      BY <2>2
    <3> QED BY <1>1, <2>1, <2>2, <3>1 DEF OrderInv
  <2>4. LinesUp = <<>> /\ ~CollectorUp'
    BY <1>3, <2>1, <2>3 DEF UpIs, CollectorUp
  <2> QED BY <1>1, <2>4, GoneImplements
<1> QED BY <1>1, <1>2, <1>3

LEMMA PopNothingImplements ==
  ASSUME PipeInv, PipeInv', PopNothing
  PROVE  Channel!CollectorSeesEnd \/ UNCHANGED Channel!channelVars
<1>1. /\ at = "pop" /\ CollectorUp /\ workerUp' = workerUp
      /\ UNCHANGED <<workerNext, collectorNext, killed>>
  BY DEF PopNothing, workerVars, CollectorUp
<1>2. CASE AfterLines /\ at' = "gone"
  <2>1. TypeInv /\ AtInv /\ NothingSkipped /\ eof /\ Found = {}
    BY <1>2 DEF PipeInv, AfterLines
  <2>2. ~workerUp /\ up = <<>> /\ buf \in Chars /\ scanned \in Nat
    BY <1>1, <2>1 DEF AtInv, TypeInv
  <2>3. Newlines(buf) = {}
    <3>1. SUFFICES ASSUME NEW k \in Newlines(buf) PROVE FALSE
      OBVIOUS
    <3>2. k \in Nat /\ k >= 1 /\ k \notin 1 .. scanned
      BY <2>1, <2>2, <3>1, NewlinesOf, Concat DEF NothingSkipped
    <3>3. k > scanned
      BY <2>2, <3>2
    <3> QED BY <2>1, <3>3 DEF Found
  <2>4. buf \o up = buf
    BY <2>2, Concat, Empty
  <2>5. LinesUp = <<>>
    BY <1>1, <2>2, <2>3, <2>4, LinesOfNone DEF LinesUp
  <2>6. ~CollectorUp'
    BY <1>2 DEF CollectorUp
  <2> QED BY <1>1, <2>2, <2>5, <2>6, GoneImplements
<1>3. CASE at' \in {"write", "poll"}
  <2>1. CollectorUp' = CollectorUp
    BY <1>1, <1>3 DEF CollectorUp
  <2> QED BY <1>1, <2>1, MappingStays
<1> QED BY <1>2, <1>3 DEF PopNothing

LEMMA CollectorDiesImplements ==
  ASSUME PipeInv, PipeInv', CollectorDies
  PROVE  Channel!CollectorDies
<1>1. UpIs' /\ DownIs /\ DownIs' /\ DownInv
  BY Mapping, MappingAfter DEF PipeInv
<1>2. /\ CollectorUp /\ CollectorUp' = FALSE
      /\ killed' = killed \cup {"collector"}
      /\ UNCHANGED <<workerNext, collectorNext, workerUp>>
  BY DEF CollectorDies, workerVars, CollectorUp
<1>3. LinesUp' = <<>>
  BY <1>1, <1>2 DEF UpIs
<1>4. /\ PartDown' = PartDown
      /\ LineOf(stdio \o down)' = LineOf(stdio \o down)
  <2>1. /\ (stdio \o down)' = stdio \o down /\ length' = length
        /\ workerUp' => workerUp /\ collectorOut' = collectorOut
    BY DEF CollectorDies, workerVars
  <2>2. LineOf(stdio \o down)' = LineOf(stdio \o down)
    BY <2>1 DEF LineOf, Text
  <2> QED BY <1>1, <1>2, <2>1, <2>2, DownStays DEF CollectorDies
<1>5. \/ LinesDown' = LinesDown
      \/ /\ workerUp /\ ToWorker(collectorNext)
         /\ LinesDown' = Append(LinesDown, collectorNext)
  <2>1. CASE /\ workerUp /\ collectorNext # workerNext + 1
             /\ PartDown /\ LineOf(stdio \o down) # 0
    <3>1. LinesDown = <<>> /\ LinesDown' = <<collectorNext>>
      BY <1>1, <1>2, <1>4, <2>1 DEF DownIs
    <3>2. Append(<<>>, collectorNext) = <<collectorNext>>
      OBVIOUS
    <3> QED BY <2>1, <3>1, <3>2 DEF PartDown
  <2>2. CASE ~(/\ workerUp /\ collectorNext # workerNext + 1
               /\ PartDown /\ LineOf(stdio \o down) # 0)
    BY <1>1, <1>2, <1>4, <2>2 DEF DownIs
  <2> QED BY <2>1, <2>2
<1> QED BY <1>2, <1>3, <1>5, FromWorkerIs DEF Channel!CollectorDies

LEMMA StepImplements ==
  ASSUME PipeInv, PipeInv', [Next]_vars
  PROVE  [Channel!ChannelNext]_(Channel!channelVars)
<1> USE DEF Channel!ChannelNext, Channel!WorkerActs, Channel!CollectorActs
<1>0. DownInv
  BY DEF PipeInv
<1>1. CASE WorkerBegins
  <2>1. /\ UNCHANGED <<length, workerNext, collectorNext, workerUp, at, stdio,
                       down, collectorOut, killed>>
        /\ (stdio \o down)' = stdio \o down
    BY <1>1 DEF WorkerBegins, collectorVars
  <2>2. PartDown' = PartDown
    BY <1>0, <2>1, DownStays
  <2>3. LineOf(stdio \o down)' = LineOf(stdio \o down)
    BY <2>1 DEF LineOf, Text
  <2>4. CollectorUp' = CollectorUp
    BY <2>1 DEF CollectorUp
  <2> QED BY <2>1, <2>2, <2>3, <2>4, MappingStays
<1>2. CASE WorkerWrites
  BY <1>2, WorkerWritesImplements
<1>3. CASE WorkerCannotWrite \/ ReadEof \/ WorkerExits
  <2>1. /\ EndOfWorker /\ workerUp /\ killed' = killed
        /\ workerNext = LastLine + 1 \/ ~CollectorUp
    BY <1>3 DEF WorkerCannotWrite, ReadEof, AtEof, Reading, WorkerExits
  <2>2. Channel!WorkerEnds
    BY <2>1, WorkerEndsImplements DEF Channel!WorkerEnds, LastLine
  <2> QED BY <2>2
<1>4. CASE ReadLine \/ ReadUnterminated
  BY <1>4, ReadingImplements
<1>5. CASE FillStdio
  <2>1. /\ UNCHANGED <<length, workerNext, collectorNext, workerUp, at,
                       collectorOut, killed>>
        /\ (stdio \o down)' = stdio \o down
    BY <1>5, KeptByFillStdio DEF FillStdio, collectorVars
  <2>2. PartDown' = PartDown
    BY <1>0, <2>1, DownStays
  <2>3. LineOf(stdio \o down)' = LineOf(stdio \o down)
    BY <2>1 DEF LineOf, Text
  <2>4. CollectorUp' = CollectorUp
    BY <2>1 DEF CollectorUp
  <2> QED BY <2>1, <2>2, <2>3, <2>4, MappingStays
<1>6. CASE CollectorWrites
  BY <1>6, CollectorWritesImplements
<1>7. CASE SendFails
  BY <1>7, SendFailsImplements
<1>8. CASE Poll \/ FillReads \/ FillReturns
  <2>1. /\ at \in {"poll", "fill"} /\ at' \in {"fill", "pop"}
        /\ UNCHANGED <<workerNext, collectorNext, workerUp, killed>>
    BY <1>8 DEF Poll, FillReads, FillReturns, workerVars
  <2>2. CollectorUp /\ CollectorUp' = CollectorUp
    BY <2>1 DEF CollectorUp
  <2> QED BY <2>1, <2>2, MappingStays
<1>9. CASE PopLine
  BY <1>9, PopLineImplements
<1>10. CASE PopNothing
  BY <1>10, PopNothingImplements
<1>11. CASE WorkerDies
  <2>1. /\ EndOfWorker /\ workerUp /\ killed' = killed \cup {"worker"}
    BY <1>11 DEF WorkerDies
  <2>2. Channel!WorkerDies
    BY <2>1, WorkerEndsImplements DEF Channel!WorkerDies
  <2> QED BY <2>2
<1>12. CASE CollectorDies
  BY <1>12, CollectorDiesImplements
<1>13. CASE UNCHANGED vars
  <2>1. /\ UNCHANGED <<length, workerNext, collectorNext, workerUp, at, stdio,
                       down, collectorOut, killed>>
        /\ (stdio \o down)' = stdio \o down
    BY <1>13 DEF vars, workerVars, collectorVars
  <2>2. PartDown' = PartDown
    BY <1>0, <2>1, DownStays
  <2>3. LineOf(stdio \o down)' = LineOf(stdio \o down)
    BY <2>1 DEF LineOf, Text
  <2>4. CollectorUp' = CollectorUp
    BY <2>1 DEF CollectorUp
  <2> QED BY <2>1, <2>2, <2>3, <2>4, MappingStays
<1> QED
  BY <1>1, <1>2, <1>3, <1>4, <1>5, <1>6, <1>7, <1>8, <1>9, <1>10, <1>11,
     <1>12, <1>13
     DEF Next, Worker, Collector, Stay

LEMMA InitImplements ==
  Init => Channel!ChannelInit
<1> SUFFICES ASSUME Init PROVE Channel!ChannelInit
  OBVIOUS
<1>1. PipeInv /\ UpIs /\ DownIs
  BY InitialPipe, Mapping
<1>2. /\ workerNext = 1 /\ collectorNext = 1 /\ workerUp = TRUE
      /\ CollectorUp = TRUE /\ killed = {}
  BY DEF Init, CollectorUp
<1>3. LinesUp = <<>> /\ LinesDown = <<>>
  BY <1>1, <1>2 DEF UpIs, DownIs
<1> QED BY <1>2, <1>3 DEF Channel!ChannelInit

(* However many characters a read or a write takes, and whoever dies when: *)
(* what happens to lines is what the channel of whole lines allows.  They  *)
(* arrive whole, once and in order, a line that was cut off is never taken *)
(* for one (unless nothing but its newline is missing), and the collector  *)
(* sees the end of a worker only after all that the worker wrote           *)
(* (tryWriteLine, LineReader, Proc::fill, Proc::popLine, readWorker).      *)
THEOREM PipesCarryLines ==
  Spec => Channel!ChannelSafety
<1>1. Init => Channel!ChannelInit
  BY InitImplements
<1>2. PipeInv /\ PipeInv' /\ [Next]_vars
        => [Channel!ChannelNext]_(Channel!channelVars)
  BY StepImplements
<1> QED BY <1>1, <1>2, PipeInvariant, PTL DEF Spec, Channel!ChannelSafety
=============================================================================
