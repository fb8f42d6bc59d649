-------------------------------- MODULE Sums --------------------------------
(***************************************************************************)
(* Facts about the sum of a function over a finite set, for the theorems   *)
(* that are about totals: coins of all accounts, fees of all makers, votes *)
(* of all donors.                                                          *)
(*                                                                         *)
(* The induction that they need is over the subsets of a finite set, in    *)
(* the form that every nonempty set of subsets has a smallest one: a proof *)
(* takes the smallest subset that violates the claim and removes one of    *)
(* its elements.                                                           *)
(***************************************************************************)
EXTENDS Integers, Functions, FiniteSetTheorems, WellFoundedInduction, TLAPS

-----------------------------------------------------------------------------
(***************************************************************************)
(* Induction over the subsets of a finite set                              *)
(***************************************************************************)

\* Among the subsets of a finite set that are bad in some way there is one
\* all of whose proper subsets are not.
LEMMA SmallestSubset ==
  ASSUME NEW S, IsFiniteSet(S), NEW Bad, Bad \subseteq SUBSET S, Bad # {}
  PROVE  \E s \in Bad : \A t \in SUBSET s : t # s => t \notin Bad
<1>1. IsWellFoundedOn(StrictSubsetOrdering(S), FiniteSubsetsOf(S))
  BY FS_StrictSubsetOrderingWellFounded
<1>2. Bad \subseteq FiniteSubsetsOf(S)
  BY FS_Subset DEF FiniteSubsetsOf
<1>3. PICK s \in Bad : \A t \in Bad : <<t, s>> \notin StrictSubsetOrdering(S)
  BY <1>1, <1>2, WFMin
<1>4. QED
  BY <1>3, <1>2 DEF StrictSubsetOrdering, FiniteSubsetsOf

-----------------------------------------------------------------------------
(***************************************************************************)
(* The recursive function behind a sum                                     *)
(***************************************************************************)

\* The element that the fold takes out of s first.
Chosen(s) == CHOOSE x \in s : TRUE

\* g computes the sums of f over the subsets of S as the fold does.
IsIter(g, f, S) ==
    g = [s \in SUBSET S |-> IF s = {} THEN 0 ELSE f[Chosen(s)] + g[s \ {Chosen(s)}]]

\* The function that the fold picks; IterExists shows that there is one.
Iter(f, S) == CHOOSE g : IsIter(g, f, S)

\* SumFunctionOnSet is that function, applied to the whole set.
LEMMA SumIsIter ==
  ASSUME NEW f, NEW S
  PROVE  SumFunctionOnSet(f, S) = Iter(f, S)[S]
BY DEF SumFunctionOnSet, FoldFunctionOnSet, MapThenFoldSet, Iter, IsIter, Chosen

\* A nonempty set has an element to take out.
LEMMA ChosenIn ==
  ASSUME NEW s, s # {}
  PROVE  Chosen(s) \in s
BY DEF Chosen

\* Two such functions agree where both are defined.
LEMMA IterAgree ==
  ASSUME NEW f, NEW S, NEW T, IsFiniteSet(S), NEW g, NEW h,
         IsIter(g, f, S), IsIter(h, f, T), NEW t, t \subseteq S, t \subseteq T
  PROVE  g[t] = h[t]
<1> DEFINE Bad == {s \in SUBSET S : s \subseteq T /\ g[s] # h[s]}
<1>1. SUFFICES ASSUME Bad # {} PROVE FALSE
  OBVIOUS
<1>0. Bad \subseteq SUBSET S
  OBVIOUS
<1> HIDE DEF Bad
<1>2. PICK s \in Bad : \A r \in SUBSET s : r # s => r \notin Bad
  BY <1>0, <1>1, SmallestSubset
<1> USE DEF Bad
<1>3. s # {}
  BY DEF IsIter
<1>4. Chosen(s) \in s
  BY <1>3, ChosenIn
<1>5. g[s \ {Chosen(s)}] = h[s \ {Chosen(s)}]
  BY <1>2, <1>4
<1>6. QED
  BY <1>3, <1>5 DEF IsIter

\* There is such a function for every finite set.
LEMMA IterExists ==
  ASSUME NEW f, NEW S, IsFiniteSet(S)
  PROVE  IsIter(Iter(f, S), f, S)
<1> DEFINE Bad == {s \in SUBSET S : ~IsIter(Iter(f, s), f, s)}
<1>1. SUFFICES ASSUME Bad # {} PROVE FALSE
  OBVIOUS
<1>0. Bad \subseteq SUBSET S
  OBVIOUS
<1> HIDE DEF Bad
<1>2. PICK s \in Bad : \A r \in SUBSET s : r # s => r \notin Bad
  BY <1>0, <1>1, SmallestSubset
<1> USE DEF Bad
<1>3. \A r \in SUBSET s : r # s => IsIter(Iter(f, r), f, r)
  BY <1>2
<1> DEFINE V(r) == IF r = {} THEN 0
                   ELSE f[Chosen(r)] + Iter(f, r \ {Chosen(r)})[r \ {Chosen(r)}]
<1> DEFINE h == [r \in SUBSET s |-> V(r)]
<1>4. ASSUME NEW r \in SUBSET s, r # {}
      PROVE  h[r \ {Chosen(r)}] = Iter(f, r \ {Chosen(r)})[r \ {Chosen(r)}]
  <2> DEFINE q == r \ {Chosen(r)}
  <2>1. q \in SUBSET s /\ q # s
    BY <1>4, ChosenIn
  <2>2. IsIter(Iter(f, q), f, q)
    BY <2>1, <1>3
  <2>3. Iter(f, q)[q] = IF q = {} THEN 0
                        ELSE f[Chosen(q)] + Iter(f, q)[q \ {Chosen(q)}]
    BY <2>2 DEF IsIter
  <2>4. CASE q = {}
    BY <2>1, <2>3, <2>4
  <2>5. CASE q # {}
    <3>1. q \ {Chosen(q)} \in SUBSET s /\ q \ {Chosen(q)} # s
      BY <2>1
    <3>2. IsIter(Iter(f, q \ {Chosen(q)}), f, q \ {Chosen(q)})
      BY <3>1, <1>3
    <3>3. IsFiniteSet(q)
      BY <2>1, FS_Subset
    <3>4. Iter(f, q)[q \ {Chosen(q)}] = Iter(f, q \ {Chosen(q)})[q \ {Chosen(q)}]
      BY <2>2, <3>2, <3>3, IterAgree
    <3>5. QED
      BY <2>1, <2>3, <2>5, <3>4
  <2>6. QED
    BY <2>4, <2>5
<1>5. \A r \in SUBSET s : h[r] = IF r = {} THEN 0 ELSE f[Chosen(r)] + h[r \ {Chosen(r)}]
  BY <1>4
<1>6. IsIter(h, f, s)
  BY <1>5 DEF IsIter
<1>7. IsIter(Iter(f, s), f, s)
  BY <1>6 DEF Iter
<1>8. QED
  BY <1>7

-----------------------------------------------------------------------------
(***************************************************************************)
(* Sums                                                                    *)
(***************************************************************************)

\* The empty sum, where every induction below starts.
LEMMA SumEmpty ==
  ASSUME NEW f
  PROVE  SumFunctionOnSet(f, {}) = 0
<1>1. IsIter(Iter(f, {}), f, {})
  BY FS_EmptySet, IterExists
<1>2. QED
  BY <1>1, SumIsIter DEF IsIter

\* The fold itself: what it takes out first, and the rest.
LEMMA SumChosen ==
  ASSUME NEW f, NEW S, IsFiniteSet(S), S # {}
  PROVE  SumFunctionOnSet(f, S) = f[Chosen(S)] + SumFunctionOnSet(f, S \ {Chosen(S)})
<1> DEFINE R == S \ {Chosen(S)}
<1>1. IsFiniteSet(R)
  BY FS_Subset
<1>2. IsIter(Iter(f, S), f, S) /\ IsIter(Iter(f, R), f, R)
  BY <1>1, IterExists
<1>6. R \subseteq S /\ R \subseteq R
  OBVIOUS
<1> HIDE DEF R
<1>3. Iter(f, S)[R] = Iter(f, R)[R]
  BY <1>2, <1>6, IterAgree
<1> USE DEF R
<1>4. Iter(f, S)[S] = f[Chosen(S)] + Iter(f, S)[R]
  BY <1>2 DEF IsIter
<1>5. QED
  BY <1>3, <1>4, SumIsIter

\* A sum of integers is an integer.
LEMMA SumInt ==
  ASSUME NEW f, NEW S, IsFiniteSet(S), \A x \in S : f[x] \in Int
  PROVE  SumFunctionOnSet(f, S) \in Int
<1> DEFINE Bad == {s \in SUBSET S : SumFunctionOnSet(f, s) \notin Int}
<1>1. SUFFICES ASSUME Bad # {} PROVE FALSE
  OBVIOUS
<1>0. Bad \subseteq SUBSET S
  OBVIOUS
<1> HIDE DEF Bad
<1>2. PICK s \in Bad : \A r \in SUBSET s : r # s => r \notin Bad
  BY <1>0, <1>1, SmallestSubset
<1> USE DEF Bad
<1>3. s # {}
  BY SumEmpty
<1>4. Chosen(s) \in s
  BY <1>3, ChosenIn
<1>5. SumFunctionOnSet(f, s \ {Chosen(s)}) \in Int
  BY <1>2, <1>4
<1>6. IsFiniteSet(s)
  BY FS_Subset
<1>7. QED
  BY <1>3, <1>4, <1>5, <1>6, SumChosen

\* Any element may be taken out first.
LEMMA SumRemove ==
  ASSUME NEW f, NEW S, IsFiniteSet(S), \A x \in S : f[x] \in Int, NEW e \in S
  PROVE  SumFunctionOnSet(f, S) = f[e] + SumFunctionOnSet(f, S \ {e})
<1> DEFINE Bad == {s \in SUBSET S : \E x \in s :
                      SumFunctionOnSet(f, s) # f[x] + SumFunctionOnSet(f, s \ {x})}
<1>1. SUFFICES ASSUME Bad # {} PROVE FALSE
  OBVIOUS
<1>0. Bad \subseteq SUBSET S
  OBVIOUS
<1> HIDE DEF Bad
<1>2. PICK s \in Bad : \A r \in SUBSET s : r # s => r \notin Bad
  BY <1>0, <1>1, SmallestSubset
<1> USE DEF Bad
<1>3. PICK x \in s : SumFunctionOnSet(f, s) # f[x] + SumFunctionOnSet(f, s \ {x})
  OBVIOUS
<1> DEFINE c == Chosen(s)
<1>4. c \in s
  BY <1>3, ChosenIn
<1> HIDE DEF c
<1>5. SumFunctionOnSet(f, s) = f[c] + SumFunctionOnSet(f, s \ {c})
  BY <1>3, FS_Subset, SumChosen DEF c
<1>6. x # c
  BY <1>3, <1>5
<1>7. s \ {c} \notin Bad /\ s \ {x} \notin Bad
  BY <1>2, <1>3, <1>4
<1>8. SumFunctionOnSet(f, s \ {c}) = f[x] + SumFunctionOnSet(f, (s \ {c}) \ {x})
  BY <1>6, <1>7
<1>9. SumFunctionOnSet(f, s \ {x}) = f[c] + SumFunctionOnSet(f, (s \ {x}) \ {c})
  BY <1>4, <1>6, <1>7
<1>10. (s \ {c}) \ {x} = (s \ {x}) \ {c}
  OBVIOUS
<1>11. IsFiniteSet((s \ {c}) \ {x}) /\ \A y \in (s \ {c}) \ {x} : f[y] \in Int
  BY FS_Subset
<1>12. SumFunctionOnSet(f, (s \ {c}) \ {x}) \in Int
  BY <1>11, SumInt
<1>13. f[x] \in Int /\ f[c] \in Int
  BY <1>4
<1>14. QED
  BY <1>3, <1>5, <1>8, <1>9, <1>10, <1>12, <1>13

\* A sum of naturals is a natural.
LEMMA SumNat ==
  ASSUME NEW f, NEW S, IsFiniteSet(S), \A x \in S : f[x] \in Nat
  PROVE  SumFunctionOnSet(f, S) \in Nat
<1> DEFINE Bad == {s \in SUBSET S : SumFunctionOnSet(f, s) \notin Nat}
<1>1. SUFFICES ASSUME Bad # {} PROVE FALSE
  OBVIOUS
<1>0. Bad \subseteq SUBSET S
  OBVIOUS
<1> HIDE DEF Bad
<1>2. PICK s \in Bad : \A r \in SUBSET s : r # s => r \notin Bad
  BY <1>0, <1>1, SmallestSubset
<1> USE DEF Bad
<1>3. s # {}
  BY SumEmpty
<1>4. PICK x : x \in s
  BY <1>3
<1>5. s \ {x} \notin Bad /\ s \ {x} \in SUBSET S
  BY <1>2, <1>4
<1>6. IsFiniteSet(s)
  BY FS_Subset
<1>7. SumFunctionOnSet(f, s) = f[x] + SumFunctionOnSet(f, s \ {x})
  BY <1>4, <1>6, SumRemove
<1>8. QED
  BY <1>4, <1>5, <1>7

\* A sum depends on the values over its set only.
LEMMA SumSame ==
  ASSUME NEW f, NEW g, NEW S, IsFiniteSet(S),
         \A x \in S : f[x] \in Int /\ g[x] = f[x]
  PROVE  SumFunctionOnSet(g, S) = SumFunctionOnSet(f, S)
<1> DEFINE Bad == {s \in SUBSET S : SumFunctionOnSet(g, s) # SumFunctionOnSet(f, s)}
<1>1. SUFFICES ASSUME Bad # {} PROVE FALSE
  OBVIOUS
<1>0. Bad \subseteq SUBSET S
  OBVIOUS
<1> HIDE DEF Bad
<1>2. PICK s \in Bad : \A r \in SUBSET s : r # s => r \notin Bad
  BY <1>0, <1>1, SmallestSubset
<1> USE DEF Bad
<1>3. s # {}
  BY SumEmpty
<1>4. PICK x : x \in s
  BY <1>3
<1>5. s \ {x} \notin Bad /\ s \ {x} \in SUBSET S
  BY <1>2, <1>4
<1>6. IsFiniteSet(s)
  BY FS_Subset
<1>7. SumFunctionOnSet(f, s) = f[x] + SumFunctionOnSet(f, s \ {x})
  BY <1>4, <1>6, SumRemove
<1>8. SumFunctionOnSet(g, s) = g[x] + SumFunctionOnSet(g, s \ {x})
  BY <1>4, <1>6, SumRemove
<1>9. QED
  BY <1>4, <1>5, <1>7, <1>8

\* Nothing but zeros sum up to zero.
LEMMA SumZero ==
  ASSUME NEW f, NEW S, IsFiniteSet(S), \A x \in S : f[x] = 0
  PROVE  SumFunctionOnSet(f, S) = 0
<1> DEFINE Bad == {s \in SUBSET S : SumFunctionOnSet(f, s) # 0}
<1>1. SUFFICES ASSUME Bad # {} PROVE FALSE
  OBVIOUS
<1>0. Bad \subseteq SUBSET S
  OBVIOUS
<1> HIDE DEF Bad
<1>2. PICK s \in Bad : \A r \in SUBSET s : r # s => r \notin Bad
  BY <1>0, <1>1, SmallestSubset
<1> USE DEF Bad
<1>3. s # {}
  BY SumEmpty
<1>4. PICK x : x \in s
  BY <1>3
<1>5. s \ {x} \notin Bad /\ s \ {x} \in SUBSET S
  BY <1>2, <1>4
<1>6. IsFiniteSet(s)
  BY FS_Subset
<1>7. SumFunctionOnSet(f, s) = f[x] + SumFunctionOnSet(f, s \ {x})
  BY <1>4, <1>6, SumRemove
<1>8. QED
  BY <1>4, <1>5, <1>7

\* One more element.
LEMMA SumAdd ==
  ASSUME NEW f, NEW S, IsFiniteSet(S), NEW e, e \notin S,
         \A x \in S \cup {e} : f[x] \in Int
  PROVE  SumFunctionOnSet(f, S \cup {e}) = SumFunctionOnSet(f, S) + f[e]
<1>1. IsFiniteSet(S \cup {e}) /\ (S \cup {e}) \ {e} = S
  BY FS_AddElement
<1>2. SumFunctionOnSet(f, S \cup {e}) = f[e] + SumFunctionOnSet(f, S)
  <2>1. SumFunctionOnSet(f, S \cup {e}) = f[e] + SumFunctionOnSet(f, (S \cup {e}) \ {e})
    BY <1>1, SumRemove
  <2>2. QED
    BY <1>1, <2>1
<1>3. SumFunctionOnSet(f, S) \in Int
  BY SumInt
<1>4. QED
  BY <1>2, <1>3

\* One value changes.
LEMMA SumChange ==
  ASSUME NEW f, NEW g, NEW S, IsFiniteSet(S), NEW e \in S,
         \A x \in S : f[x] \in Int, g[e] \in Int,
         \A x \in S : x # e => g[x] = f[x]
  PROVE  SumFunctionOnSet(g, S) = SumFunctionOnSet(f, S) + (g[e] - f[e])
<1>1. IsFiniteSet(S \ {e})
  BY FS_Subset
<1>2. SumFunctionOnSet(f, S \ {e}) \in Int
  BY <1>1, SumInt
<1>3. SumFunctionOnSet(g, S \ {e}) = SumFunctionOnSet(f, S \ {e})
  BY <1>1, SumSame
<1>4. SumFunctionOnSet(f, S) = f[e] + SumFunctionOnSet(f, S \ {e})
  BY SumRemove
<1>5. SumFunctionOnSet(g, S) = g[e] + SumFunctionOnSet(g, S \ {e})
  BY SumRemove
<1>6. QED
  BY <1>2, <1>3, <1>4, <1>5

\* A sum of differences.
LEMMA SumMinus ==
  ASSUME NEW f, NEW g, NEW h, NEW S, IsFiniteSet(S),
         \A x \in S : f[x] \in Int /\ g[x] \in Int /\ h[x] = f[x] - g[x]
  PROVE  SumFunctionOnSet(h, S) = SumFunctionOnSet(f, S) - SumFunctionOnSet(g, S)
<1> DEFINE Bad == {s \in SUBSET S :
                     SumFunctionOnSet(h, s) # SumFunctionOnSet(f, s) - SumFunctionOnSet(g, s)}
<1>1. SUFFICES ASSUME Bad # {} PROVE FALSE
  OBVIOUS
<1>0. Bad \subseteq SUBSET S
  OBVIOUS
<1> HIDE DEF Bad
<1>2. PICK s \in Bad : \A r \in SUBSET s : r # s => r \notin Bad
  BY <1>0, <1>1, SmallestSubset
<1> USE DEF Bad
<1>3. s # {}
  <2>1. SumFunctionOnSet(f, {}) = 0 /\ SumFunctionOnSet(g, {}) = 0 /\ SumFunctionOnSet(h, {}) = 0
    BY SumEmpty
  <2>2. QED
    BY <2>1
<1>4. PICK x : x \in s
  BY <1>3
<1>5. s \ {x} \notin Bad /\ s \ {x} \in SUBSET S
  BY <1>2, <1>4
<1>6. IsFiniteSet(s) /\ IsFiniteSet(s \ {x})
  BY FS_Subset
<1>7. SumFunctionOnSet(f, s) = f[x] + SumFunctionOnSet(f, s \ {x})
  BY <1>4, <1>6, SumRemove
<1>8. SumFunctionOnSet(g, s) = g[x] + SumFunctionOnSet(g, s \ {x})
  BY <1>4, <1>6, SumRemove
<1>9. SumFunctionOnSet(h, s) = h[x] + SumFunctionOnSet(h, s \ {x})
  BY <1>4, <1>6, SumRemove
<1>10. SumFunctionOnSet(f, s \ {x}) \in Int /\ SumFunctionOnSet(g, s \ {x}) \in Int
  BY <1>6, SumInt
<1>11. QED
  BY <1>4, <1>5, <1>7, <1>8, <1>9, <1>10

\* Of naturals, a sum of smaller values is no more.
LEMMA SumAtMost ==
  ASSUME NEW f, NEW g, NEW S, IsFiniteSet(S),
         \A x \in S : f[x] \in Nat /\ g[x] \in Nat /\ f[x] <= g[x]
  PROVE  SumFunctionOnSet(f, S) <= SumFunctionOnSet(g, S)
<1> DEFINE Bad == {s \in SUBSET S : ~(SumFunctionOnSet(f, s) <= SumFunctionOnSet(g, s))}
<1>1. SUFFICES ASSUME Bad # {} PROVE FALSE
  OBVIOUS
<1>0. Bad \subseteq SUBSET S
  OBVIOUS
<1> HIDE DEF Bad
<1>2. PICK s \in Bad : \A r \in SUBSET s : r # s => r \notin Bad
  BY <1>0, <1>1, SmallestSubset
<1> USE DEF Bad
<1>3. s # {}
  BY SumEmpty
<1>4. PICK x : x \in s
  BY <1>3
<1>5. s \ {x} \notin Bad /\ s \ {x} \in SUBSET S
  BY <1>2, <1>4
<1>6. IsFiniteSet(s)
  BY FS_Subset
<1>7. SumFunctionOnSet(f, s) = f[x] + SumFunctionOnSet(f, s \ {x})
  BY <1>4, <1>6, SumRemove
<1>8. SumFunctionOnSet(g, s) = g[x] + SumFunctionOnSet(g, s \ {x})
  BY <1>4, <1>6, SumRemove
<1>9. IsFiniteSet(s \ {x})
  BY <1>6, FS_Subset
<1>10. SumFunctionOnSet(f, s \ {x}) \in Nat /\ SumFunctionOnSet(g, s \ {x}) \in Nat
  BY <1>9, SumNat
<1>11. QED
  BY <1>4, <1>5, <1>7, <1>8, <1>10

\* Of naturals, no element is more than the sum.
LEMMA SumMember ==
  ASSUME NEW f, NEW S, IsFiniteSet(S), NEW e \in S, \A x \in S : f[x] \in Nat
  PROVE  f[e] <= SumFunctionOnSet(f, S)
<1>1. IsFiniteSet(S \ {e})
  BY FS_Subset
<1>2. SumFunctionOnSet(f, S \ {e}) \in Nat
  BY <1>1, SumNat
<1>3. SumFunctionOnSet(f, S) = f[e] + SumFunctionOnSet(f, S \ {e})
  BY SumRemove
<1>4. QED
  BY <1>2, <1>3
=============================================================================
