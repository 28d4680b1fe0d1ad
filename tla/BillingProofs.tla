----------------------------- MODULE BillingProofs -----------------------------
(***************************************************************************)
(* Theorems about billing, for any families, students, models, statements  *)
(* and operators.  The sums of charges, matches and discounts come first:  *)
(* the library gives no facts about them.                                  *)
(***************************************************************************)
EXTENDS Billing, FiniteSetTheorems, NaturalsInduction, WellFoundedInduction, TLAPS

-----------------------------------------------------------------------------
(* Sums over a finite set.  SumFunctionOnSet is a table of the sums over all *)
(* subsets, each found by taking a chosen element away.                      *)

Summable(f, S) == IsFiniteSet(S) /\ \A x \in S : f[x] \in Int

Pick(s) == CHOOSE x \in s : TRUE

IsTable(g, f, S) ==
  g = [s \in SUBSET S |-> IF s = {} THEN 0 ELSE f[Pick(s)] + g[s \ {Pick(s)}]]

\* A nonempty set of naturals has a least element.
LEMMA Least ==
  ASSUME NEW T \in SUBSET Nat, T # {}
  PROVE  \E x \in T : \A y \in T : x <= y
<1> DEFINE R == {p \in Nat \X Nat : p[1] < p[2]}
<1>1. IsWellFoundedOn(R, Nat)
  BY NatLessThanWellFounded DEF OpToRel
<1>2. PICK x \in T : \A y \in T : <<y, x>> \notin R
  <2> HIDE DEF R
  <2> QED BY <1>1, WFMin
<1>3. ASSUME NEW y \in T
      PROVE  x <= y
  <2>1. <<y, x>> \notin R /\ <<y, x>> \in Nat \X Nat
    BY <1>2
  <2>2. ~(y < x)
    BY <2>1
  <2>3. QED
    BY <2>2
<1>4. QED
  BY <1>3

\* Induction, over a set of naturals instead of a predicate.
LEMMA AllNaturals ==
  ASSUME NEW T, 0 \in T, \A n \in Nat : n \in T => n + 1 \in T
  PROVE  Nat \subseteq T
<1> SUFFICES ASSUME Nat \ T # {} PROVE FALSE
  OBVIOUS
<1>1. PICK n \in Nat \ T : \A k \in Nat \ T : n <= k
  BY Least
<1>2. n # 0
  OBVIOUS
<1>3. n - 1 \in Nat /\ n - 1 \notin Nat \ T
  BY <1>1, <1>2
<1>4. QED
  BY <1>1, <1>3

LEMMA PickOne ==
  ASSUME NEW s, s # {}
  PROVE  Pick(s) \in s
BY DEF Pick

\* Taking the chosen element away makes a finite set smaller by one.
LEMMA PickSmaller ==
  ASSUME NEW S, IsFiniteSet(S), NEW s \in SUBSET S, s # {}
  PROVE  /\ IsFiniteSet(s) /\ Cardinality(s) \in Nat /\ Cardinality(s) # 0
         /\ s \ {Pick(s)} \in SUBSET S
         /\ Cardinality(s \ {Pick(s)}) = Cardinality(s) - 1
<1>1. IsFiniteSet(s) /\ Cardinality(s) \in Nat
  BY FS_Subset, FS_CardinalityType
<1>2. Cardinality(s) # 0
  BY <1>1, FS_EmptySet
<1>3. Cardinality(s \ {Pick(s)}) = Cardinality(s) - 1
  <2>1. PICK x : x = Pick(s) /\ x \in s
    BY PickOne
  <2>2. Cardinality(s \ {x}) = Cardinality(s) - 1
    BY <1>1, <2>1, FS_RemoveElement
  <2>3. QED
    BY <2>1, <2>2
<1>4. QED
  BY <1>1, <1>2, <1>3

\* Two tables agree where their functions do.
LEMMA TablesAgree ==
  ASSUME NEW f, NEW g, NEW S, NEW h, NEW e, NEW R,
         IsTable(g, f, S), IsTable(h, e, R),
         NEW U \in SUBSET (S \cap R), IsFiniteSet(U), \A x \in U : f[x] = e[x]
  PROVE  g[U] = h[U]
<1> DEFINE T == {n \in Nat : \A s \in SUBSET U : Cardinality(s) = n => g[s] = h[s]}
<1>1. 0 \in T
  <2>1. ASSUME NEW s \in SUBSET U, Cardinality(s) = 0
        PROVE  g[s] = h[s]
    <3>1. s = {}
      BY <2>1, PickSmaller
    <3>2. QED
      BY <3>1 DEF IsTable
  <2>2. QED
    BY <2>1
<1>2. ASSUME NEW n \in Nat, n \in T
      PROVE  n + 1 \in T
  <2>1. ASSUME NEW s \in SUBSET U, Cardinality(s) = n + 1
        PROVE  g[s] = h[s]
    <3>1. s # {}
      BY <2>1, FS_EmptySet
    <3>2. s \ {Pick(s)} \in SUBSET U /\ Cardinality(s \ {Pick(s)}) = n
      BY <2>1, <3>1, PickSmaller
    <3>3. g[s \ {Pick(s)}] = h[s \ {Pick(s)}]
      BY <1>2, <3>2
    <3>4. Pick(s) \in U
      BY <3>1, PickOne
    <3>5. s \in SUBSET S /\ s \in SUBSET R
      OBVIOUS
    <3>6. g[s] = f[Pick(s)] + g[s \ {Pick(s)}]
      BY <3>1, <3>5 DEF IsTable
    <3>7. h[s] = e[Pick(s)] + h[s \ {Pick(s)}]
      BY <3>1, <3>5 DEF IsTable
    <3>8. QED
      BY <3>3, <3>4, <3>6, <3>7
  <2>2. QED
    BY <2>1
<1>3. Nat \subseteq T
  <2> HIDE DEF T
  <2> QED BY <1>1, <1>2, AllNaturals
<1>4. Cardinality(U) \in Nat
  BY FS_CardinalityType
<1>5. QED
  BY <1>3, <1>4

\* A table exists: over the subsets of each size in turn.
LEMMA TableExists ==
  ASSUME NEW f, NEW S, Summable(f, S)
  PROVE  \E g \in [SUBSET S -> Int] : IsTable(g, f, S)
<1> DEFINE Small(n) == {s \in SUBSET S : Cardinality(s) <= n}
           Next1(g, s) == IF s = {} THEN 0 ELSE f[Pick(s)] + g[s \ {Pick(s)}]
           T == {n \in Nat : \E g \in [Small(n) -> Int] : \A s \in Small(n) : g[s] = Next1(g, s)}
<1>0. IsFiniteSet(S) /\ \A x \in S : f[x] \in Int
  BY DEF Summable
<1>1. 0 \in T
  <2>1. ASSUME NEW s \in Small(0)
        PROVE  s = {}
    <3>1. s \in SUBSET S /\ Cardinality(s) <= 0
      OBVIOUS
    <3>2. s # {} => Cardinality(s) \in Nat /\ Cardinality(s) # 0
      BY <1>0, <3>1, PickSmaller
    <3>3. QED
      BY <3>1, <3>2
  <2>2. [s \in Small(0) |-> 0] \in [Small(0) -> Int]
    OBVIOUS
  <2>3. QED
    BY <2>1, <2>2
<1>2. ASSUME NEW n \in Nat, n \in T
      PROVE  n + 1 \in T
  <2>1. PICK g \in [Small(n) -> Int] : \A s \in Small(n) : g[s] = Next1(g, s)
    BY <1>2
  <2> DEFINE h == [s \in Small(n + 1) |-> Next1(g, s)]
  <2>2. ASSUME NEW s \in Small(n + 1), s # {}
        PROVE  s \ {Pick(s)} \in Small(n) /\ Pick(s) \in S
    BY <1>0, <2>2, PickSmaller, PickOne
  <2>3. h \in [Small(n + 1) -> Int]
    BY <1>0, <2>1, <2>2
  <2>4. \A s \in Small(n) : s \in Small(n + 1)
    <3>1. \A s \in SUBSET S : Cardinality(s) \in Nat
      BY <1>0, FS_Subset, FS_CardinalityType
    <3>2. QED
      BY <3>1
  <2>5. \A s \in Small(n) : h[s] = g[s]
    BY <2>1, <2>4
  <2>6. \A s \in Small(n + 1) : h[s] = Next1(h, s)
    BY <2>2, <2>5
  <2> HIDE DEF h, Small, Next1
  <2>7. \E e \in [Small(n + 1) -> Int] : \A s \in Small(n + 1) : e[s] = Next1(e, s)
    BY <2>3, <2>6
  <2>8. QED
    BY <2>7
<1>3. Nat \subseteq T
  <2> HIDE DEF T
  <2> QED BY <1>1, <1>2, AllNaturals
<1>4. Cardinality(S) \in Nat /\ \A s \in SUBSET S : Cardinality(s) <= Cardinality(S)
  BY <1>0, FS_Subset, FS_CardinalityType
<1>5. Small(Cardinality(S)) = SUBSET S
  BY <1>4
<1>6. PICK g \in [SUBSET S -> Int] : \A s \in SUBSET S : g[s] = Next1(g, s)
  <2>1. Cardinality(S) \in T
    BY <1>3, <1>4
  <2>2. PICK n : n = Cardinality(S)
    OBVIOUS
  <2>3. Small(n) = SUBSET S /\ n \in T
    BY <1>5, <2>1, <2>2
  <2> HIDE DEF Small, Next1
  <2>4. QED
    BY <2>3
<1>7. g = [s \in SUBSET S |-> Next1(g, s)]
  BY <1>6
<1>8. QED
  BY <1>7 DEF IsTable

\* The library's sum is the last entry of a table.
LEMMA SumTable ==
  ASSUME NEW f, NEW S, Summable(f, S)
  PROVE  \E g \in [SUBSET S -> Int] : IsTable(g, f, S) /\ SumFunctionOnSet(f, S) = g[S]
<1> DEFINE t == CHOOSE g : g = [s \in SUBSET S |-> IF s = {} THEN 0 ELSE f[Pick(s)] + g[s \ {Pick(s)}]]
<1>1. SumFunctionOnSet(f, S) = t[S]
  BY DEF SumFunctionOnSet, FoldFunctionOnSet, MapThenFoldSet, Pick
<1>2. PICK g \in [SUBSET S -> Int] : IsTable(g, f, S)
  BY TableExists
<1>3. IsTable(t, f, S)
  BY <1>2 DEF IsTable
<1> HIDE DEF t
<1>4. ASSUME NEW s \in SUBSET S
      PROVE  t[s] = g[s]
  <2>1. IsFiniteSet(s) /\ s \in SUBSET (S \cap S)
    BY FS_Subset DEF Summable
  <2>2. QED
    BY <1>2, <1>3, <2>1, TablesAgree
<1>5. QED
  BY <1>1, <1>2, <1>4

-----------------------------------------------------------------------------
(* What is known of sums from here on.                                       *)

LEMMA SumInt ==
  ASSUME NEW f, NEW S, Summable(f, S)
  PROVE  SumFunctionOnSet(f, S) \in Int
<1>1. PICK g \in [SUBSET S -> Int] : SumFunctionOnSet(f, S) = g[S]
  BY SumTable
<1>2. QED
  BY <1>1

LEMMA SumNone ==
  ASSUME NEW f
  PROVE  SumFunctionOnSet(f, {}) = 0
<1>1. Summable(f, {})
  BY FS_EmptySet DEF Summable
<1>2. PICK g : IsTable(g, f, {}) /\ SumFunctionOnSet(f, {}) = g[{}]
  BY <1>1, SumTable
<1>3. {} \in SUBSET {}
  OBVIOUS
<1>4. g[{}] = 0
  BY <1>2, <1>3 DEF IsTable
<1>5. QED
  BY <1>2, <1>4

\* Only the values at the elements matter.
LEMMA SumSame ==
  ASSUME NEW f, NEW e, NEW S, Summable(f, S), \A x \in S : f[x] = e[x]
  PROVE  SumFunctionOnSet(f, S) = SumFunctionOnSet(e, S)
<1>1. Summable(e, S)
  BY DEF Summable
<1>2. PICK g : IsTable(g, f, S) /\ SumFunctionOnSet(f, S) = g[S]
  BY SumTable
<1>3. PICK h : IsTable(h, e, S) /\ SumFunctionOnSet(e, S) = h[S]
  BY <1>1, SumTable
<1>4. IsFiniteSet(S) /\ S \in SUBSET (S \cap S)
  BY DEF Summable
<1>5. g[S] = h[S]
  BY <1>2, <1>3, <1>4, TablesAgree
<1>6. QED
  BY <1>2, <1>3, <1>5

LEMMA SumPick ==
  ASSUME NEW f, NEW S, Summable(f, S), S # {}
  PROVE  SumFunctionOnSet(f, S) = f[Pick(S)] + SumFunctionOnSet(f, S \ {Pick(S)})
<1> DEFINE R == S \ {Pick(S)}
<1>1. PICK g : IsTable(g, f, S) /\ SumFunctionOnSet(f, S) = g[S]
  BY SumTable
<1>2. IsFiniteSet(R) /\ R \in SUBSET (S \cap R) /\ Summable(f, R)
  BY FS_Subset DEF Summable
<1>3. PICK h : IsTable(h, f, R) /\ SumFunctionOnSet(f, R) = h[R]
  BY <1>2, SumTable
<1>4. g[R] = h[R]
  BY <1>1, <1>2, <1>3, TablesAgree
<1>5. g[S] = f[Pick(S)] + g[R]
  BY <1>1 DEF IsTable
<1>6. QED
  BY <1>1, <1>3, <1>4, <1>5

\* Any element can be taken out of a sum.
LEMMA SumTake ==
  ASSUME NEW f, NEW S, Summable(f, S), NEW y \in S
  PROVE  SumFunctionOnSet(f, S) = f[y] + SumFunctionOnSet(f, S \ {y})
<1> DEFINE Sum(s) == SumFunctionOnSet(f, s)
           T == {n \in Nat : \A s \in SUBSET S : Cardinality(s) = n =>
                               \A z \in s : Sum(s) = f[z] + Sum(s \ {z})}
<1>0. IsFiniteSet(S) /\ \A x \in S : f[x] \in Int
  BY DEF Summable
<1>1. \A s \in SUBSET S : Summable(f, s)
  BY <1>0, FS_Subset DEF Summable
<1>2. 0 \in T
  <2>1. \A s \in SUBSET S : Cardinality(s) = 0 => s = {}
    BY <1>0, PickSmaller
  <2>2. QED
    BY <2>1
<1>3. ASSUME NEW n \in Nat, n \in T
      PROVE  n + 1 \in T
  <2>1. ASSUME NEW s \in SUBSET S, Cardinality(s) = n + 1, NEW z \in s
        PROVE  Sum(s) = f[z] + Sum(s \ {z})
    <3> DEFINE x == Pick(s)
    <3>1. x \in s
      BY PickOne
    <3>2. Sum(s) = f[x] + Sum(s \ {x})
      BY <1>1, <2>1, SumPick
    <3>3. CASE x = z
      BY <3>2, <3>3
    <3>4. CASE x # z
      <4> HIDE DEF x
      <4>1. IsFiniteSet(s)
        BY <1>0, FS_Subset
      <4>2. Cardinality(s \ {x}) = n /\ Cardinality(s \ {z}) = n
        BY <2>1, <3>1, <4>1, FS_RemoveElement
      <4>3. s \ {x} \in SUBSET S /\ z \in s \ {x} /\ s \ {z} \in SUBSET S /\ x \in s \ {z}
        BY <3>1, <3>4
      <4>4. Sum(s \ {x}) = f[z] + Sum((s \ {x}) \ {z})
        BY <1>3, <4>2, <4>3
      <4>5. Sum(s \ {z}) = f[x] + Sum((s \ {z}) \ {x})
        BY <1>3, <4>2, <4>3
      <4>6. (s \ {x}) \ {z} = (s \ {z}) \ {x}
        OBVIOUS
      <4>7. Sum((s \ {x}) \ {z}) \in Int
        BY <1>1, SumInt
      <4>8. f[x] \in Int /\ f[z] \in Int
        BY <1>0, <3>1
      <4>9. PICK rest \in Int : rest = Sum((s \ {x}) \ {z})
        BY <4>7
      <4>10. Sum(s \ {x}) = f[z] + rest /\ Sum(s \ {z}) = f[x] + rest
        BY <4>4, <4>5, <4>6, <4>9
      <4>11. f[x] + (f[z] + rest) = f[z] + (f[x] + rest)
        BY <4>8, <4>9
      <4>12. QED
        BY <3>2, <4>10, <4>11
    <3>5. QED
      BY <3>3, <3>4
  <2>2. QED
    BY <2>1
<1>4. Nat \subseteq T
  <2> HIDE DEF T
  <2> QED BY <1>2, <1>3, AllNaturals
<1>5. Cardinality(S) \in Nat
  BY <1>0, FS_CardinalityType
<1>6. QED
  BY <1>4, <1>5

LEMMA SumAdd ==
  ASSUME NEW f, NEW S, NEW y, y \notin S, Summable(f, S \cup {y})
  PROVE  SumFunctionOnSet(f, S \cup {y}) = f[y] + SumFunctionOnSet(f, S)
<1>1. (S \cup {y}) \ {y} = S
  OBVIOUS
<1>2. SumFunctionOnSet(f, S \cup {y}) = f[y] + SumFunctionOnSet(f, (S \cup {y}) \ {y})
  BY SumTake
<1>3. QED
  BY <1>1, <1>2

\* A set that is closed under addition holds the sums of its members.
LEMMA SumIn ==
  ASSUME NEW C \in SUBSET Int, 0 \in C, \A a, b \in C : a + b \in C,
         NEW f, NEW S, IsFiniteSet(S), \A x \in S : f[x] \in C
  PROVE  SumFunctionOnSet(f, S) \in C
<1> DEFINE T == {n \in Nat : \A s \in SUBSET S : Cardinality(s) = n => SumFunctionOnSet(f, s) \in C}
<1>1. 0 \in T
  <2>1. \A s \in SUBSET S : Cardinality(s) = 0 => s = {}
    BY PickSmaller
  <2>2. QED
    BY <2>1, SumNone
<1>2. ASSUME NEW n \in Nat, n \in T
      PROVE  n + 1 \in T
  <2>1. ASSUME NEW s \in SUBSET S, Cardinality(s) = n + 1
        PROVE  SumFunctionOnSet(f, s) \in C
    <3>1. s # {}
      BY <2>1, FS_EmptySet
    <3>2. s \ {Pick(s)} \in SUBSET S /\ Cardinality(s \ {Pick(s)}) = n /\ Pick(s) \in S
      BY <2>1, <3>1, PickSmaller, PickOne
    <3>3. SumFunctionOnSet(f, s \ {Pick(s)}) \in C
      BY <1>2, <3>2
    <3>4. Summable(f, s)
      BY FS_Subset DEF Summable
    <3>5. SumFunctionOnSet(f, s) = f[Pick(s)] + SumFunctionOnSet(f, s \ {Pick(s)})
      BY <3>1, <3>4, SumPick
    <3>6. QED
      BY <3>2, <3>3, <3>5
  <2>2. QED
    BY <2>1
<1>3. Nat \subseteq T
  <2> HIDE DEF T
  <2> QED BY <1>1, <1>2, AllNaturals
<1>4. Cardinality(S) \in Nat
  BY FS_CardinalityType
<1>5. QED
  BY <1>3, <1>4

LEMMA SumNat ==
  ASSUME NEW f, NEW S, IsFiniteSet(S), \A x \in S : f[x] \in Nat
  PROVE  SumFunctionOnSet(f, S) \in Nat
<1>1. Nat \in SUBSET Int /\ 0 \in Nat /\ \A a, b \in Nat : a + b \in Nat
  OBVIOUS
<1>2. QED
  BY <1>1, SumIn

LEMMA SumZero ==
  ASSUME NEW f, NEW S, IsFiniteSet(S), \A x \in S : f[x] = 0
  PROVE  SumFunctionOnSet(f, S) = 0
<1>1. {0} \in SUBSET Int /\ 0 \in {0} /\ \A a, b \in {0} : a + b \in {0}
  OBVIOUS
<1>2. \A x \in S : f[x] \in {0}
  OBVIOUS
<1>3. SumFunctionOnSet(f, S) \in {0}
  BY <1>1, <1>2, SumIn
<1>4. QED
  BY <1>3

\* One value of a sum changes.
LEMMA SumChange ==
  ASSUME NEW f, NEW e, NEW S, Summable(f, S), NEW y \in S, e[y] \in Int,
         \A x \in S \ {y} : e[x] = f[x]
  PROVE  SumFunctionOnSet(e, S) = (SumFunctionOnSet(f, S) - f[y]) + e[y]
<1>1. Summable(e, S) /\ Summable(f, S \ {y})
  BY FS_Subset DEF Summable
<1>2. SumFunctionOnSet(e, S) = e[y] + SumFunctionOnSet(e, S \ {y})
  BY <1>1, SumTake
<1>3. SumFunctionOnSet(f, S) = f[y] + SumFunctionOnSet(f, S \ {y})
  BY SumTake
<1>4. SumFunctionOnSet(f, S \ {y}) = SumFunctionOnSet(e, S \ {y})
  BY <1>1, SumSame
<1>5. PICK rest \in Int : rest = SumFunctionOnSet(f, S \ {y})
  BY <1>1, SumInt
<1>6. f[y] \in Int
  BY DEF Summable
<1>7. SumFunctionOnSet(e, S) = e[y] + rest /\ SumFunctionOnSet(f, S) = f[y] + rest
  BY <1>2, <1>3, <1>4, <1>5
<1>8. QED
  BY <1>5, <1>6, <1>7

-----------------------------------------------------------------------------
(* Types *)

Partial(V) == UNION {[F -> V] : F \in SUBSET Payers}

Stages == {"idle", "dead", "draft", "batch", "charge", "student", "payer", "balance", "entry",
           "refuse", "row", "store", "auto", "insert", "status", "step"}

RequestRows ==
  [pc : Stages, model : Models \cup {NoState}, period : Periods \cup {NoState}, batch : Nat,
   left : SUBSET DOMAIN Roll, drafts : Seq(Drafts), i : Nat, cards : Partial(Nat),
   freshCards : SUBSET Payers, after : Partial(Int), import : Nat, row : Rows \cup {NoState},
   payer : Payers \cup {NoPayer}, amount : Nat,
   status : {"rozliczona", "czesciowo_rozliczona", NoState},
   action : {"snoozed", "completed", NoState}, parent : Nat, date : 0..MaxDate]

\* What the tables hold.
TablesInv ==
  /\ rows \subseteq Registrable
  /\ batches \in Seq(BatchRows) /\ charges \subseteq ChargeRows /\ IsFiniteSet(charges)
  /\ \A s \in Students : studentState[s] = NoState \/ studentState[s] \in StudentStates
  /\ \A f \in Payers : payerState[f] = NoState \/ payerState[f] \in Nat
  /\ DOMAIN studentState = Students /\ DOMAIN payerState = Payers
  /\ imports \in Seq(ImportRows) /\ steps \in Seq(StepRows)
  /\ transaction \in [Rows -> TransactionRows]
  /\ matched \in [Rows -> [Payers -> Nat]]
  /\ ledger \in [Payers -> LedgerRows]
  /\ remarks \subseteq RemarkRows

\* What a request knows at each of its stages.
ChargeStage(r) ==
  /\ r.pc \in {"draft", "batch", "charge", "student", "payer", "balance"} =>
       r.model \in Models /\ r.period \in Periods /\ r.row = NoState
  /\ r.pc = "draft" => r.left # {}
  /\ r.pc \in {"batch", "charge", "student", "payer", "balance"} => r.drafts # <<>>
  /\ r.pc \in {"charge", "student"} => r.i \in DOMAIN r.drafts
  /\ r.pc = "charge" => r.batch \in DOMAIN batches
  /\ r.pc \in {"payer", "balance"} => r.i = 1
  /\ r.pc = "entry" /\ r.row = NoState =>
       r.i \in DOMAIN r.drafts /\ DOMAIN r.after = PayersOf(r.drafts)

Importing(r) == r.import \in DOMAIN imports /\ r.i \in Nat \ {0}

ImportStage(r) ==
  /\ r.pc = "idle" => r.import = 0
  /\ r.pc \in {"refuse", "row", "store", "auto"} => Importing(r)
  /\ r.pc \in {"store", "auto"} =>
       /\ r.i \in DOMAIN Statements[imports[r.import].statement]
       /\ r.row = Statements[imports[r.import].statement][r.i]
  /\ r.pc = "auto" => Row[r.row].payer # NoPayer

MatchStage(r) ==
  r.pc \in {"insert", "status"} \/ (r.pc = "entry" /\ r.row # NoState) =>
    /\ r.row \in Rows /\ r.payer \in Payers /\ DOMAIN r.after = {r.payer}
    /\ r.amount # 0 /\ r.status \in {"rozliczona", "czesciowo_rozliczona"}
    /\ r.import = 0 \/ Importing(r)

StepStage(r) == r.pc = "step" => r.action \in {"snoozed", "completed"} /\ r.parent \in DOMAIN steps

StageOK(r) == ChargeStage(r) /\ ImportStage(r) /\ MatchStage(r) /\ StepStage(r)

RequestInv == request \in [Operators -> RequestRows] /\ \A o \in Operators : StageOK(request[o])

TypeInv == TablesInv /\ RequestInv

\* A product of naturals, which the solver is not asked for again.
LEMMA Rated ==
  ASSUME NEW rate \in Nat, NEW lessons \in Nat, NEW used \in Nat, used <= lessons
  PROVE  used * rate \in Nat /\ used * rate <= rate * lessons /\ rate * lessons \in Nat
<1>1. PICK d \in Nat : lessons = used + d
  <2>1. lessons - used \in Nat /\ lessons = used + (lessons - used)
    OBVIOUS
  <2>2. QED
    BY <2>1
<1>2. rate * lessons = rate * used + rate * d
  BY <1>1
<1>3. rate * d \in Nat /\ rate * used \in Nat /\ used * rate = rate * used
  OBVIOUS
<1>4. QED
  BY <1>2, <1>3

LEMMA RollLemma ==
  /\ DOMAIN Roll = 1..Len(Roll) /\ Len(Roll) \in Nat
  /\ \A i \in DOMAIN Roll : Roll[i] \in Students
  /\ \A i, j \in DOMAIN Roll : Roll[i] = Roll[j] => i = j
BY BillingAssumption DEF IsInjective

\* A function on some of the payers.
LEMMA PartialLemma ==
  ASSUME NEW V, NEW h
  PROVE  /\ h \in Partial(V) => h \in [DOMAIN h -> V] /\ DOMAIN h \subseteq Payers
         /\ \A F \in SUBSET Payers : h \in [F -> V] => h \in Partial(V)
BY DEF Partial

LEMMA IdleLemma == /\ Idle \in RequestRows /\ Idle.pc = "idle" /\ Idle.row = NoState
                   /\ Idle.drafts = <<>> /\ Idle.import = 0
<1>1. Nobody \in Partial(Nat) /\ Nobody \in Partial(Int)
  <2>1. Nobody \in [{} -> Nat] /\ Nobody \in [{} -> Int] /\ {} \in SUBSET Payers
    BY DEF Nobody
  <2>2. QED
    BY <2>1, PartialLemma
<1>2. <<>> \in Seq(Drafts)
  OBVIOUS
<1>3. 0 \in 0..MaxDate
  BY BillingAssumption
<1> HIDE DEF Nobody, Drafts
<1>4. QED
  BY <1>1, <1>2, <1>3 DEF Idle, RequestRows, Stages

-----------------------------------------------------------------------------
(* Drafts *)

\* What a draft is made of: the free lessons used and the state it starts from.
LEMMA StateLemma ==
  ASSUME TablesInv, NEW s \in Students
  PROVE  /\ Student[s].model \in Models /\ Student[s].payer \in Payers
         /\ Model[Student[s].model] \in [rate : Nat, lessons : Nat, intro : Nat, sibling : Nat, large : Nat]
         /\ StateOf(s).intro \in Nat /\ StateOf(s).sibling \in Nat
<1>1. /\ Student[s].model \in Models /\ Student[s].payer \in Payers
      /\ Model[Student[s].model] \in [rate : Nat, lessons : Nat, intro : Nat, sibling : Nat, large : Nat]
  BY BillingAssumption
<1>2. studentState[s] # NoState => studentState[s].intro \in Nat /\ studentState[s].sibling \in Nat
  BY DEF TablesInv, StudentStates
<1>3. QED
  BY <1>1, <1>2 DEF StateOf

\* A draft is a row of its own: its total and the discounts left are never negative, the discounts
\* it takes and leaves are together what it was offered.
LEMMA DraftLemma ==
  ASSUME TablesInv, NEW s \in Students, NEW m \in Models, NEW card \in Nat
  PROVE  LET d == Draft(s, m, card)
         IN /\ d \in Drafts /\ d.student = s
            /\ d.intro + d.introLeft * Model[m].rate = StateOf(s).intro * Model[m].rate
            /\ d.sibling + d.siblingLeft = StateOf(s).sibling
            /\ d.large <= card
            /\ d.fresh = (studentState[s] = NoState)
<1>1. PICK rate \in Nat, lessons \in Nat, intro \in Nat, sibling \in Nat :
        /\ Model[m].rate = rate /\ Model[m].lessons = lessons
        /\ StateOf(s).intro = intro /\ StateOf(s).sibling = sibling
  BY StateLemma, BillingAssumption
<1>2. PICK used \in Nat : used = Lesser(intro, lessons) /\ used <= lessons /\ used <= intro
  BY DEF Lesser
<1>3. PICK base \in Nat, taken \in Nat : base = rate * lessons /\ taken = used * rate /\ taken <= base
  BY <1>2, Rated
<1>4. PICK rest \in Nat : rest = base - taken
  BY <1>3
<1>5. PICK sib \in Nat : sib = Lesser(sibling, rest) /\ sib <= sibling /\ sib <= rest
  BY <1>4 DEF Lesser
<1>6. PICK large \in Nat : large = Lesser(card, rest - sib) /\ large <= card /\ large <= rest - sib
  <2>1. rest - sib \in Nat
    BY <1>5
  <2>2. QED
    BY <2>1 DEF Lesser
<1>7. Draft(s, m, card) = [student |-> s, total |-> rest - sib - large, intro |-> taken, sibling |-> sib,
        large |-> large, introLeft |-> intro - used, siblingLeft |-> sibling - sib,
        fresh |-> studentState[s] = NoState]
  BY <1>1, <1>2, <1>3, <1>4, <1>5, <1>6 DEF Draft
<1>8. rest - sib - large \in Nat /\ intro - used \in Nat /\ sibling - sib \in Nat
  BY <1>2, <1>5, <1>6
<1>9. intro * rate = taken + (intro - used) * rate
  BY <1>3
<1>10. PICK fresh \in BOOLEAN : fresh = (studentState[s] = NoState)
  OBVIOUS
<1>11. Draft(s, m, card) \in Drafts
  BY <1>7, <1>8, <1>10 DEF Drafts
<1>12. QED
  BY <1>1, <1>5, <1>6, <1>7, <1>9, <1>11

-----------------------------------------------------------------------------
(* Every step keeps the types *)

\* Rows of these tables are added at the end and stay; an import keeps its statement.
Grows ==
  /\ DOMAIN batches \subseteq DOMAIN batches' /\ \A n \in DOMAIN batches : batches'[n] = batches[n]
  /\ DOMAIN steps \subseteq DOMAIN steps' /\ \A n \in DOMAIN steps : steps'[n] = steps[n]
  /\ DOMAIN imports \subseteq DOMAIN imports'
  /\ \A n \in DOMAIN imports : imports'[n].statement = imports[n].statement

\* A row added at the end of a table.
LEMMA AppendLemma ==
  ASSUME NEW R, NEW q \in Seq(R), NEW x \in R
  PROVE  /\ Append(q, x) \in Seq(R) /\ Len(Append(q, x)) = Len(q) + 1 /\ Len(q) \in Nat
         /\ DOMAIN q = 1..Len(q) /\ DOMAIN Append(q, x) = 1..(Len(q) + 1)
         /\ \A n \in DOMAIN q : n \in DOMAIN Append(q, x) /\ Append(q, x)[n] = q[n]
         /\ Append(q, x)[Len(q) + 1] = x
OBVIOUS

\* A request's transaction changes what that request knows, and no other.
LEMMA Replaced ==
  ASSUME RequestInv, NEW o \in Operators, NEW rec \in RequestRows, Goto(o, rec)
  PROVE  /\ request' \in [Operators -> RequestRows] /\ request'[o] = rec
         /\ \A p \in Operators \ {o} : request'[p] = request[p]
BY DEF Goto, RequestInv

LEMMA StageKept ==
  ASSUME TablesInv, Grows, NEW r \in RequestRows, StageOK(r)
  PROVE  StageOK(r)'
<1>1. ChargeStage(r)'
  BY DEF StageOK, ChargeStage, Grows, PayersOf
<1>2. Importing(r) => Importing(r)' /\ imports'[r.import].statement = imports[r.import].statement
  BY DEF Importing, Grows
<1>3. ImportStage(r)'
  BY <1>2 DEF StageOK, ImportStage, Importing
<1>4. MatchStage(r)'
  BY <1>2 DEF StageOK, MatchStage
<1>5. StepStage(r)'
  BY DEF StageOK, StepStage, Grows
<1>6. QED
  BY <1>1, <1>3, <1>4, <1>5 DEF StageOK

\* A transaction of a request keeps the types if the tables grow well and the request ends up
\* with a row that fits its stage.
LEMMA MoveTyped ==
  ASSUME TypeInv, NEW o \in Operators, NEW rec \in RequestRows, Goto(o, rec),
         TablesInv', Grows, StageOK(rec)'
  PROVE  TypeInv'
<1>1. /\ request' \in [Operators -> RequestRows] /\ request'[o] = rec
      /\ \A p \in Operators \ {o} : request'[p] = request[p]
  BY Replaced DEF TypeInv
<1>2. ASSUME NEW p \in Operators
      PROVE  StageOK(request[p])'
  <2>1. CASE p = o
    BY <1>1, <2>1 DEF StageOK, ChargeStage, ImportStage, Importing, MatchStage, StepStage
  <2>2. CASE p # o
    <3>1. PICK r \in RequestRows : r = request[p] /\ r = request'[p]
      BY <1>1, <2>2 DEF TypeInv, RequestInv
    <3>2. StageOK(r)
      BY <3>1 DEF TypeInv, RequestInv
    <3>3. StageOK(r)'
      BY <3>2, StageKept DEF TypeInv
    <3>4. QED
      BY <3>1, <3>3 DEF StageOK, ChargeStage, ImportStage, Importing, MatchStage, StepStage
  <2>3. QED
    BY <2>1, <2>2
<1>3. QED
  BY <1>1, <1>2 DEF TypeInv, RequestInv

LEMMA Still ==
  ASSUME TypeInv, UNCHANGED <<register, charging, paying, ledger>>
  PROVE  TablesInv' /\ Grows
BY DEF TypeInv, TablesInv, Grows, register, charging, paying

\* An idle or dead request fits its stage.
LEMMA IdleStage ==
  ASSUME NEW rec \in {Idle, [Idle EXCEPT !.pc = "dead"]}
  PROVE  rec \in RequestRows /\ StageOK(rec)'
<1>1. Idle \in RequestRows /\ "dead" \in Stages /\ Idle.pc = "idle" /\ Idle.import = 0
  BY IdleLemma DEF Stages
<1>2. rec \in RequestRows /\ rec.pc \in {"idle", "dead"} /\ rec.import = 0
  BY <1>1 DEF RequestRows
<1>3. QED
  BY <1>2 DEF StageOK, ChargeStage, ImportStage, MatchStage, StepStage

\* A request that begins or goes on with a row fitting its stage, every table unchanged.
LEMMA StillTyped ==
  ASSUME TypeInv, NEW o \in Operators, NEW rec \in RequestRows, Goto(o, rec),
         UNCHANGED <<register, charging, paying, ledger>>, StageOK(rec)'
  PROVE  TypeInv'
BY Still, MoveTyped

LEMMA EndTyped ==
  ASSUME TypeInv, NEW o \in Operators, TablesInv', Grows, Goto(o, Idle)
  PROVE  TypeInv'
<1>1. Idle \in RequestRows /\ StageOK(Idle)'
  BY IdleStage
<1>2. QED
  BY <1>1, MoveTyped

LEMMA RegistrationTyped ==
  ASSUME TypeInv, NEW o \in Operators, Registration(o)
  PROVE  TypeInv'
<1>1. ASSUME UNCHANGED <<charging, paying, ledger, steps, request>>, rows' \subseteq Registrable,
             remarks' \subseteq RemarkRows
      PROVE  TypeInv'
  <2>1. TablesInv'
    BY <1>1 DEF TypeInv, TablesInv, charging, paying
  <2>2. Grows /\ request' = request
    BY <1>1 DEF Grows, charging, paying
  <2>3. ASSUME NEW p \in Operators
        PROVE  StageOK(request[p])'
    <3>1. PICK r \in RequestRows : r = request[p] /\ StageOK(r)
      BY DEF TypeInv, RequestInv
    <3>2. StageOK(r)' /\ request'[p] = r
      BY <2>2, <3>1, StageKept DEF TypeInv
    <3>3. QED
      BY <3>2 DEF StageOK, ChargeStage, ImportStage, Importing, MatchStage, StepStage
  <2>4. QED
    BY <2>1, <2>2, <2>3 DEF TypeInv, RequestInv
<1>2. ASSUME NEW kind \in {Schools, Models, Payers, Students, Accounts}, NEW x, NEW needs,
             Registers(o, kind, x, needs)
      PROVE  TypeInv'
  <2>1. x \in Registrable /\ rows' = rows \cup {x}
    BY <1>2 DEF Registers, Registrable
  <2>2. rows' \subseteq Registrable
    BY <2>1 DEF TypeInv, TablesInv
  <2>3. QED
    BY <1>1, <1>2, <2>2 DEF Registers, TypeInv, TablesInv
<1>3. ASSUME NEW kind \in {"note", "contact", "decision", "review"}, NEW x \in Payers \cup Rows,
             Remark(o, kind, x)
      PROVE  TypeInv'
  <2>1. <<kind, x>> \in RemarkRows
    BY DEF RemarkRows
  <2>2. remarks' \subseteq RemarkRows
    BY <1>3, <2>1 DEF Remark, TypeInv, TablesInv
  <2>3. QED
    BY <1>1, <1>3, <2>2 DEF Remark, TypeInv, TablesInv
<1>4. ASSUME NEW x \in Later, CreateSchool(o, x) \/ CreateModel(o, x) \/ CreatePayer(o, x)
                              \/ CreateStudent(o, x) \/ CreateBankAccount(o, x)
      PROVE  TypeInv'
  BY <1>2, <1>4 DEF CreateSchool, CreateModel, CreatePayer, CreateStudent, CreateBankAccount
<1>5. ASSUME NEW f \in Payers, AddPayerNote(o, f) \/ AddContactEvent(o, f)
      PROVE  TypeInv'
  BY <1>3, <1>5 DEF AddPayerNote, AddContactEvent
<1>6. ASSUME NEW r \in Rows, AddWorkQueueEvent(o, r) \/ AddPaymentReviewEvent(o, r)
      PROVE  TypeInv'
  BY <1>3, <1>6 DEF AddWorkQueueEvent, AddPaymentReviewEvent
<1>7. QED
  BY <1>4, <1>5, <1>6 DEF Registration

LEMMA GenerateTyped ==
  ASSUME TypeInv, NEW o \in Operators, NEW m \in Models, NEW p \in Periods, Generate(o, m, p)
  PROVE  TypeInv'
<1>1. PICK left \in SUBSET DOMAIN Roll : left = Pupils(m) /\ left # {}
  BY DEF Generate, Pupils
<1>2. PICK rec : rec = [Idle EXCEPT !.pc = "draft", !.model = m, !.period = p, !.left = left]
  OBVIOUS
<1>3. rec \in RequestRows /\ rec.pc = "draft" /\ rec.model = m /\ rec.period = p /\ rec.left = left
      /\ rec.row = NoState
  <2>1. PICK idle \in RequestRows : idle = Idle /\ idle.row = NoState
    BY IdleLemma
  <2>2. rec = [idle EXCEPT !.pc = "draft", !.model = m, !.period = p, !.left = left]
    BY <1>2, <2>1
  <2>3. "draft" \in Stages /\ m \in Models \cup {NoState} /\ p \in Periods \cup {NoState}
    BY DEF Stages
  <2>4. rec \in RequestRows
    <3>1. PICK some : some = [idle EXCEPT !.pc = "draft", !.model = m]
      OBVIOUS
    <3>2. some \in RequestRows
      BY <2>1, <2>3, <3>1, ZenonT(40) DEF RequestRows
    <3>3. rec = [some EXCEPT !.period = p, !.left = left]
      BY <2>2, <3>1
    <3>4. QED
      BY <1>1, <2>3, <3>2, <3>3, ZenonT(40) DEF RequestRows
  <2>5. QED
    BY <2>1, <2>2, <2>4 DEF RequestRows
<1>4. Goto(o, rec) /\ UNCHANGED <<register, charging, paying, ledger>>
  BY <1>1, <1>2 DEF Generate
<1>5. StageOK(rec)'
  BY <1>1, <1>3 DEF StageOK, ChargeStage, ImportStage, MatchStage, StepStage
<1>6. QED
  BY <1>3, <1>4, <1>5, StillTyped

LEMMA NextPupilLemma ==
  ASSUME TypeInv, NEW o \in Operators, request[o].pc = "draft"
  PROVE  NextPlace(o) \in request[o].left /\ NextPupil(o) \in Students /\ Student[NextPupil(o)].payer \in Payers
<1>1. request[o].left \in SUBSET DOMAIN Roll /\ request[o].left # {}
  BY DEF TypeInv, RequestInv, RequestRows, StageOK, ChargeStage
<1>2. \E i \in request[o].left : \A j \in request[o].left : i <= j
  <2>1. request[o].left \in SUBSET Nat
    BY <1>1, RollLemma
  <2>2. QED
    BY <1>1, <2>1, Least
<1>3. NextPlace(o) \in request[o].left
  BY <1>2 DEF NextPlace
<1>4. NextPupil(o) \in Students
  BY <1>1, <1>3, RollLemma DEF NextPupil
<1>5. QED
  BY <1>3, <1>4, BillingAssumption

LEMMA ReadCardTyped ==
  ASSUME TypeInv, NEW o \in Operators, ReadCard(o)
  PROVE  TypeInv'
<1>1. PICK r \in RequestRows : r = request[o] /\ r.pc = "draft" /\ StageOK(r)
  BY DEF ReadCard, TypeInv, RequestInv
<1>2. PICK f \in Payers : f = Student[NextPupil(o)].payer
  BY <1>1, NextPupilLemma
<1>3. PICK card \in Nat : card = CardLeft(f, r.model)
  BY <1>1, BillingAssumption DEF CardLeft, TypeInv, TablesInv, StageOK, ChargeStage
<1>4. PICK cards : cards = WithCard(r.cards, f, card)
  OBVIOUS
<1>5. r.cards \in [DOMAIN r.cards -> Nat] /\ DOMAIN r.cards \subseteq Payers
  BY <1>1, PartialLemma DEF RequestRows
<1>6. cards \in [DOMAIN r.cards \cup {f} -> Nat] /\ DOMAIN r.cards \cup {f} \in SUBSET Payers
  BY <1>4, <1>5 DEF WithCard
<1>7. cards \in Partial(Nat)
  BY <1>6, PartialLemma
<1>8. PICK fresh \in SUBSET Payers : fresh = IF payerState[f] = NoState THEN r.freshCards \cup {f} ELSE r.freshCards
  BY <1>1 DEF RequestRows
<1>9. PICK rec : rec = [r EXCEPT !.cards = cards, !.freshCards = fresh]
  OBVIOUS
<1>10. Goto(o, rec) /\ UNCHANGED <<register, charging, paying, ledger>>
  BY <1>1, <1>2, <1>3, <1>4, <1>8, <1>9 DEF ReadCard
<1>11. rec \in RequestRows
  BY <1>1, <1>7, <1>9, ZenonT(40) DEF RequestRows
<1>12. rec.pc = "draft" /\ rec.model = r.model /\ rec.period = r.period /\ rec.left = r.left /\ rec.row = r.row
  BY <1>1, <1>9 DEF RequestRows
<1>13. StageOK(rec)'
  BY <1>1, <1>12 DEF StageOK, ChargeStage, ImportStage, MatchStage, StepStage
<1>14. QED
  BY <1>10, <1>11, <1>13, StillTyped

LEMMA DraftChargeTyped ==
  ASSUME TypeInv, NEW o \in Operators, DraftCharge(o)
  PROVE  TypeInv'
<1>1. PICK r \in RequestRows : r = request[o] /\ r.pc = "draft" /\ StageOK(r)
  BY DEF DraftCharge, TypeInv, RequestInv
<1>2. PICK s \in Students, f \in Payers : s = NextPupil(o) /\ f = Student[s].payer
  BY <1>1, NextPupilLemma
<1>3. r.cards \in [DOMAIN r.cards -> Nat] /\ DOMAIN r.cards \subseteq Payers
  BY <1>1, PartialLemma DEF RequestRows
<1>4. PICK card \in Nat : card = IF CardKnown(o, f) THEN r.cards[f] ELSE 0
  BY <1>1, <1>3 DEF CardKnown
<1>5. PICK d \in Drafts : d = Draft(s, r.model, card) /\ d.large <= card
  BY <1>1, DraftLemma DEF TypeInv, StageOK, ChargeStage
<1>6. PICK left \in SUBSET DOMAIN Roll : left = r.left \ {NextPlace(o)}
  BY <1>1 DEF RequestRows
<1>7. PICK cards : cards = IF CardKnown(o, f) THEN WithCard(r.cards, f, r.cards[f] - d.large) ELSE r.cards
  OBVIOUS
<1>8. cards \in Partial(Nat)
  <2>1. CASE CardKnown(o, f)
    <3>1. f \in DOMAIN r.cards /\ r.cards[f] - d.large \in Nat
      BY <1>1, <1>3, <1>4, <1>5, <2>1 DEF CardKnown, Drafts
    <3>2. cards \in [DOMAIN r.cards -> Nat]
      BY <1>3, <1>7, <2>1, <3>1 DEF WithCard
    <3>3. QED
      BY <1>3, <3>2, PartialLemma
  <2>2. CASE ~CardKnown(o, f)
    BY <1>1, <1>7, <2>2 DEF RequestRows
  <2>3. QED
    BY <2>1, <2>2
<1>9. PICK rec : rec = [r EXCEPT !.pc = IF left = {} THEN "batch" ELSE "draft", !.left = left,
                                 !.drafts = Append(@, d), !.cards = cards]
  OBVIOUS
<1>10. Goto(o, rec) /\ UNCHANGED <<register, charging, paying, ledger>>
  BY <1>1, <1>2, <1>4, <1>5, <1>6, <1>7, <1>9 DEF DraftCharge
<1>11. Append(r.drafts, d) \in Seq(Drafts) /\ Append(r.drafts, d) # <<>>
  BY <1>1 DEF RequestRows
<1>12. rec \in RequestRows
  <2>1. "batch" \in Stages /\ "draft" \in Stages
    BY DEF Stages
  <2>2. QED
    BY <1>1, <1>6, <1>8, <1>9, <1>11, <2>1, ZenonT(40) DEF RequestRows
<1>13. /\ rec.pc = IF left = {} THEN "batch" ELSE "draft"
       /\ rec.model = r.model /\ rec.period = r.period /\ rec.left = left /\ rec.row = r.row
       /\ rec.drafts = Append(r.drafts, d)
  BY <1>1, <1>9 DEF RequestRows
<1>14. StageOK(rec)'
  BY <1>1, <1>11, <1>13 DEF StageOK, ChargeStage, ImportStage, MatchStage, StepStage
<1>15. QED
  BY <1>10, <1>12, <1>14, StillTyped

LEMMA CreateBatchTyped ==
  ASSUME TypeInv, NEW o \in Operators, CreateBatch(o)
  PROVE  TypeInv'
<1>1. PICK r \in RequestRows : r = request[o] /\ r.pc = "batch" /\ StageOK(r)
  BY DEF CreateBatch, TypeInv, RequestInv
<1>2. CASE Generated(r.model, r.period)
  <2>1. Goto(o, Idle) /\ UNCHANGED <<register, charging, paying, ledger>>
    BY <1>1, <1>2 DEF CreateBatch, charging
  <2>2. QED
    BY <2>1, EndTyped, Still
<1>3. CASE ~Generated(r.model, r.period)
  <2>1. PICK b \in BatchRows : b = [model |-> r.model, period |-> r.period]
    BY <1>1 DEF StageOK, ChargeStage, BatchRows
  <2>2. PICK n \in Nat : n = Len(batches) + 1
    BY DEF TypeInv, TablesInv
  <2>3. PICK rec : rec = [r EXCEPT !.pc = "charge", !.i = 1, !.batch = n]
    OBVIOUS
  <2>4. /\ batches' = Append(batches, b) /\ Goto(o, rec)
        /\ UNCHANGED <<register, charges, studentState, payerState, paying, ledger>>
    BY <1>1, <1>3, <2>1, <2>2, <2>3 DEF CreateBatch, NewBatch
  <2>5. /\ batches' \in Seq(BatchRows) /\ DOMAIN batches' = 1..n
        /\ \A k \in DOMAIN batches : k \in DOMAIN batches' /\ batches'[k] = batches[k]
    BY <2>1, <2>2, <2>4, AppendLemma DEF TypeInv, TablesInv
  <2>6. TablesInv' /\ Grows
    BY <2>4, <2>5 DEF TypeInv, TablesInv, Grows, register, paying
  <2>7. rec \in RequestRows
    BY <1>1, <2>2, <2>3, ZenonT(40) DEF RequestRows, Stages
  <2>8. /\ rec.pc = "charge" /\ rec.model = r.model /\ rec.period = r.period /\ rec.row = r.row
        /\ rec.i = 1 /\ rec.batch = n /\ rec.drafts = r.drafts
    BY <1>1, <2>3 DEF RequestRows
  <2>9. n \in DOMAIN batches' /\ 1 \in DOMAIN r.drafts
    <3>1. n \in 1..n
      BY <2>2 DEF TypeInv, TablesInv
    <3>2. r.drafts \in Seq(Drafts) /\ r.drafts # <<>>
      BY <1>1 DEF RequestRows, StageOK, ChargeStage
    <3>3. QED
      BY <2>5, <3>1, <3>2
  <2>10. StageOK(rec)'
    BY <1>1, <2>8, <2>9 DEF StageOK, ChargeStage, ImportStage, MatchStage, StepStage
  <2>11. QED
    BY <2>4, <2>6, <2>7, <2>10, MoveTyped
<1>4. QED
  BY <1>2, <1>3

\* The next draft, or the first of the stage that follows.
Ahead(r, stage) ==
  IF r.i < Len(r.drafts) THEN [r EXCEPT !.i = @ + 1] ELSE [r EXCEPT !.i = 1, !.pc = stage]

LEMMA OnwardLemma ==
  ASSUME NEW r \in RequestRows, r.i \in DOMAIN r.drafts, NEW stage \in {"student", "payer", "balance"}
  PROVE  LET rec == Ahead(r, stage)
         IN /\ rec \in RequestRows /\ rec.i \in DOMAIN r.drafts
            /\ rec.i = (IF r.i < Len(r.drafts) THEN r.i + 1 ELSE 1)
            /\ rec.pc = (IF r.i < Len(r.drafts) THEN r.pc ELSE stage)
            /\ rec.drafts = r.drafts /\ rec.cards = r.cards /\ rec.model = r.model
            /\ rec.period = r.period /\ rec.row = r.row /\ rec.batch = r.batch
            /\ rec.freshCards = r.freshCards /\ rec.import = r.import /\ rec.payer = r.payer
            /\ rec.amount = r.amount /\ rec.after = r.after /\ rec.left = r.left
<1>1. r.drafts \in Seq(Drafts) /\ r.i \in Nat
  BY DEF RequestRows
<1>2. PICK rec : rec = Ahead(r, stage)
  OBVIOUS
<1>3. CASE r.i < Len(r.drafts)
  <2>1. rec = [r EXCEPT !.i = @ + 1] /\ r.i + 1 \in Nat /\ r.i + 1 \in DOMAIN r.drafts
    BY <1>1, <1>2, <1>3 DEF Ahead
  <2>2. rec \in RequestRows
    BY <2>1 DEF RequestRows
  <2>3. rec.i = r.i + 1 /\ rec.pc = r.pc
    BY <2>1 DEF RequestRows
  <2>4. /\ rec.drafts = r.drafts /\ rec.cards = r.cards /\ rec.model = r.model
        /\ rec.period = r.period /\ rec.row = r.row /\ rec.batch = r.batch
        /\ rec.freshCards = r.freshCards /\ rec.import = r.import /\ rec.payer = r.payer
        /\ rec.amount = r.amount /\ rec.after = r.after /\ rec.left = r.left
    BY <2>1 DEF RequestRows
  <2>5. QED
    BY <1>2, <1>3, <2>1, <2>2, <2>3, <2>4
<1>4. CASE ~(r.i < Len(r.drafts))
  <2>1. rec = [r EXCEPT !.i = 1, !.pc = stage] /\ 1 \in DOMAIN r.drafts
    BY <1>1, <1>2, <1>4 DEF Ahead
  <2>2. rec \in RequestRows
    <3>1. 1 \in Nat /\ stage \in Stages
      BY DEF Stages
    <3>2. QED
      BY <2>1, <3>1 DEF RequestRows
  <2>3. rec.i = 1 /\ rec.pc = stage
    BY <2>1 DEF RequestRows
  <2>4. /\ rec.drafts = r.drafts /\ rec.cards = r.cards /\ rec.model = r.model
        /\ rec.period = r.period /\ rec.row = r.row /\ rec.batch = r.batch
        /\ rec.freshCards = r.freshCards /\ rec.import = r.import /\ rec.payer = r.payer
        /\ rec.amount = r.amount /\ rec.after = r.after /\ rec.left = r.left
    BY <2>1 DEF RequestRows
  <2>5. QED
    BY <1>2, <1>4, <2>1, <2>2, <2>3, <2>4
<1>5. QED
  BY <1>3, <1>4

LEMMA CreateChargeTyped ==
  ASSUME TypeInv, NEW o \in Operators, CreateCharge(o)
  PROVE  TypeInv'
<1>1. PICK r \in RequestRows : r = request[o] /\ r.pc = "charge" /\ StageOK(r)
  BY DEF CreateCharge, TypeInv, RequestInv
<1>2. r.i \in DOMAIN r.drafts /\ r.drafts \in Seq(Drafts) /\ r.drafts # <<>> /\ r.batch \in DOMAIN batches
  BY <1>1 DEF StageOK, ChargeStage, RequestRows
<1>3. PICK d \in Drafts : d = r.drafts[r.i]
  BY <1>2
<1>4. PICK c \in ChargeRows : c = NewCharge(r.batch, d)
  <2>1. r.batch \in Nat \ {0}
    BY <1>2 DEF TypeInv, TablesInv
  <2>2. QED
    BY <2>1 DEF NewCharge, ChargeRows, Drafts
<1>5. PICK rec : rec = Ahead(r, "student")
  OBVIOUS
<1>6. /\ charges' = charges \cup {c} /\ Goto(o, rec)
      /\ UNCHANGED <<register, batches, studentState, payerState, paying, ledger>>
  BY <1>1, <1>3, <1>4, <1>5 DEF CreateCharge, Current, Onward, Ahead
<1>7. TablesInv' /\ Grows
  <2>1. IsFiniteSet(charges')
    BY <1>6, FS_AddElement DEF TypeInv, TablesInv
  <2>2. charges' \subseteq ChargeRows
    BY <1>6 DEF TypeInv, TablesInv
  <2>3. QED
    BY <1>6, <2>1, <2>2 DEF TypeInv, TablesInv, Grows, register, paying
<1>8. /\ rec \in RequestRows /\ rec.i \in DOMAIN rec.drafts /\ rec.pc \in {"charge", "student"}
      /\ rec.drafts = r.drafts /\ rec.model = r.model /\ rec.period = r.period
      /\ rec.row = r.row /\ rec.batch = r.batch
  <2>1. "student" \in {"student", "payer", "balance"}
    OBVIOUS
  <2>2. QED
    BY <1>1, <1>2, <1>5, <2>1, OnwardLemma
<1>9. StageOK(rec)'
  BY <1>1, <1>2, <1>6, <1>8 DEF StageOK, ChargeStage, ImportStage, MatchStage, StepStage
<1>10. QED
  BY <1>6, <1>7, <1>8, <1>9, MoveTyped

LEMMA SaveStudentTyped ==
  ASSUME TypeInv, NEW o \in Operators, SaveStudent(o)
  PROVE  TypeInv'
<1>1. PICK r \in RequestRows : r = request[o] /\ r.pc = "student" /\ StageOK(r)
  BY DEF SaveStudent, TypeInv, RequestInv
<1>2. r.i \in DOMAIN r.drafts /\ r.drafts \in Seq(Drafts) /\ r.drafts # <<>>
  BY <1>1 DEF StageOK, ChargeStage, RequestRows
<1>3. PICK d \in Drafts : d = r.drafts[r.i]
  BY <1>2
<1>4. PICK stage \in {"payer", "balance"} : stage = IF DOMAIN r.cards = {} THEN "balance" ELSE "payer"
  OBVIOUS
<1>5. PICK rec : rec = Ahead(r, stage)
  OBVIOUS
<1>6. CASE d.fresh /\ studentState[d.student] # NoState
  <2>1. Goto(o, Idle) /\ UNCHANGED <<register, charging, paying, ledger>>
    BY <1>1, <1>3, <1>6 DEF SaveStudent, Current, charging
  <2>2. QED
    BY <2>1, EndTyped, Still
<1>7. CASE ~(d.fresh /\ studentState[d.student] # NoState)
  <2>1. PICK left \in StudentStates : left = [intro |-> d.introLeft, sibling |-> d.siblingLeft]
    BY DEF StudentStates, Drafts
  <2>2. /\ studentState' = [studentState EXCEPT ![d.student] = left] /\ Goto(o, rec)
        /\ UNCHANGED <<register, batches, charges, payerState, paying, ledger>>
    BY <1>1, <1>3, <1>4, <1>5, <1>7, <2>1 DEF SaveStudent, Current, Onward, Ahead
  <2>3. TablesInv' /\ Grows
    BY <2>2 DEF TypeInv, TablesInv, Grows, register, paying
  <2>4. /\ rec \in RequestRows /\ rec.i \in DOMAIN rec.drafts
        /\ rec.i = (IF r.i < Len(r.drafts) THEN r.i + 1 ELSE 1)
        /\ rec.pc = (IF r.i < Len(r.drafts) THEN "student" ELSE stage)
        /\ rec.drafts = r.drafts /\ rec.model = r.model /\ rec.period = r.period
        /\ rec.row = r.row /\ rec.batch = r.batch
    <3>1. stage \in {"student", "payer", "balance"}
      BY <1>4
    <3>2. QED
      BY <1>1, <1>2, <1>5, <3>1, OnwardLemma
  <2>5. rec.pc \in {"student", "payer", "balance"} /\ (rec.pc # "student" => rec.i = 1)
    BY <2>4
  <2>6. StageOK(rec)'
    BY <1>1, <1>2, <2>2, <2>4, <2>5 DEF StageOK, ChargeStage, ImportStage, MatchStage, StepStage
  <2>7. QED
    BY <2>2, <2>3, <2>4, <2>6, MoveTyped
<1>8. QED
  BY <1>6, <1>7

LEMMA SavePayerTyped ==
  ASSUME TypeInv, NEW o \in Operators, SavePayer(o)
  PROVE  TypeInv'
<1>1. PICK r \in RequestRows : r = request[o] /\ r.pc = "payer" /\ StageOK(r)
  BY DEF SavePayer, TypeInv, RequestInv
<1>2. r.cards \in [DOMAIN r.cards -> Nat] /\ DOMAIN r.cards \subseteq Payers
  BY <1>1, PartialLemma DEF RequestRows
<1>3. PICK f \in DOMAIN r.cards :
        IF f \in r.freshCards /\ payerState[f] # NoState
        THEN Goto(o, Idle) /\ UNCHANGED payerState
        ELSE /\ payerState' = [payerState EXCEPT ![f] = r.cards[f]]
             /\ LET left == DOMAIN r.cards \ {f}
                IN Goto(o, [r EXCEPT !.cards = [g \in left |-> r.cards[g]],
                                     !.pc = IF left = {} THEN "balance" ELSE "payer"])
  BY <1>1 DEF SavePayer
<1>4. UNCHANGED <<register, batches, charges, studentState, paying, ledger>>
  BY DEF SavePayer
<1>5. CASE f \in r.freshCards /\ payerState[f] # NoState
  <2>1. Goto(o, Idle) /\ UNCHANGED <<register, charging, paying, ledger>>
    BY <1>3, <1>4, <1>5 DEF charging
  <2>2. QED
    BY <2>1, EndTyped, Still
<1>6. CASE ~(f \in r.freshCards /\ payerState[f] # NoState)
  <2>1. PICK left \in SUBSET Payers : left = DOMAIN r.cards \ {f}
    BY <1>2
  <2>2. PICK cards : cards = [g \in left |-> r.cards[g]]
    OBVIOUS
  <2>3. cards \in Partial(Nat)
    <3>1. cards \in [left -> Nat]
      BY <1>2, <2>1, <2>2
    <3>2. QED
      BY <3>1, PartialLemma
  <2>4. PICK rec : rec = [r EXCEPT !.cards = cards, !.pc = IF left = {} THEN "balance" ELSE "payer"]
    OBVIOUS
  <2>5. payerState' = [payerState EXCEPT ![f] = r.cards[f]] /\ Goto(o, rec)
    BY <1>3, <1>6, <2>1, <2>2, <2>4
  <2>6. TablesInv' /\ Grows
    <3>1. f \in Payers /\ r.cards[f] \in Nat
      BY <1>2
    <3>2. QED
      BY <1>4, <2>5, <3>1 DEF TypeInv, TablesInv, Grows, register, paying
  <2>7. rec \in RequestRows
    <3>1. "balance" \in Stages /\ "payer" \in Stages
      BY DEF Stages
    <3>2. QED
      BY <1>1, <2>3, <2>4, <3>1, ZenonT(40) DEF RequestRows
  <2>8. /\ rec.pc \in {"payer", "balance"} /\ rec.drafts = r.drafts /\ rec.model = r.model
        /\ rec.period = r.period /\ rec.row = r.row /\ rec.i = r.i
    BY <1>1, <2>4 DEF RequestRows
  <2>9. StageOK(rec)'
    BY <1>1, <2>8 DEF StageOK, ChargeStage, ImportStage, MatchStage, StepStage
  <2>10. QED
    BY <2>5, <2>6, <2>7, <2>9, MoveTyped
<1>7. QED
  BY <1>5, <1>6

\* The drafts of a family among those at some places, and what they charge.
PlacesOf(ds, K, f) == {k \in K : Student[ds[k].student].payer = f}

TotalOf(ds, K, f) == SumFunctionOnSet([k \in DOMAIN ds |-> ds[k].total], PlacesOf(ds, K, f))

LEMMA DraftsLemma ==
  ASSUME NEW ds \in Seq(Drafts)
  PROVE  /\ DOMAIN ds = 1..Len(ds) /\ Len(ds) \in Nat /\ IsFiniteSet(DOMAIN ds)
         /\ \A k \in DOMAIN ds : /\ ds[k] \in Drafts /\ ds[k].student \in Students
                                 /\ Student[ds[k].student].payer \in Payers
         /\ \A K \in SUBSET DOMAIN ds : \A f : IsFiniteSet(PlacesOf(ds, K, f)) /\ TotalOf(ds, K, f) \in Nat
<1>1. DOMAIN ds = 1..Len(ds) /\ Len(ds) \in Nat
  OBVIOUS
<1>2. IsFiniteSet(DOMAIN ds)
  BY <1>1, FS_Interval
<1>3. ASSUME NEW k \in DOMAIN ds
      PROVE  ds[k] \in Drafts /\ ds[k].student \in Students /\ Student[ds[k].student].payer \in Payers
             /\ ds[k].total \in Nat
  <2>1. ds[k] \in Drafts
    OBVIOUS
  <2>2. ds[k].student \in Students /\ ds[k].total \in Nat
    BY <2>1 DEF Drafts
  <2>3. QED
    BY <2>1, <2>2, BillingAssumption
<1>4. ASSUME NEW K \in SUBSET DOMAIN ds, NEW f
      PROVE  IsFiniteSet(PlacesOf(ds, K, f)) /\ TotalOf(ds, K, f) \in Nat
  <2>1. PlacesOf(ds, K, f) \in SUBSET DOMAIN ds
    BY DEF PlacesOf
  <2>2. IsFiniteSet(PlacesOf(ds, K, f))
    BY <1>2, <2>1, FS_Subset
  <2>3. \A k \in PlacesOf(ds, K, f) : [j \in DOMAIN ds |-> ds[j].total][k] \in Nat
    BY <1>3, <2>1
  <2>4. QED
    BY <2>2, <2>3, SumNat DEF TotalOf
<1>5. QED
  BY <1>1, <1>2, <1>3, <1>4

LEMMA BalanceLemma ==
  ASSUME TablesInv, NEW f \in Payers
  PROVE  /\ Charged(f) \in Nat /\ Paid(f) \in Nat /\ Balance(f) \in Int
         /\ IsFiniteSet(ChargesOf(f)) /\ ChargesOf(f) \in SUBSET charges
<1>1. IsFiniteSet(ChargesOf(f)) /\ ChargesOf(f) \in SUBSET charges
  BY FS_Subset DEF ChargesOf, TablesInv
<1>2. \A c \in ChargesOf(f) : [d \in charges |-> d.total][c] \in Nat
  BY <1>1 DEF TablesInv, ChargeRows
<1>3. Charged(f) \in Nat
  BY <1>1, <1>2, SumNat DEF Charged
<1>4. \A r \in Rows : [x \in Rows |-> matched[x][f]][r] \in Nat
  BY DEF TablesInv
<1>5. Paid(f) \in Nat
  BY <1>4, SumNat, BillingAssumption DEF Paid
<1>6. QED
  BY <1>1, <1>3, <1>5 DEF Balance

LEMMA ReadBalancesTyped ==
  ASSUME TypeInv, NEW o \in Operators, ReadBalances(o)
  PROVE  TypeInv'
<1>1. PICK r \in RequestRows : r = request[o] /\ r.pc = "balance" /\ StageOK(r)
  BY DEF ReadBalances, TypeInv, RequestInv
<1>2. r.drafts \in Seq(Drafts) /\ r.drafts # <<>> /\ r.i = 1 /\ r.row = NoState
  BY <1>1 DEF StageOK, ChargeStage, RequestRows
<1>3. PICK after : after = [f \in PayersOf(r.drafts) |-> Balance(f) - TotalOf(r.drafts, DOMAIN r.drafts, f)]
  OBVIOUS
<1>4. PICK rec : rec = [r EXCEPT !.pc = "entry", !.after = after]
  OBVIOUS
<1>5. Goto(o, rec) /\ UNCHANGED <<register, charging, paying, ledger>>
  BY <1>1, <1>3, <1>4 DEF ReadBalances, TotalOf, PlacesOf
<1>6. after \in Partial(Int)
  <2>1. PayersOf(r.drafts) \in SUBSET Payers
    BY <1>2, DraftsLemma DEF PayersOf
  <2>2. \A f \in PayersOf(r.drafts) : Balance(f) - TotalOf(r.drafts, DOMAIN r.drafts, f) \in Int
    BY <1>2, <2>1, DraftsLemma, BalanceLemma DEF TypeInv
  <2>3. after \in [PayersOf(r.drafts) -> Int]
    BY <1>3, <2>2
  <2>4. QED
    BY <2>1, <2>3, PartialLemma
<1>7. rec \in RequestRows
  BY <1>1, <1>4, <1>6, ZenonT(40) DEF RequestRows, Stages
<1>8. /\ rec.pc = "entry" /\ rec.after = after /\ rec.drafts = r.drafts /\ rec.i = r.i /\ rec.row = r.row
  BY <1>1, <1>4 DEF RequestRows
<1>9. 1 \in DOMAIN r.drafts /\ DOMAIN after = PayersOf(r.drafts)
  BY <1>2, <1>3
<1>10. StageOK(rec)'
  BY <1>2, <1>8, <1>9 DEF StageOK, ChargeStage, ImportStage, MatchStage, StepStage, PayersOf
<1>11. QED
  BY <1>5, <1>7, <1>10, StillTyped

\* What the ledger gains of an entry.
LEMMA EntryLemma ==
  ASSUME TypeInv, NEW f \in Payers, NEW delta \in Int, NEW after \in Int,
         ledger' = [ledger EXCEPT ![f] = Entry(f, delta, after)]
  PROVE  /\ ledger' \in [Payers -> LedgerRows]
         /\ ledger'[f] = [posted |-> ledger[f].posted + delta, after |-> after]
         /\ \A g \in Payers \ {f} : ledger'[g] = ledger[g]
<1>1. ledger \in [Payers -> LedgerRows] /\ ledger[f].posted \in Int
  BY DEF TypeInv, TablesInv, LedgerRows
<1>2. Entry(f, delta, after) \in LedgerRows
  BY <1>1 DEF Entry, LedgerRows
<1>3. QED
  BY <1>1, <1>2 DEF Entry

LEMMA PostChargeTyped ==
  ASSUME TypeInv, NEW o \in Operators, PostCharge(o)
  PROVE  TypeInv'
<1>1. PICK r \in RequestRows : r = request[o] /\ r.pc = "entry" /\ r.row = NoState /\ StageOK(r)
  BY DEF PostCharge, TypeInv, RequestInv
<1>2. r.i \in DOMAIN r.drafts /\ r.drafts \in Seq(Drafts) /\ DOMAIN r.after = PayersOf(r.drafts)
  BY <1>1 DEF StageOK, ChargeStage, RequestRows
<1>3. \E f \in Payers : f = Student[r.drafts[r.i].student].payer /\ f \in DOMAIN r.after /\ r.drafts[r.i].total \in Nat
  <2>1. PICK d \in Drafts : d = r.drafts[r.i] /\ Student[d.student].payer \in Payers
    BY <1>2, DraftsLemma
  <2>2. d.total \in Nat
    BY <2>1 DEF Drafts
  <2>3. Student[d.student].payer \in PayersOf(r.drafts)
    BY <1>2, <2>1 DEF PayersOf
  <2>4. QED
    BY <1>2, <2>1, <2>2, <2>3
<1>4. r.after \in [DOMAIN r.after -> Int] /\ DOMAIN r.after \subseteq Payers
  BY <1>1, PartialLemma DEF RequestRows
<1>5. PICK f \in Payers : f = Student[r.drafts[r.i].student].payer /\ f \in DOMAIN r.after
  BY <1>3
<1>6. PICK total \in Nat : total = r.drafts[r.i].total
  BY <1>3
<1>7. PICK after \in Int : after = r.after[f] + total
  <2>1. r.after[f] \in Int
    BY <1>4, <1>5
  <2>2. QED
    BY <2>1
<1>8. ledger' = [ledger EXCEPT ![f] = Entry(f, total, after)] /\ UNCHANGED <<register, charging, paying>>
  BY <1>1, <1>5, <1>6, <1>7 DEF PostCharge, Current
<1>9. TablesInv' /\ Grows
  <2>1. ledger' \in [Payers -> LedgerRows]
    <3>1. f \in Payers /\ total \in Int /\ after \in Int
      OBVIOUS
    <3>2. QED
      BY <1>8, <3>1, EntryLemma
  <2>2. QED
    BY <1>8, <2>1 DEF TypeInv, TablesInv, Grows, register, paying, charging
<1>10. CASE r.i < Len(r.drafts)
  <2>1. PICK all : all = [r.after EXCEPT ![f] = after]
    OBVIOUS
  <2>2. PICK next \in Nat : next = r.i + 1 /\ next \in DOMAIN r.drafts
    BY <1>2, <1>10
  <2>3. PICK rec : rec = [r EXCEPT !.i = next, !.after = all]
    OBVIOUS
  <2>4. Goto(o, rec)
    BY <1>1, <1>5, <1>6, <1>7, <1>10, <2>2, <2>1, <2>3 DEF PostCharge, Current
  <2>5. all \in Partial(Int) /\ DOMAIN all = DOMAIN r.after
    <3>1. all \in [DOMAIN r.after -> Int]
      BY <1>4, <2>1
    <3>2. QED
      BY <1>4, <3>1, PartialLemma
  <2>6. rec \in RequestRows
    BY <2>3, <2>5 DEF RequestRows
  <2>7. rec.pc = "entry" /\ rec.row = NoState /\ rec.after = all /\ rec.drafts = r.drafts /\ rec.i = next
    BY <1>1, <2>3 DEF RequestRows
  <2>8. StageOK(rec)'
    BY <1>2, <2>2, <2>5, <2>7 DEF StageOK, ChargeStage, ImportStage, MatchStage, StepStage, PayersOf
  <2>9. QED
    BY <1>9, <2>4, <2>6, <2>8, MoveTyped
<1>11. CASE ~(r.i < Len(r.drafts))
  <2>1. Goto(o, Idle)
    BY <1>1, <1>11 DEF PostCharge
  <2>2. QED
    BY <1>9, <2>1, EndTyped
<1>12. QED
  BY <1>10, <1>11

LEMMA ImportStatementTyped ==
  ASSUME TypeInv, NEW o \in Operators, NEW k \in DOMAIN Statements, ImportStatement(o, k)
  PROVE  TypeInv'
<1>1. PICK n \in Nat : n = Len(imports) + 1 /\ n \in 1..n
  BY DEF TypeInv, TablesInv
<1>2. PICK pc \in Stages : pc = (IF k \in Unreadable THEN "refuse" ELSE "row") /\ pc \in {"refuse", "row"}
  BY DEF Stages
<1>3. PICK rec : rec = [Idle EXCEPT !.pc = pc, !.import = n, !.i = 1]
  OBVIOUS
<1>4. PICK new \in ImportRows : new = NewImport(k)
  BY DEF NewImport, ImportRows
<1>5. /\ imports' = Append(imports, new) /\ Goto(o, rec)
      /\ UNCHANGED <<register, charging, transaction, matched, ledger>>
  BY <1>1, <1>2, <1>3, <1>4 DEF ImportStatement
<1>6. /\ imports' \in Seq(ImportRows) /\ DOMAIN imports' = 1..n
      /\ \A j \in DOMAIN imports : j \in DOMAIN imports' /\ imports'[j] = imports[j]
  BY <1>1, <1>5, AppendLemma DEF TypeInv, TablesInv
<1>7. TablesInv' /\ Grows
  BY <1>5, <1>6 DEF TypeInv, TablesInv, Grows, register, charging
<1>8. PICK idle \in RequestRows : idle = Idle
  BY IdleLemma
<1>9. rec = [idle EXCEPT !.pc = pc, !.import = n, !.i = 1] /\ 1 \in Nat
  BY <1>3, <1>8
<1>10. rec \in RequestRows
  BY <1>9 DEF RequestRows
<1>11. rec.pc = pc /\ rec.import = n /\ rec.i = 1
  BY <1>9 DEF RequestRows
<1>12. StageOK(rec)'
  BY <1>1, <1>2, <1>6, <1>11 DEF StageOK, ChargeStage, ImportStage, Importing, MatchStage, StepStage
<1>13. QED
  BY <1>5, <1>7, <1>10, <1>12, MoveTyped

LEMMA EndImportTyped ==
  ASSUME TypeInv, NEW o \in Operators, NEW status \in {"zaimportowany", "blad"},
         request[o].pc \in {"refuse", "row"}, EndImport(o, status)
  PROVE  TypeInv'
<1>1. PICK n \in DOMAIN imports : n = request[o].import
  BY DEF TypeInv, RequestInv, StageOK, ImportStage, Importing
<1>2. PICK new \in ImportRows : new = [imports[n] EXCEPT !.status = status] /\ new.statement = imports[n].statement
  <2>1. PICK old \in ImportRows : old = imports[n]
    BY DEF TypeInv, TablesInv
  <2>2. [old EXCEPT !.status = status] \in ImportRows /\ [old EXCEPT !.status = status].statement = old.statement
    BY DEF ImportRows
  <2>3. QED
    BY <2>1, <2>2
<1>3. imports' = [imports EXCEPT ![n] = new]
  BY <1>1, <1>2 DEF EndImport
<1>4. imports' \in Seq(ImportRows) /\ DOMAIN imports' = DOMAIN imports
      /\ \A j \in DOMAIN imports : imports'[j].statement = imports[j].statement
  BY <1>2, <1>3 DEF TypeInv, TablesInv
<1>5. TablesInv' /\ Grows
  BY <1>4 DEF EndImport, TypeInv, TablesInv, Grows, register, charging
<1>6. QED
  BY <1>5, EndTyped DEF EndImport

\* The request of an import that goes on with the next row of its statement.
LEMMA NextRowLemma ==
  ASSUME TypeInv, NEW o \in Operators, NEW r \in RequestRows, r = request[o], Importing(r)
  PROVE  /\ NextRow(o) \in RequestRows /\ NextRow(o).pc = "row" /\ NextRow(o).import = r.import
         /\ NextRow(o).i = r.i + 1 /\ NextRow(o).row = NoState
<1>1. PICK rec, import, i : rec = [Idle EXCEPT !.pc = "row", !.import = import, !.i = i]
                            /\ rec = NextRow(o) /\ import = r.import /\ i = r.i + 1
  BY DEF NextRow
<1>2. import \in Nat /\ i \in Nat /\ "row" \in Stages
  BY <1>1 DEF Importing, RequestRows, Stages
<1>3. PICK idle \in RequestRows : idle = Idle /\ idle.row = NoState
  BY IdleLemma
<1>4. rec = [idle EXCEPT !.pc = "row", !.import = import, !.i = i]
  BY <1>1, <1>3
<1>5. rec \in RequestRows
  BY <1>2, <1>4 DEF RequestRows
<1>6. rec.pc = "row" /\ rec.import = import /\ rec.i = i /\ rec.row = idle.row
  BY <1>4 DEF RequestRows
<1>7. QED
  BY <1>1, <1>3, <1>5, <1>6

LEMMA NextRowStage ==
  ASSUME TypeInv, NEW o \in Operators, NEW r \in RequestRows, r = request[o], Importing(r), Grows
  PROVE  \E rec \in RequestRows : rec = NextRow(o) /\ StageOK(rec)'
<1>1. PICK rec \in RequestRows : rec = NextRow(o) /\ rec.pc = "row" /\ rec.import = r.import /\ rec.i = r.i + 1
  BY NextRowLemma
<1>2. r.i + 1 \in Nat \ {0} /\ r.import \in DOMAIN imports'
  BY DEF Importing, Grows
<1>3. StageOK(rec)'
  BY <1>1, <1>2 DEF StageOK, ChargeStage, ImportStage, Importing, MatchStage, StepStage
<1>4. QED
  BY <1>1, <1>3

LEMMA NextRowTyped ==
  ASSUME TypeInv, NEW o \in Operators, NEW r \in RequestRows, r = request[o], Importing(r), Grows,
         TablesInv', Goto(o, NextRow(o))
  PROVE  TypeInv'
<1>1. PICK rec \in RequestRows : rec = NextRow(o) /\ StageOK(rec)'
  BY NextRowStage
<1>2. Goto(o, rec)
  BY <1>1
<1>3. QED
  BY <1>1, <1>2, MoveTyped

LEMMA StatementLemma ==
  ASSUME TypeInv, NEW n \in DOMAIN imports
  PROVE  /\ imports[n] \in ImportRows /\ Statements[imports[n].statement] \in Seq(Rows)
         /\ imports[n].statement \in DOMAIN Statements
<1>1. imports[n] \in ImportRows
  BY DEF TypeInv, TablesInv
<1>2. imports[n].statement \in DOMAIN Statements
  BY <1>1 DEF ImportRows
<1>3. QED
  BY <1>1, <1>2, BillingAssumption

LEMMA LookUpRowTyped ==
  ASSUME TypeInv, NEW o \in Operators, LookUpRow(o)
  PROVE  TypeInv'
<1>1. PICK r \in RequestRows : r = request[o] /\ r.pc = "row" /\ StageOK(r)
  BY DEF LookUpRow, TypeInv, RequestInv
<1>2. Importing(r) /\ r.i \in Nat
  BY <1>1 DEF StageOK, ImportStage, Importing
<1>3. PICK file \in Seq(Rows) : file = Statements[imports[r.import].statement]
  BY <1>2, StatementLemma DEF Importing
<1>4. r.i \in DOMAIN file
  BY <1>1, <1>2, <1>3 DEF LookUpRow, MoreRows, StatementOf, Importing
<1>5. PICK row \in Rows : row = file[r.i]
  BY <1>4
<1>6. UNCHANGED <<register, charging, paying, ledger>>
  BY DEF LookUpRow
<1>7. CASE Known(row)
  <2>1. Goto(o, NextRow(o))
    BY <1>1, <1>3, <1>5, <1>7 DEF LookUpRow, StatementOf
  <2>2. QED
    BY <1>1, <1>2, <1>6, <2>1, Still, NextRowTyped
<1>8. CASE ~Known(row)
  <2>1. PICK rec : rec = [r EXCEPT !.pc = "store", !.row = row]
    OBVIOUS
  <2>2. Goto(o, rec)
    BY <1>1, <1>3, <1>5, <1>8, <2>1 DEF LookUpRow, StatementOf
  <2>3. rec \in RequestRows
    BY <2>1 DEF RequestRows, Stages
  <2>4. rec.pc = "store" /\ rec.row = row /\ rec.import = r.import /\ rec.i = r.i
    BY <2>1 DEF RequestRows
  <2>5. StageOK(rec)'
    BY <1>2, <1>3, <1>4, <1>5, <1>6, <2>4 DEF StageOK, ChargeStage, ImportStage, Importing, MatchStage, StepStage, paying
  <2>6. QED
    BY <1>6, <2>2, <2>3, <2>5, StillTyped
<1>9. QED
  BY <1>7, <1>8

LEMMA StoreRowTyped ==
  ASSUME TypeInv, NEW o \in Operators, StoreRow(o)
  PROVE  TypeInv'
<1>1. PICK r \in RequestRows : r = request[o] /\ r.pc = "store" /\ StageOK(r)
  BY DEF StoreRow, TypeInv, RequestInv
<1>2. /\ Importing(r) /\ r.i \in DOMAIN Statements[imports[r.import].statement]
      /\ r.row = Statements[imports[r.import].statement][r.i]
  BY <1>1 DEF StageOK, ImportStage
<1>3. r.row \in Rows
  <2>1. Statements[imports[r.import].statement] \in Seq(Rows)
    BY <1>2, StatementLemma DEF Importing
  <2>2. QED
    BY <1>2, <2>1
<1>4. UNCHANGED <<register, charging, imports, matched, ledger>>
  BY DEF StoreRow
<1>5. CASE transaction[r.row].stored
  <2>1. Goto(o, Idle) /\ UNCHANGED <<register, charging, paying, ledger>>
    BY <1>1, <1>5 DEF StoreRow, paying
  <2>2. QED
    BY <2>1, EndTyped, Still
<1>6. CASE ~transaction[r.row].stored
  <2>1. /\ transaction' = [transaction EXCEPT ![r.row].stored = TRUE]
        /\ Goto(o, IF Row[r.row].payer # NoPayer THEN [r EXCEPT !.pc = "auto"] ELSE NextRow(o))
    BY <1>1, <1>6 DEF StoreRow
  <2>2. transaction' \in [Rows -> TransactionRows]
    BY <1>3, <2>1 DEF TypeInv, TablesInv, TransactionRows
  <2>3. TablesInv' /\ Grows
    BY <1>4, <2>2 DEF TypeInv, TablesInv, Grows, register, charging
  <2>4. CASE Row[r.row].payer # NoPayer
    <3>1. PICK rec : rec = [r EXCEPT !.pc = "auto"]
      OBVIOUS
    <3>2. Goto(o, rec)
      BY <2>1, <2>4, <3>1
    <3>3. rec \in RequestRows
      BY <3>1 DEF RequestRows, Stages
    <3>4. rec.pc = "auto" /\ rec.row = r.row /\ rec.import = r.import /\ rec.i = r.i
      BY <3>1 DEF RequestRows
    <3>5. StageOK(rec)'
      BY <1>2, <1>4, <2>4, <3>4 DEF StageOK, ChargeStage, ImportStage, Importing, MatchStage, StepStage
    <3>6. QED
      BY <2>3, <3>2, <3>3, <3>5, MoveTyped
  <2>5. CASE ~(Row[r.row].payer # NoPayer)
    <3>1. Goto(o, NextRow(o))
      BY <2>1, <2>5
    <3>2. QED
      BY <1>1, <1>2, <2>3, <3>1, NextRowTyped
  <2>6. QED
    BY <2>4, <2>5
<1>7. QED
  BY <1>5, <1>6

LEMMA MatchedLemma ==
  ASSUME TablesInv, NEW r \in Rows
  PROVE  MatchedOf(r) \in Nat /\ Absolute(Row[r].amount) \in Nat \ {0}
<1>1. \A f \in Payers : matched[r][f] \in Nat
  BY DEF TablesInv
<1>2. MatchedOf(r) \in Nat
  BY <1>1, SumNat, BillingAssumption DEF MatchedOf
<1>3. PICK n \in Int \ {0} : n = Row[r].amount
  BY BillingAssumption
<1>4. QED
  BY <1>2, <1>3 DEF Absolute

\* What a request knows when it goes on to insert a match.
Matches(rec, r, row, f, amount) ==
  /\ rec.pc = "insert" /\ rec.row = row /\ rec.payer = f /\ rec.amount = amount
  /\ DOMAIN rec.after = {f} /\ rec.after[f] = Balance(f) - amount
  /\ rec.status = IF MatchedOf(row) + amount >= Absolute(Row[row].amount)
                  THEN "rozliczona" ELSE "czesciowo_rozliczona"
  /\ rec.import = r.import /\ rec.i = r.i

LEMMA MatchingLemma ==
  ASSUME TypeInv, NEW o \in Operators, NEW r \in RequestRows, r = request[o],
         NEW row \in Rows, NEW f \in Payers, NEW amount \in Nat \ {0}, r.import = 0 \/ Importing(r)
  PROVE  \E rec \in RequestRows :
           rec = Matching(o, row, f, amount) /\ StageOK(rec) /\ Matches(rec, r, row, f, amount)
<1>1. PICK after : after = [g \in {f} |-> Balance(f) - amount]
  OBVIOUS
<1>2. after \in Partial(Int) /\ DOMAIN after = {f}
  <2>1. Balance(f) \in Int
    BY BalanceLemma DEF TypeInv
  <2>2. after \in [{f} -> Int] /\ {f} \in SUBSET Payers
    BY <1>1, <2>1
  <2>3. QED
    BY <2>2, PartialLemma
<1>3. PICK status \in {"rozliczona", "czesciowo_rozliczona"} :
        status = IF MatchedOf(row) + amount >= Absolute(Row[row].amount)
                 THEN "rozliczona" ELSE "czesciowo_rozliczona"
  OBVIOUS
<1>4. PICK rec : rec = [r EXCEPT !.pc = "insert", !.row = row, !.payer = f, !.amount = amount,
                                 !.after = after, !.status = status]
  OBVIOUS
<1>5. rec = Matching(o, row, f, amount)
  BY <1>1, <1>3, <1>4 DEF Matching
<1>6. rec \in RequestRows
  <2>1. "insert" \in Stages
    BY DEF Stages
  <2>2. QED
    BY <1>2, <1>4, <2>1, ZenonT(40) DEF RequestRows
<1>7. /\ rec.pc = "insert" /\ rec.row = row /\ rec.payer = f /\ rec.amount = amount /\ rec.after = after
      /\ rec.status = status /\ rec.import = r.import /\ rec.i = r.i
  BY <1>4 DEF RequestRows
<1>8. StageOK(rec)
  BY <1>2, <1>7 DEF StageOK, ChargeStage, ImportStage, MatchStage, StepStage, Importing
<1>9. Matches(rec, r, row, f, amount)
  BY <1>1, <1>2, <1>3, <1>7 DEF Matches
<1>10. QED
  BY <1>5, <1>6, <1>8, <1>9

LEMMA MatchingTyped ==
  ASSUME TypeInv, NEW o \in Operators, NEW r \in RequestRows, r = request[o],
         NEW row \in Rows, NEW f \in Payers, NEW amount \in Nat \ {0}, r.import = 0 \/ Importing(r),
         Goto(o, Matching(o, row, f, amount)), UNCHANGED <<register, charging, paying, ledger>>
  PROVE  TypeInv'
<1>1. PICK rec \in RequestRows : rec = Matching(o, row, f, amount) /\ StageOK(rec)
  BY MatchingLemma
<1>2. StageOK(rec)'
  BY <1>1, Still, StageKept DEF TypeInv
<1>3. Goto(o, rec)
  BY <1>1
<1>4. QED
  BY <1>2, <1>3, StillTyped

LEMMA AutoMatchTyped ==
  ASSUME TypeInv, NEW o \in Operators, AutoMatch(o)
  PROVE  TypeInv'
<1>1. PICK r \in RequestRows : r = request[o] /\ r.pc = "auto" /\ StageOK(r)
  BY DEF AutoMatch, TypeInv, RequestInv
<1>2. /\ Importing(r) /\ r.i \in DOMAIN Statements[imports[r.import].statement]
      /\ r.row = Statements[imports[r.import].statement][r.i] /\ Row[r.row].payer # NoPayer
  BY <1>1 DEF StageOK, ImportStage
<1>3. PICK row \in Rows : row = r.row
  <2>1. PICK file \in Seq(Rows) : file = Statements[imports[r.import].statement]
    BY <1>2, StatementLemma DEF Importing
  <2>2. r.i \in DOMAIN file /\ r.row = file[r.i]
    BY <1>2, <2>1
  <2>3. QED
    BY <2>2
<1>4. PICK f \in Payers : f = Row[row].payer
  BY <1>2, <1>3, BillingAssumption
<1>5. PICK amount \in Nat \ {0} : amount = Absolute(Row[row].amount)
  BY MatchedLemma DEF TypeInv
<1>6. Goto(o, IF f \in rows THEN Matching(o, row, f, amount) ELSE NextRow(o))
      /\ UNCHANGED <<register, charging, paying, ledger>>
  BY <1>1, <1>3, <1>4, <1>5 DEF AutoMatch
<1>7. CASE f \in rows
  BY <1>1, <1>2, <1>6, <1>7, MatchingTyped
<1>8. CASE f \notin rows
  BY <1>1, <1>2, <1>6, <1>8, Still, NextRowTyped
<1>9. QED
  BY <1>7, <1>8

\* A match by hand begins from an idle request.
LEMMA MatchByHandTyped ==
  ASSUME TypeInv, NEW o \in Operators, NEW row \in Rows, NEW f \in Payers, NEW amount \in Amounts,
         MatchByHand(o, row, f, amount)
  PROVE  TypeInv'
<1>1. PICK r \in RequestRows : r = request[o] /\ r.import = 0
  BY DEF TypeInv, RequestInv, MatchByHand, Begin, StageOK, ImportStage
<1>2. amount \in Nat \ {0}
  BY BillingAssumption
<1>3. Goto(o, Matching(o, row, f, amount)) /\ UNCHANGED <<register, charging, paying, ledger>>
  BY DEF MatchByHand
<1>4. QED
  BY <1>1, <1>2, <1>3, MatchingTyped

\* The row and the family a request is matching.
LEMMA MatchStageLemma ==
  ASSUME TypeInv, NEW o \in Operators,
         request[o].pc \in {"insert", "status"} \/ (request[o].pc = "entry" /\ request[o].row # NoState)
  PROVE  \E r \in RequestRows :
           /\ r = request[o] /\ StageOK(r) /\ r.row \in Rows /\ r.payer \in Payers
           /\ r.amount \in Nat \ {0} /\ r.status \in {"rozliczona", "czesciowo_rozliczona"}
           /\ DOMAIN r.after = {r.payer} /\ r.after[r.payer] \in Int
           /\ r.import = 0 \/ Importing(r)
<1>1. PICK r \in RequestRows : r = request[o] /\ StageOK(r)
  BY DEF TypeInv, RequestInv
<1>2. /\ r.row \in Rows /\ r.payer \in Payers /\ DOMAIN r.after = {r.payer}
      /\ r.amount # 0 /\ r.status \in {"rozliczona", "czesciowo_rozliczona"}
      /\ r.import = 0 \/ Importing(r)
  BY <1>1 DEF StageOK, MatchStage
<1>3. r.after \in [DOMAIN r.after -> Int] /\ r.amount \in Nat
  BY PartialLemma DEF RequestRows
<1>4. QED
  BY <1>1, <1>2, <1>3

LEMMA InsertMatchTyped ==
  ASSUME TypeInv, NEW o \in Operators, InsertMatch(o)
  PROVE  TypeInv'
<1>1. PICK r \in RequestRows : r = request[o] /\ StageOK(r) /\ r.row \in Rows /\ r.payer \in Payers
                               /\ r.amount \in Nat \ {0} /\ r.pc = "insert"
  BY MatchStageLemma DEF InsertMatch
<1>2. PICK rec : rec = [r EXCEPT !.pc = "status"]
  OBVIOUS
<1>3. /\ matched' = [matched EXCEPT ![r.row][r.payer] = @ + r.amount] /\ Goto(o, rec)
      /\ UNCHANGED <<register, charging, imports, transaction, ledger>>
  BY <1>1, <1>2 DEF InsertMatch
<1>4. matched' \in [Rows -> [Payers -> Nat]]
  BY <1>1, <1>3 DEF TypeInv, TablesInv
<1>5. TablesInv' /\ Grows
  BY <1>3, <1>4 DEF TypeInv, TablesInv, Grows, register, charging
<1>6. rec \in RequestRows
  BY <1>2 DEF RequestRows, Stages
<1>7. /\ rec.pc = "status" /\ rec.row = r.row /\ rec.payer = r.payer /\ rec.amount = r.amount
      /\ rec.after = r.after /\ rec.status = r.status /\ rec.import = r.import /\ rec.i = r.i
  BY <1>2 DEF RequestRows
<1>8. StageOK(rec)'
  BY <1>1, <1>3, <1>7 DEF StageOK, ChargeStage, ImportStage, MatchStage, StepStage, Importing
<1>9. QED
  BY <1>3, <1>5, <1>6, <1>8, MoveTyped

LEMMA UpdateTransactionTyped ==
  ASSUME TypeInv, NEW o \in Operators, UpdateTransaction(o)
  PROVE  TypeInv'
<1>1. PICK r \in RequestRows : r = request[o] /\ StageOK(r) /\ r.row \in Rows /\ r.pc = "status"
                               /\ r.status \in {"rozliczona", "czesciowo_rozliczona"}
  BY MatchStageLemma DEF UpdateTransaction
<1>2. PICK rec : rec = [r EXCEPT !.pc = "entry"]
  OBVIOUS
<1>3. /\ transaction' = [transaction EXCEPT ![r.row].status = r.status] /\ Goto(o, rec)
      /\ UNCHANGED <<register, charging, imports, matched, ledger>>
  BY <1>1, <1>2 DEF UpdateTransaction
<1>4. transaction' \in [Rows -> TransactionRows]
  BY <1>1, <1>3 DEF TypeInv, TablesInv, TransactionRows
<1>5. TablesInv' /\ Grows
  BY <1>3, <1>4 DEF TypeInv, TablesInv, Grows, register, charging
<1>6. rec \in RequestRows
  BY <1>2 DEF RequestRows, Stages
<1>7. /\ rec.pc = "entry" /\ rec.row = r.row /\ rec.payer = r.payer /\ rec.amount = r.amount
      /\ rec.after = r.after /\ rec.status = r.status /\ rec.import = r.import /\ rec.i = r.i
  BY <1>2 DEF RequestRows
<1>8. r.row # NoState
  BY <1>1, BillingAssumption
<1>9. StageOK(rec)'
  BY <1>1, <1>3, <1>7, <1>8 DEF StageOK, ChargeStage, ImportStage, MatchStage, StepStage, Importing
<1>10. QED
  BY <1>3, <1>5, <1>6, <1>9, MoveTyped

LEMMA PostMatchTyped ==
  ASSUME TypeInv, NEW o \in Operators, PostMatch(o)
  PROVE  TypeInv'
<1>1. PICK r \in RequestRows : r = request[o] /\ r.payer \in Payers /\ r.amount \in Nat
                               /\ r.after[r.payer] \in Int /\ (r.import = 0 \/ Importing(r))
  BY MatchStageLemma DEF PostMatch
<1>2. PICK f \in Payers : f = r.payer
  BY <1>1
<1>3. PICK delta \in Int : delta = -r.amount
  BY <1>1
<1>4. PICK after \in Int : after = r.after[f]
  BY <1>1, <1>2
<1>5. ledger' = [ledger EXCEPT ![f] = Entry(f, delta, after)] /\ UNCHANGED <<register, charging, paying>>
  BY <1>1, <1>2, <1>3, <1>4 DEF PostMatch
<1>6. ledger' \in [Payers -> LedgerRows]
  BY <1>5, EntryLemma
<1>7. TablesInv' /\ Grows
  BY <1>5, <1>6 DEF TypeInv, TablesInv, Grows, register, paying, charging
<1>8. CASE r.import = 0
  <2>1. Goto(o, Idle)
    BY <1>1, <1>8 DEF PostMatch
  <2>2. QED
    BY <1>7, <2>1, EndTyped
<1>9. CASE r.import # 0
  <2>1. Goto(o, NextRow(o))
    BY <1>1, <1>9 DEF PostMatch
  <2>2. QED
    BY <1>1, <1>7, <1>9, <2>1, NextRowTyped
<1>10. QED
  BY <1>8, <1>9

LEMMA StepsTyped ==
  ASSUME TypeInv, NEW new \in StepRows, steps' = Append(steps, new),
         UNCHANGED <<rows, remarks, charging, paying, ledger>>
  PROVE  TablesInv' /\ Grows
<1>1. steps \in Seq(StepRows)
  BY DEF TypeInv, TablesInv
<1>2. steps' \in Seq(StepRows) /\ \A n \in DOMAIN steps : n \in DOMAIN steps' /\ steps'[n] = steps[n]
  BY <1>1, AppendLemma
<1>3. QED
  BY <1>2 DEF TypeInv, TablesInv, Grows, charging, paying

LEMMA PlanStepTyped ==
  ASSUME TypeInv, NEW o \in Operators, NEW d \in 0..MaxDate, PlanStep(o, d)
  PROVE  TypeInv'
<1>1. PICK new \in StepRows : new = [action |-> "planned", parent |-> 0, date |-> d]
  BY DEF StepRows
<1>2. TablesInv' /\ Grows
  BY <1>1, StepsTyped DEF PlanStep
<1>3. ASSUME NEW p \in Operators
      PROVE  StageOK(request[p])'
  <2>1. PICK r \in RequestRows : r = request[p] /\ r = request'[p] /\ StageOK(r)
    BY DEF PlanStep, TypeInv, RequestInv
  <2>2. StageOK(r)'
    BY <1>2, <2>1, StageKept DEF TypeInv
  <2>3. QED
    BY <2>1, <2>2 DEF StageOK, ChargeStage, ImportStage, Importing, MatchStage, StepStage
<1>4. QED
  BY <1>2, <1>3 DEF PlanStep, TypeInv, RequestInv

LEMMA CheckStepTyped ==
  ASSUME TypeInv, NEW o \in Operators, NEW n \in DOMAIN steps, NEW action \in {"snoozed", "completed"},
         NEW d \in 0..MaxDate, CheckStep(o, n, action, d)
  PROVE  TypeInv'
<1>1. PICK rec : rec = [Idle EXCEPT !.pc = "step", !.action = action, !.parent = n, !.date = d]
  OBVIOUS
<1>2. Goto(o, rec) /\ UNCHANGED <<register, charging, paying, ledger>>
  BY <1>1 DEF CheckStep
<1>3. PICK idle \in RequestRows : idle = Idle
  BY IdleLemma
<1>4. n \in Nat /\ "step" \in Stages
  BY DEF TypeInv, TablesInv, Stages
<1>5. rec = [idle EXCEPT !.pc = "step", !.action = action, !.parent = n, !.date = d]
  BY <1>1, <1>3
<1>6. rec \in RequestRows
  BY <1>4, <1>5 DEF RequestRows
<1>7. rec.pc = "step" /\ rec.action = action /\ rec.parent = n
  BY <1>5 DEF RequestRows
<1>8. StageOK(rec)'
  BY <1>2, <1>7 DEF StageOK, ChargeStage, ImportStage, MatchStage, StepStage, register
<1>9. QED
  BY <1>2, <1>6, <1>8, StillTyped

\* The step a request is to insert.
LEMMA NewStepLemma ==
  ASSUME TypeInv, NEW o \in Operators, request[o].pc = "step"
  PROVE  /\ NewStep(o) \in StepRows /\ request[o].parent \in DOMAIN steps
         /\ NewStep(o).action \in {"snoozed", "completed"} /\ NewStep(o).parent = request[o].parent
         /\ NewStep(o).date = request[o].date /\ NewStep(o).action = request[o].action
<1>1. PICK r \in RequestRows : r = request[o] /\ StageOK(r)
  BY DEF TypeInv, RequestInv
<1>2. r.action \in {"snoozed", "completed"} /\ r.parent \in DOMAIN steps /\ r.date \in 0..MaxDate /\ r.parent \in Nat
  BY <1>1 DEF StageOK, StepStage, RequestRows
<1>3. QED
  BY <1>1, <1>2 DEF NewStep, StepRows

LEMMA InsertStepTyped ==
  ASSUME TypeInv, NEW o \in Operators, InsertStep(o)
  PROVE  TypeInv'
<1>1. Goto(o, Idle)
  BY DEF InsertStep
<1>2. CASE Child(request[o].parent)
  <2>1. UNCHANGED <<register, charging, paying, ledger>>
    BY <1>2 DEF InsertStep, register
  <2>2. QED
    BY <1>1, <2>1, Still, EndTyped
<1>3. CASE ~Child(request[o].parent)
  <2>1. PICK new \in StepRows : new = NewStep(o)
    BY NewStepLemma DEF InsertStep
  <2>2. steps' = Append(steps, new) /\ UNCHANGED <<rows, remarks, charging, paying, ledger>>
    BY <1>3, <2>1 DEF InsertStep
  <2>3. TablesInv' /\ Grows
    BY <2>2, StepsTyped
  <2>4. QED
    BY <1>1, <2>3, EndTyped
<1>4. QED
  BY <1>2, <1>3

LEMMA DieTyped ==
  ASSUME TypeInv, NEW o \in Operators, Die(o)
  PROVE  TypeInv'
<1>1. PICK rec \in RequestRows : rec = [Idle EXCEPT !.pc = "dead"] /\ StageOK(rec)'
  BY IdleStage
<1>2. Goto(o, rec) /\ UNCHANGED <<register, charging, paying, ledger>>
  BY <1>1 DEF Die
<1>3. QED
  BY <1>1, <1>2, StillTyped

LEMMA InitTyped ==
  ASSUME Init
  PROVE  TypeInv
<1>1. rows \subseteq Registrable
  BY DEF Init
<1>2. batches \in Seq(BatchRows) /\ charges \subseteq ChargeRows /\ IsFiniteSet(charges) /\ imports \in Seq(ImportRows)
  BY FS_EmptySet DEF Init
<1>3. steps \in Seq(StepRows)
  <2>1. 1 \in 0..MaxDate
    BY BillingAssumption
  <2>2. PICK first \in StepRows : first = [action |-> "planned", parent |-> 0, date |-> 1]
    BY <2>1 DEF StepRows
  <2>3. QED
    BY <2>2 DEF Init
<1>4. /\ \A s \in Students : studentState[s] = NoState
      /\ \A f \in Payers : payerState[f] = NoState
      /\ DOMAIN studentState = Students /\ DOMAIN payerState = Payers
  BY DEF Init
<1>5. transaction \in [Rows -> TransactionRows]
  BY DEF Init, TransactionRows
<1>6. matched \in [Rows -> [Payers -> Nat]]
  BY DEF Init
<1>7. ledger \in [Payers -> LedgerRows]
  BY DEF Init, LedgerRows
<1>8. remarks \subseteq RemarkRows
  BY DEF Init
<1>9. TablesInv
  BY <1>1, <1>2, <1>3, <1>4, <1>5, <1>6, <1>7, <1>8 DEF TablesInv
<1>10. PICK idle \in RequestRows : idle = Idle /\ idle.pc = "idle" /\ idle.import = 0
  BY IdleLemma
<1>11. request = [o \in Operators |-> idle]
  BY <1>10 DEF Init
<1>12. RequestInv
  BY <1>10, <1>11 DEF RequestInv, StageOK, ChargeStage, ImportStage, MatchStage, StepStage
<1>13. QED
  BY <1>9, <1>12 DEF TypeInv

LEMMA NextTyped ==
  ASSUME TypeInv, [Next]_vars
  PROVE  TypeInv'
<1>1. CASE UNCHANGED vars
  <2>1. UNCHANGED <<rows, batches, charges, studentState, payerState, imports, transaction, matched, ledger,
          steps, remarks, request>>
    BY <1>1 DEF vars
  <2>2. TablesInv'
    BY <2>1 DEF TypeInv, TablesInv
  <2>3. RequestInv'
    BY <2>1 DEF TypeInv, RequestInv, StageOK, ChargeStage, ImportStage, Importing, MatchStage, StepStage
  <2>4. QED
    BY <2>2, <2>3 DEF TypeInv
<1>2. ASSUME NEW o \in Operators, Charging(o)
      PROVE  TypeInv'
  BY <1>2, GenerateTyped, ReadCardTyped, DraftChargeTyped, CreateBatchTyped, CreateChargeTyped,
     SaveStudentTyped, SavePayerTyped, ReadBalancesTyped, PostChargeTyped DEF Charging
<1>3. ASSUME NEW o \in Operators, Paying(o)
      PROVE  TypeInv'
  <2>1. ASSUME FinishImport(o) \/ RefuseImport(o)
        PROVE  TypeInv'
    BY <2>1, EndImportTyped DEF FinishImport, RefuseImport
  <2>2. QED
    BY <1>3, <2>1, ImportStatementTyped, LookUpRowTyped, StoreRowTyped, AutoMatchTyped, MatchByHandTyped,
       InsertMatchTyped, UpdateTransactionTyped, PostMatchTyped DEF Paying
<1>4. ASSUME NEW o \in Operators, Stepping(o)
      PROVE  TypeInv'
  BY <1>4, PlanStepTyped, CheckStepTyped, InsertStepTyped DEF Stepping
<1>5. QED
  BY <1>1, <1>2, <1>3, <1>4, RegistrationTyped, DieTyped DEF Next

\* However requests overlap or end, every row keeps the shape its table gives it, and no discount
\* left for a student or a family is ever negative.
THEOREM TypeCorrect == Spec => []TypeOK
<1>1. TypeInv => TypeOK
  BY DEF TypeInv, TablesInv, RequestInv, RequestRows, TypeOK
<1>2. Init => TypeInv
  BY InitTyped
<1>3. TypeInv /\ [Next]_vars => TypeInv'
  BY NextTyped
<1>4. QED
  BY <1>1, <1>2, <1>3, PTL DEF Spec

-----------------------------------------------------------------------------
(* What each kind of transaction leaves alone                                *)

\* The request of one operator goes on with a row, those of the others stay.
Moves(o, rec) == request'[o] = rec /\ \A p \in Operators \ {o} : request'[p] = request[p]

ChargeStages == {"draft", "batch", "charge", "student", "payer", "balance", "entry", "idle"}
PayStages == {"refuse", "row", "store", "auto", "insert", "status", "entry", "idle"}

LEMMA RegistrationMoves ==
  ASSUME NEW o \in Operators, Registration(o)
  PROVE  UNCHANGED <<charging, paying, ledger, steps, request>> /\ Begin(o)
BY DEF Registration, CreateSchool, CreateModel, CreatePayer, CreateStudent, CreateBankAccount, Registers,
       AddPayerNote, AddContactEvent, AddWorkQueueEvent, AddPaymentReviewEvent, Remark

LEMMA GotoMoves ==
  ASSUME TypeInv, NEW o \in Operators, NEW rec, Goto(o, rec)
  PROVE  Moves(o, rec)
BY DEF Goto, Moves, TypeInv, RequestInv

LEMMA IdleMoves ==
  ASSUME TypeInv, NEW o \in Operators, Goto(o, Idle)
  PROVE  Moves(o, Idle) /\ Idle.pc = "idle" /\ Idle.row = NoState
BY GotoMoves, IdleLemma

LEMMA ChargingMoves ==
  ASSUME TypeInv, NEW o \in Operators, Charging(o)
  PROVE  /\ UNCHANGED <<register, paying>>
         /\ \E rec : Moves(o, rec) /\ rec.pc \in ChargeStages /\ rec.row = NoState
<1> USE DEF ChargeStages
<1>0. PICK r \in RequestRows : r = request[o] /\ StageOK(r)
  BY DEF TypeInv, RequestInv
<1>1. ASSUME NEW m \in Models, NEW p \in Periods, Generate(o, m, p)
      PROVE  UNCHANGED <<register, paying>> /\ \E rec : Moves(o, rec) /\ rec.pc \in ChargeStages /\ rec.row = NoState
  <2>1. PICK idle \in RequestRows : idle = Idle /\ idle.row = NoState
    BY IdleLemma
  <2>2. PICK rec : rec = [idle EXCEPT !.pc = "draft", !.model = m, !.period = p, !.left = Pupils(m)]
                   /\ Goto(o, rec)
    BY <1>1, <2>1 DEF Generate
  <2>3. rec.pc = "draft" /\ rec.row = NoState
    BY <2>1, <2>2 DEF RequestRows
  <2>4. QED
    BY <1>1, <2>2, <2>3, GotoMoves DEF Generate
<1>2. ASSUME ReadCard(o) \/ DraftCharge(o)
      PROVE  UNCHANGED <<register, paying>> /\ \E rec : Moves(o, rec) /\ rec.pc \in ChargeStages /\ rec.row = NoState
  <2>1. r.pc = "draft" /\ r.row = NoState
    BY <1>0, <1>2 DEF ReadCard, DraftCharge, StageOK, ChargeStage
  <2>2. PICK rec : Goto(o, rec) /\ rec.pc \in {"draft", "batch"} /\ rec.row = NoState
    <3>1. CASE ReadCard(o)
      <4>1. PICK cards, fresh : Goto(o, [r EXCEPT !.cards = cards, !.freshCards = fresh])
        BY <1>0, <3>1 DEF ReadCard
      <4>2. PICK rec : rec = [r EXCEPT !.cards = cards, !.freshCards = fresh]
        OBVIOUS
      <4>3. rec.pc = "draft" /\ rec.row = NoState
        BY <2>1, <4>2 DEF RequestRows
      <4>4. QED
        BY <4>1, <4>2, <4>3
    <3>2. CASE DraftCharge(o)
      <4>1. PICK pc, left, drafts, cards :
              /\ Goto(o, [r EXCEPT !.pc = pc, !.left = left, !.drafts = drafts, !.cards = cards])
              /\ pc \in {"draft", "batch"}
        BY <1>0, <3>2 DEF DraftCharge
      <4>2. PICK rec : rec = [r EXCEPT !.pc = pc, !.left = left, !.drafts = drafts, !.cards = cards]
        OBVIOUS
      <4>3. rec.pc = pc /\ rec.row = NoState
        BY <2>1, <4>2 DEF RequestRows
      <4>4. QED
        BY <4>1, <4>2, <4>3
    <3>3. QED
      BY <1>2, <3>1, <3>2
  <2>3. QED
    BY <1>2, <2>2, GotoMoves DEF ReadCard, DraftCharge
<1>3. ASSUME CreateBatch(o)
      PROVE  UNCHANGED <<register, paying>> /\ \E rec : Moves(o, rec) /\ rec.pc \in ChargeStages /\ rec.row = NoState
  <2>1. r.pc = "batch" /\ r.row = NoState /\ UNCHANGED <<register, paying>>
    BY <1>0, <1>3 DEF CreateBatch, StageOK, ChargeStage
  <2>2. Goto(o, Idle) \/ \E n : Goto(o, [r EXCEPT !.pc = "charge", !.i = 1, !.batch = n])
    BY <1>0, <1>3 DEF CreateBatch
  <2>3. CASE Goto(o, Idle)
    BY <2>1, <2>3, IdleMoves
  <2>4. CASE \E n : Goto(o, [r EXCEPT !.pc = "charge", !.i = 1, !.batch = n])
    <3>1. PICK n, rec : rec = [r EXCEPT !.pc = "charge", !.i = 1, !.batch = n] /\ Goto(o, rec)
      BY <2>4
    <3>2. rec.pc = "charge" /\ rec.row = NoState
      BY <2>1, <3>1 DEF RequestRows
    <3>3. QED
      BY <2>1, <3>1, <3>2, GotoMoves
  <2>5. QED
    BY <2>2, <2>3, <2>4
<1>4. ASSUME CreateCharge(o) \/ SaveStudent(o)
      PROVE  UNCHANGED <<register, paying>> /\ \E rec : Moves(o, rec) /\ rec.pc \in ChargeStages /\ rec.row = NoState
  <2>1. r.pc \in {"charge", "student"} /\ r.row = NoState /\ UNCHANGED <<register, paying>>
    BY <1>0, <1>4 DEF CreateCharge, SaveStudent, StageOK, ChargeStage
  <2>2. Goto(o, Idle) \/ \E stage \in {"student", "payer", "balance"} : Goto(o, Ahead(r, stage))
    BY <1>0, <1>4 DEF CreateCharge, SaveStudent, Onward, Ahead
  <2>3. CASE Goto(o, Idle)
    BY <2>1, <2>3, IdleMoves
  <2>4. ASSUME NEW stage \in {"student", "payer", "balance"}, Goto(o, Ahead(r, stage))
        PROVE  \E rec : Moves(o, rec) /\ rec.pc \in ChargeStages /\ rec.row = NoState
    <3>1. r.i \in DOMAIN r.drafts
      BY <1>0, <2>1 DEF StageOK, ChargeStage
    <3>2. PICK rec : rec = Ahead(r, stage)
      OBVIOUS
    <3>3. rec.pc \in {r.pc, stage} /\ rec.row = NoState
      BY <2>1, <3>1, <3>2, OnwardLemma
    <3>4. Moves(o, rec)
      BY <2>4, <3>2, GotoMoves
    <3>5. QED
      BY <2>1, <3>3, <3>4
  <2>5. QED
    BY <2>1, <2>2, <2>3, <2>4
<1>5. ASSUME SavePayer(o)
      PROVE  UNCHANGED <<register, paying>> /\ \E rec : Moves(o, rec) /\ rec.pc \in ChargeStages /\ rec.row = NoState
  <2>1. r.pc = "payer" /\ r.row = NoState /\ UNCHANGED <<register, paying>>
    BY <1>0, <1>5 DEF SavePayer, StageOK, ChargeStage
  <2>2. Goto(o, Idle) \/ \E cards : \E pc \in {"balance", "payer"} : Goto(o, [r EXCEPT !.cards = cards, !.pc = pc])
    BY <1>0, <1>5 DEF SavePayer
  <2>3. CASE Goto(o, Idle)
    BY <2>1, <2>3, IdleMoves
  <2>4. ASSUME NEW cards, NEW pc \in {"balance", "payer"}, Goto(o, [r EXCEPT !.cards = cards, !.pc = pc])
        PROVE  \E rec : Moves(o, rec) /\ rec.pc \in ChargeStages /\ rec.row = NoState
    <3>1. PICK rec : rec = [r EXCEPT !.cards = cards, !.pc = pc]
      OBVIOUS
    <3>2. rec.pc = pc /\ rec.row = NoState
      BY <2>1, <3>1 DEF RequestRows
    <3>3. QED
      BY <2>4, <3>1, <3>2, GotoMoves
  <2>5. QED
    BY <2>1, <2>2, <2>3, <2>4
<1>6. ASSUME ReadBalances(o)
      PROVE  UNCHANGED <<register, paying>> /\ \E rec : Moves(o, rec) /\ rec.pc \in ChargeStages /\ rec.row = NoState
  <2>1. r.pc = "balance" /\ r.row = NoState /\ UNCHANGED <<register, paying>>
    BY <1>0, <1>6 DEF ReadBalances, StageOK, ChargeStage
  <2>2. PICK after, rec : rec = [r EXCEPT !.pc = "entry", !.after = after] /\ Goto(o, rec)
    BY <1>0, <1>6 DEF ReadBalances
  <2>3. rec.pc = "entry" /\ rec.row = NoState
    BY <2>1, <2>2 DEF RequestRows
  <2>4. QED
    BY <2>1, <2>2, <2>3, GotoMoves
<1>7. ASSUME PostCharge(o)
      PROVE  UNCHANGED <<register, paying>> /\ \E rec : Moves(o, rec) /\ rec.pc \in ChargeStages /\ rec.row = NoState
  <2>1. r.pc = "entry" /\ r.row = NoState /\ UNCHANGED <<register, paying>>
    BY <1>0, <1>7 DEF PostCharge
  <2>2. Goto(o, Idle) \/ \E i, after : Goto(o, [r EXCEPT !.i = i, !.after = after])
    BY <1>0, <1>7 DEF PostCharge
  <2>3. CASE Goto(o, Idle)
    BY <2>1, <2>3, IdleMoves
  <2>4. ASSUME NEW i, NEW after, Goto(o, [r EXCEPT !.i = i, !.after = after])
        PROVE  \E rec : Moves(o, rec) /\ rec.pc \in ChargeStages /\ rec.row = NoState
    <3>1. PICK rec : rec = [r EXCEPT !.i = i, !.after = after]
      OBVIOUS
    <3>2. rec.pc = "entry" /\ rec.row = NoState
      BY <2>1, <3>1 DEF RequestRows
    <3>3. QED
      BY <2>4, <3>1, <3>2, GotoMoves
  <2>5. QED
    BY <2>1, <2>2, <2>3, <2>4
<1> HIDE DEF ChargeStages
<1>8. QED
  BY <1>1, <1>2, <1>3, <1>4, <1>5, <1>6, <1>7 DEF Charging

LEMMA PayingMoves ==
  ASSUME TypeInv, NEW o \in Operators, Paying(o)
  PROVE  /\ UNCHANGED <<register, charging>>
         /\ \E rec : Moves(o, rec) /\ rec.pc \in PayStages /\ (rec.pc = "entry" => rec.row # NoState)
<1> DEFINE Paid1 == /\ UNCHANGED <<register, charging>>
                    /\ \E rec : Moves(o, rec) /\ rec.pc \in PayStages /\ (rec.pc = "entry" => rec.row # NoState)
<1> USE DEF PayStages
<1>0. PICK r \in RequestRows : r = request[o] /\ StageOK(r)
  BY DEF TypeInv, RequestInv
<1>a. ASSUME Goto(o, Idle)
      PROVE  \E rec : Moves(o, rec) /\ rec.pc \in PayStages /\ (rec.pc = "entry" => rec.row # NoState)
  BY <1>a, IdleMoves
<1>b. ASSUME Importing(r), Goto(o, NextRow(o))
      PROVE  \E rec : Moves(o, rec) /\ rec.pc \in PayStages /\ (rec.pc = "entry" => rec.row # NoState)
  <2>1. PICK rec : rec = NextRow(o) /\ rec.pc = "row"
    BY <1>0, <1>b, NextRowLemma
  <2>2. Moves(o, rec)
    BY <1>b, <2>1, GotoMoves
  <2>3. QED
    BY <2>1, <2>2
<1>c. ASSUME NEW row \in Rows, NEW f \in Payers, NEW amount \in Nat \ {0}, r.import = 0 \/ Importing(r),
             Goto(o, Matching(o, row, f, amount))
      PROVE  \E rec : Moves(o, rec) /\ rec.pc \in PayStages /\ (rec.pc = "entry" => rec.row # NoState)
  <2>1. PICK rec : rec = Matching(o, row, f, amount) /\ Matches(rec, r, row, f, amount)
    BY <1>0, <1>c, MatchingLemma
  <2>2. Moves(o, rec) /\ rec.pc = "insert"
    BY <1>c, <2>1, GotoMoves DEF Matches
  <2>3. QED
    BY <2>2
<1>d. ASSUME NEW pc \in {"store", "auto", "status", "entry"}, NEW row, Goto(o, [r EXCEPT !.pc = pc, !.row = row]),
             pc = "entry" => row # NoState
      PROVE  \E rec : Moves(o, rec) /\ rec.pc \in PayStages /\ (rec.pc = "entry" => rec.row # NoState)
  <2>1. PICK rec : rec = [r EXCEPT !.pc = pc, !.row = row]
    OBVIOUS
  <2>2. rec.pc = pc /\ rec.row = row
    BY <2>1 DEF RequestRows
  <2>3. Moves(o, rec)
    BY <1>d, <2>1, GotoMoves
  <2>4. QED
    BY <1>d, <2>2, <2>3
<1>e. ASSUME NEW pc \in {"store", "auto", "status", "entry"}, Goto(o, [r EXCEPT !.pc = pc]),
             pc = "entry" => r.row # NoState
      PROVE  \E rec : Moves(o, rec) /\ rec.pc \in PayStages /\ (rec.pc = "entry" => rec.row # NoState)
  <2>1. PICK rec : rec = [r EXCEPT !.pc = pc]
    OBVIOUS
  <2>2. rec.pc = pc /\ rec.row = r.row
    BY <2>1 DEF RequestRows
  <2>3. Moves(o, rec)
    BY <1>e, <2>1, GotoMoves
  <2>4. QED
    BY <1>e, <2>2, <2>3
<1>1. ASSUME NEW k \in DOMAIN Statements, ImportStatement(o, k)
      PROVE  Paid1
  <2>1. PICK pc, n : Goto(o, [Idle EXCEPT !.pc = pc, !.import = n, !.i = 1]) /\ pc \in {"refuse", "row"}
    BY <1>1 DEF ImportStatement
  <2>2. PICK rec : rec = [Idle EXCEPT !.pc = pc, !.import = n, !.i = 1]
    OBVIOUS
  <2>3. PICK idle \in RequestRows : idle = Idle
    BY IdleLemma
  <2>4. rec.pc = pc
    BY <2>2, <2>3 DEF RequestRows
  <2>5. Moves(o, rec)
    BY <2>1, <2>2, GotoMoves
  <2>6. QED
    BY <1>1, <2>1, <2>4, <2>5 DEF ImportStatement
<1>2. ASSUME FinishImport(o) \/ RefuseImport(o)
      PROVE  Paid1
  BY <1>2, <1>a DEF FinishImport, RefuseImport, EndImport
<1>3. ASSUME LookUpRow(o)
      PROVE  Paid1
  <2>1. Importing(r)
    BY <1>0, <1>3 DEF LookUpRow, StageOK, ImportStage
  <2>2. Goto(o, NextRow(o)) \/ \E row : Goto(o, [r EXCEPT !.pc = "store", !.row = row])
    BY <1>0, <1>3 DEF LookUpRow
  <2>3. \E rec : Moves(o, rec) /\ rec.pc \in PayStages /\ (rec.pc = "entry" => rec.row # NoState)
    BY <1>b, <1>d, <2>1, <2>2
  <2>4. QED
    BY <1>3, <2>3 DEF LookUpRow
<1>4. ASSUME StoreRow(o)
      PROVE  Paid1
  <2>1. Importing(r)
    BY <1>0, <1>4 DEF StoreRow, StageOK, ImportStage
  <2>2. Goto(o, Idle) \/ Goto(o, NextRow(o)) \/ Goto(o, [r EXCEPT !.pc = "auto"])
    BY <1>0, <1>4 DEF StoreRow
  <2>3. \E rec : Moves(o, rec) /\ rec.pc \in PayStages /\ (rec.pc = "entry" => rec.row # NoState)
    BY <1>a, <1>b, <1>e, <2>1, <2>2
  <2>4. QED
    BY <1>4, <2>3 DEF StoreRow
<1>5. ASSUME AutoMatch(o)
      PROVE  Paid1
  <2>1. /\ Importing(r) /\ r.i \in DOMAIN Statements[imports[r.import].statement]
        /\ r.row = Statements[imports[r.import].statement][r.i] /\ Row[r.row].payer # NoPayer
    BY <1>0, <1>5 DEF AutoMatch, StageOK, ImportStage
  <2>2. PICK row \in Rows : row = r.row
    <3>1. PICK file \in Seq(Rows) : file = Statements[imports[r.import].statement]
      BY <2>1, StatementLemma DEF Importing
    <3>2. r.i \in DOMAIN file /\ r.row = file[r.i]
      BY <2>1, <3>1
    <3>3. QED
      BY <3>2
  <2>3. PICK f \in Payers : f = Row[row].payer
    BY <2>1, <2>2, BillingAssumption
  <2>4. PICK amount \in Nat \ {0} : amount = Absolute(Row[row].amount)
    BY MatchedLemma DEF TypeInv
  <2>5. Goto(o, NextRow(o)) \/ Goto(o, Matching(o, row, f, amount))
    BY <1>0, <1>5, <2>2, <2>3, <2>4 DEF AutoMatch
  <2>6. \E rec : Moves(o, rec) /\ rec.pc \in PayStages /\ (rec.pc = "entry" => rec.row # NoState)
    BY <1>b, <1>c, <2>1, <2>5
  <2>7. QED
    BY <1>5, <2>6 DEF AutoMatch
<1>6. ASSUME NEW row \in Rows, NEW f \in Payers, NEW amount \in Amounts, MatchByHand(o, row, f, amount)
      PROVE  Paid1
  <2>1. r.import = 0 /\ amount \in Nat \ {0}
    BY <1>0, <1>6, BillingAssumption DEF MatchByHand, Begin, StageOK, ImportStage
  <2>2. \E rec : Moves(o, rec) /\ rec.pc \in PayStages /\ (rec.pc = "entry" => rec.row # NoState)
    BY <1>6, <1>c, <2>1 DEF MatchByHand
  <2>3. QED
    BY <1>6, <2>2 DEF MatchByHand
<1>7. ASSUME InsertMatch(o)
      PROVE  Paid1
  <2>1. Goto(o, [r EXCEPT !.pc = "status"])
    BY <1>0, <1>7 DEF InsertMatch
  <2>2. \E rec : Moves(o, rec) /\ rec.pc \in PayStages /\ (rec.pc = "entry" => rec.row # NoState)
    BY <1>e, <2>1
  <2>3. QED
    BY <1>7, <2>2 DEF InsertMatch
<1>8. ASSUME UpdateTransaction(o)
      PROVE  Paid1
  <2>1. Goto(o, [r EXCEPT !.pc = "entry"]) /\ r.row # NoState
    BY <1>0, <1>8, MatchStageLemma, BillingAssumption DEF UpdateTransaction
  <2>2. \E rec : Moves(o, rec) /\ rec.pc \in PayStages /\ (rec.pc = "entry" => rec.row # NoState)
    BY <1>e, <2>1
  <2>3. QED
    BY <1>8, <2>2 DEF UpdateTransaction
<1>9. ASSUME PostMatch(o)
      PROVE  Paid1
  <2>1. r.import = 0 \/ Importing(r)
    BY <1>0, <1>9, MatchStageLemma DEF PostMatch
  <2>2. Goto(o, Idle) \/ (r.import # 0 /\ Goto(o, NextRow(o)))
    BY <1>0, <1>9 DEF PostMatch
  <2>3. \E rec : Moves(o, rec) /\ rec.pc \in PayStages /\ (rec.pc = "entry" => rec.row # NoState)
    BY <1>a, <1>b, <2>1, <2>2
  <2>4. QED
    BY <1>9, <2>3 DEF PostMatch
<1> HIDE DEF PayStages, Paid1
<1>10. Paid1
  BY <1>1, <1>2, <1>3, <1>4, <1>5, <1>6, <1>7, <1>8, <1>9 DEF Paying
<1>11. QED
  BY <1>10 DEF Paid1

LEMMA SteppingMoves ==
  ASSUME TypeInv, NEW o \in Operators, Stepping(o)
  PROVE  /\ UNCHANGED <<rows, remarks, charging, paying, ledger>>
         /\ \E rec : Moves(o, rec) /\ (rec.pc \in {"idle", "step"} \/ rec = request[o])
<1>1. ASSUME NEW d \in 0..MaxDate, PlanStep(o, d)
      PROVE  /\ UNCHANGED <<rows, remarks, charging, paying, ledger>>
             /\ \E rec : Moves(o, rec) /\ (rec.pc \in {"idle", "step"} \/ rec = request[o])
  BY <1>1 DEF PlanStep, Moves
<1>2. ASSUME NEW n, NEW action, NEW d, CheckStep(o, n, action, d)
      PROVE  /\ UNCHANGED <<rows, remarks, charging, paying, ledger>>
             /\ \E rec : Moves(o, rec) /\ (rec.pc \in {"idle", "step"} \/ rec = request[o])
  <2>1. PICK idle \in RequestRows : idle = Idle
    BY IdleLemma
  <2>2. PICK rec : rec = [idle EXCEPT !.pc = "step", !.action = action, !.parent = n, !.date = d]
    OBVIOUS
  <2>3. rec.pc = "step"
    BY <2>2 DEF RequestRows
  <2>4. Moves(o, rec)
    BY <1>2, <2>1, <2>2, GotoMoves DEF CheckStep
  <2>5. QED
    BY <1>2, <2>3, <2>4 DEF CheckStep, register
<1>3. ASSUME InsertStep(o)
      PROVE  /\ UNCHANGED <<rows, remarks, charging, paying, ledger>>
             /\ \E rec : Moves(o, rec) /\ (rec.pc \in {"idle", "step"} \/ rec = request[o])
  BY <1>3, IdleMoves DEF InsertStep
<1>4. QED
  BY <1>1, <1>2, <1>3 DEF Stepping

LEMMA DieMoves ==
  ASSUME TypeInv, NEW o \in Operators, Die(o)
  PROVE  /\ UNCHANGED <<register, charging, paying, ledger, begun, mixed>> /\ died'
         /\ \E rec : Moves(o, rec) /\ rec.pc = "dead"
<1>1. PICK idle \in RequestRows : idle = Idle
  BY IdleLemma
<1>2. PICK rec : rec = [idle EXCEPT !.pc = "dead"]
  OBVIOUS
<1>3. rec.pc = "dead"
  BY <1>2 DEF RequestRows
<1>4. Moves(o, rec)
  BY <1>1, <1>2, GotoMoves DEF Die
<1>5. QED
  BY <1>3, <1>4 DEF Die

-----------------------------------------------------------------------------
(* Chains of next steps                                                      *)

\* The events form chains: an event changes an earlier one, which no other changes.
ChainInv ==
  /\ \A i \in DOMAIN steps : steps[i].parent \in 0..(i - 1)
  /\ \A i, j \in DOMAIN steps : (steps[i].parent # 0 /\ steps[i].parent = steps[j].parent) => i = j
  /\ \A i, j \in DOMAIN steps : steps[i].parent = j =>
       /\ steps[j].action # "completed"
       /\ steps[i].action = "snoozed" => steps[i].date > steps[j].date

\* A request that passed its check may insert its event, as long as no other event got there first.
ReadyStep(r) == r.pc = "step" =>
  /\ steps[r.parent].action # "completed"
  /\ r.action = "snoozed" => r.date > steps[r.parent].date

StepInv == TypeInv /\ ChainInv /\ \A o \in Operators : ReadyStep(request[o])

StepsGrow == DOMAIN steps \subseteq DOMAIN steps' /\ \A n \in DOMAIN steps : steps'[n] = steps[n]

LEMMA ReadyKept ==
  ASSUME StepsGrow, NEW r \in RequestRows, StepStage(r), ReadyStep(r)
  PROVE  ReadyStep(r)'
BY DEF StepsGrow, StepStage, ReadyStep

\* Transactions that leave the events alone and begin no change of one.
LEMMA ChainStill ==
  ASSUME StepInv, steps' = steps, TypeInv',
         \A p \in Operators : request'[p] = request[p] \/ request'[p].pc # "step"
  PROVE  StepInv'
<1>1. ChainInv'
  BY DEF StepInv, ChainInv
<1>2. ASSUME NEW p \in Operators
      PROVE  ReadyStep(request[p])'
  <2>1. CASE request'[p].pc # "step"
    BY <2>1 DEF ReadyStep
  <2>2. CASE request'[p] = request[p]
    <3>1. PICK r \in RequestRows : r = request[p] /\ r = request'[p]
      BY <2>2 DEF StepInv, TypeInv, RequestInv
    <3>2. ReadyStep(r) /\ StepStage(r)
      BY <3>1 DEF StepInv, TypeInv, RequestInv, StageOK
    <3>3. ReadyStep(r)'
      BY <3>2, ReadyKept DEF StepsGrow
    <3>4. QED
      BY <3>1, <3>3 DEF ReadyStep
  <2>3. QED
    BY <2>1, <2>2
<1>3. QED
  BY <1>1, <1>2 DEF StepInv

\* A new event that begins a chain, or that changes an event nothing has changed.
LEMMA ChainGrows ==
  ASSUME StepInv, NEW new \in StepRows, steps' = Append(steps, new),
         \/ new.parent = 0
         \/ /\ new.parent \in DOMAIN steps /\ ~Child(new.parent)
            /\ steps[new.parent].action # "completed"
            /\ new.action = "snoozed" => new.date > steps[new.parent].date
  PROVE  ChainInv'
<1>0. steps \in Seq(StepRows)
  BY DEF StepInv, TypeInv, TablesInv
<1>1. PICK n \in Nat : n = Len(steps) /\ DOMAIN steps = 1..n
  BY <1>0
<1>2. /\ DOMAIN steps' = 1..(n + 1) /\ steps'[n + 1] = new
      /\ \A i \in 1..n : steps'[i] = steps[i]
  BY <1>1, AppendLemma
<1>3. \A i \in 1..n : steps[i].parent \in 0..(i - 1)
  BY <1>1 DEF StepInv, ChainInv
<1>4. new.parent \in 0..n /\ \A i \in 1..n : steps[i].parent # n + 1
  BY <1>1, <1>3
<1>5. \A i \in 1..(n + 1) : steps'[i].parent \in 0..(i - 1)
  BY <1>2, <1>3, <1>4
<1>6. ASSUME NEW i \in 1..(n + 1), NEW j \in 1..(n + 1), steps'[i].parent # 0, steps'[i].parent = steps'[j].parent
      PROVE  i = j
  <2>1. \A k \in 1..n : new.parent # 0 => steps[k].parent # new.parent
    BY <1>1 DEF Child
  <2>2. CASE i \in 1..n /\ j \in 1..n
    BY <1>1, <1>2, <1>6, <2>2 DEF StepInv, ChainInv
  <2>3. CASE i = n + 1 \/ j = n + 1
    BY <1>2, <1>6, <2>1, <2>3
  <2>4. QED
    BY <2>2, <2>3
<1>7. ASSUME NEW i \in 1..(n + 1), NEW j \in 1..(n + 1), steps'[i].parent = j
      PROVE  /\ steps'[j].action # "completed"
             /\ steps'[i].action = "snoozed" => steps'[i].date > steps'[j].date
  <2>1. j \in 1..n
    BY <1>2, <1>4, <1>7
  <2>2. CASE i \in 1..n
    <3>1. steps'[i] = steps[i] /\ steps'[j] = steps[j] /\ steps[i].parent = j
      BY <1>2, <1>7, <2>1, <2>2
    <3>2. i \in DOMAIN steps /\ j \in DOMAIN steps
      BY <1>1, <2>1, <2>2
    <3>3. steps[j].action # "completed" /\ (steps[i].action = "snoozed" => steps[i].date > steps[j].date)
      BY <3>1, <3>2 DEF StepInv, ChainInv
    <3>4. QED
      BY <3>1, <3>3
  <2>3. CASE i = n + 1
    <3>1. steps'[i] = new /\ steps'[j] = steps[j]
      BY <1>2, <2>1, <2>3
    <3>2. new.parent = j /\ j # 0
      BY <1>7, <2>1, <3>1
    <3>3. QED
      BY <3>1, <3>2
  <2>4. i \in 1..n \/ i = n + 1
    OBVIOUS
  <2>5. QED
    BY <2>2, <2>3, <2>4
<1>8. QED
  BY <1>2, <1>5, <1>6, <1>7 DEF ChainInv

LEMMA OthersReady ==
  ASSUME StepInv, StepsGrow, NEW o \in Operators, NEW rec, Moves(o, rec), NEW p \in Operators \ {o}
  PROVE  ReadyStep(request[p])'
<1>1. PICK r \in RequestRows : r = request[p] /\ r = request'[p] /\ ReadyStep(r) /\ StepStage(r)
  BY DEF Moves, StepInv, TypeInv, RequestInv, StageOK
<1>2. ReadyStep(r)'
  BY <1>1, ReadyKept
<1>3. QED
  BY <1>1, <1>2 DEF ReadyStep

LEMMA PlanStepChain ==
  ASSUME StepInv, NEW o \in Operators, NEW d \in 0..MaxDate, PlanStep(o, d), TypeInv'
  PROVE  StepInv'
<1>1. PICK new \in StepRows : new = [action |-> "planned", parent |-> 0, date |-> d]
  BY DEF StepRows
<1>2. ChainInv'
  <2>1. new.parent = 0
    BY <1>1
  <2>2. steps' = Append(steps, new)
    BY <1>1 DEF PlanStep
  <2>3. QED
    BY <2>1, <2>2, ChainGrows
<1>0. StepsGrow
  BY <1>1, StepsTyped DEF PlanStep, StepInv, StepsGrow, Grows
<1>3. ASSUME NEW p \in Operators
      PROVE  ReadyStep(request[p])'
  <2>1. PICK r \in RequestRows : r = request[p] /\ r = request'[p] /\ ReadyStep(r) /\ StepStage(r)
    BY DEF PlanStep, StepInv, TypeInv, RequestInv, StageOK
  <2>2. ReadyStep(r)'
    BY <1>0, <2>1, ReadyKept
  <2>3. QED
    BY <2>1, <2>2 DEF ReadyStep
<1>4. QED
  BY <1>2, <1>3 DEF StepInv

LEMMA CheckStepChain ==
  ASSUME StepInv, NEW o \in Operators, NEW n \in DOMAIN steps, NEW action \in {"snoozed", "completed"},
         NEW d \in 0..MaxDate, CheckStep(o, n, action, d), TypeInv'
  PROVE  StepInv'
<1>1. PICK idle \in RequestRows : idle = Idle
  BY IdleLemma
<1>2. PICK rec : rec = [idle EXCEPT !.pc = "step", !.action = action, !.parent = n, !.date = d]
  OBVIOUS
<1>3. rec.action = action /\ rec.parent = n /\ rec.date = d
  BY <1>2 DEF RequestRows
<1>4. Moves(o, rec) /\ UNCHANGED steps
  BY <1>1, <1>2, GotoMoves DEF CheckStep, register, StepInv
<1>5. ChainInv'
  BY <1>4 DEF StepInv, ChainInv
<1>6. PICK old \in StepRows : old = steps[n]
  BY DEF StepInv, TypeInv, TablesInv
<1>7. steps[n].action # "completed" /\ (action = "snoozed" => d > steps[n].date)
  <2>1. old.date \in Nat /\ d \in Nat
    BY BillingAssumption DEF StepRows
  <2>2. old.action # "completed" /\ (action = "snoozed" => d > 0 /\ (old.date > 0 => d > old.date))
    BY <1>6 DEF CheckStep, Active, LaterDate
  <2>3. QED
    BY <1>6, <2>1, <2>2
<1>8. ReadyStep(request[o])'
  BY <1>3, <1>4, <1>7 DEF ReadyStep, Moves
<1>9. QED
  BY <1>4, <1>5, <1>8, OthersReady DEF StepInv, StepsGrow

LEMMA InsertStepChain ==
  ASSUME StepInv, NEW o \in Operators, InsertStep(o), TypeInv'
  PROVE  StepInv'
<1>1. Moves(o, Idle) /\ Idle.pc = "idle"
  BY IdleMoves DEF InsertStep, StepInv
<1>2. CASE Child(request[o].parent)
  BY <1>1, <1>2, ChainStill DEF InsertStep, Moves
<1>3. CASE ~Child(request[o].parent)
  <2>1. PICK new \in StepRows : /\ new = NewStep(o) /\ new.parent \in DOMAIN steps /\ new.parent = request[o].parent
                                /\ new.date = request[o].date /\ new.action = request[o].action
    BY NewStepLemma DEF InsertStep, StepInv
  <2>2. /\ steps[new.parent].action # "completed"
        /\ new.action = "snoozed" => new.date > steps[new.parent].date
    BY <2>1 DEF StepInv, ReadyStep, InsertStep
  <2>3. ChainInv'
    BY <1>3, <2>1, <2>2, ChainGrows DEF InsertStep
  <2>4. ReadyStep(request[o])'
    BY <1>1 DEF ReadyStep, Moves
  <2>5. StepsGrow
    BY <1>3, <2>1, StepsTyped DEF InsertStep, StepInv, StepsGrow, Grows
  <2>6. QED
    BY <1>1, <2>3, <2>4, <2>5, OthersReady DEF StepInv
<1>4. QED
  BY <1>2, <1>3

\* However requests overlap or end, a chain of next steps has one open end: no step has two
\* children, nothing follows a completed step, and putting a step off moves its date forward.
THEOREM ChainsStayOpenOnce == Spec => []OneOpenStep
<1>1. Init => StepInv
  <2> SUFFICES ASSUME Init PROVE StepInv
    OBVIOUS
  <2>1. TypeInv
    BY InitTyped
  <2>2. ChainInv
    BY DEF Init, ChainInv
  <2>3. \A o \in Operators : request[o].pc # "step"
    BY IdleLemma DEF Init
  <2>4. QED
    BY <2>1, <2>2, <2>3 DEF StepInv, ReadyStep
<1>2. StepInv /\ [Next]_vars => StepInv'
  <2> SUFFICES ASSUME StepInv, [Next]_vars PROVE StepInv'
    OBVIOUS
  <2>1. TypeInv /\ TypeInv'
    BY NextTyped DEF StepInv
  <2>2. CASE UNCHANGED vars
    BY <2>1, <2>2, ChainStill DEF vars
  <2>3. ASSUME NEW o \in Operators, Registration(o) \/ Charging(o) \/ Paying(o) \/ Die(o)
        PROVE  StepInv'
    <3>1. steps' = steps
      BY <2>1, <2>3, RegistrationMoves, ChargingMoves, PayingMoves, DieMoves DEF register
    <3>2. \/ request' = request
          \/ \E rec : Moves(o, rec) /\ rec.pc # "step"
      BY <2>1, <2>3, RegistrationMoves, ChargingMoves, PayingMoves, DieMoves DEF ChargeStages, PayStages
    <3>3. \A p \in Operators : request'[p] = request[p] \/ request'[p].pc # "step"
      BY <3>2 DEF Moves
    <3>4. QED
      BY <2>1, <3>1, <3>3, ChainStill
  <2>4. ASSUME NEW o \in Operators, Stepping(o)
        PROVE  StepInv'
    BY <2>1, <2>4, PlanStepChain, CheckStepChain, InsertStepChain DEF Stepping
  <2>5. QED
    BY <2>2, <2>3, <2>4 DEF Next
<1>3. StepInv => OneOpenStep
  <2> SUFFICES ASSUME StepInv, NEW i \in DOMAIN steps, NEW j \in DOMAIN steps
               PROVE  /\ (steps[i].parent # 0 /\ steps[i].parent = steps[j].parent) => i = j
                      /\ steps[i].parent = j =>
                           /\ steps[j].action # "completed" /\ j < i
                           /\ steps[i].action = "snoozed" => steps[i].date > steps[j].date
    BY DEF OneOpenStep
  <2>1. steps[i].parent \in 0..(i - 1) /\ i \in Nat /\ j \in Nat
    BY DEF StepInv, ChainInv, TypeInv, TablesInv
  <2>2. steps[i].parent = j => j < i
    BY <2>1
  <2>3. QED
    BY <2>2 DEF StepInv, ChainInv
<1>4. QED
  BY <1>1, <1>2, <1>3, PTL DEF Spec

-----------------------------------------------------------------------------
(* What each transaction of a charging request does to its row: r before it, *)
(* rec after it                                                              *)

Charger(o, r, rec) == r = request[o] /\ StageOK(r) /\ Moves(o, rec)

\* Nothing but the named parts of the row changes while pupils are drafted.
SameRequest(r, rec) == rec.model = r.model /\ rec.period = r.period /\ rec.row = r.row

Begins(o, rec, m, p) ==
  /\ Moves(o, rec) /\ rec.pc = "draft" /\ rec.model = m /\ rec.period = p /\ rec.left = Pupils(m)
  /\ rec.drafts = <<>> /\ DOMAIN rec.cards = {} /\ rec.freshCards = {}

LEMMA BeginsLemma ==
  ASSUME TypeInv, TypeInv', NEW o \in Operators, NEW m \in Models, NEW p \in Periods, Generate(o, m, p)
  PROVE  /\ \E rec \in RequestRows : Begins(o, rec, m, p)
         /\ UNCHANGED <<register, charging, paying, ledger>> /\ Begin(o)
<1>1. PICK rec \in RequestRows : rec = request'[o]
  BY DEF TypeInv, RequestInv
<1>2. PICK idle \in RequestRows : idle = Idle /\ idle.drafts = <<>> /\ idle.cards = Nobody /\ idle.freshCards = {}
  BY IdleLemma DEF Idle
<1>3. PICK new : new = [idle EXCEPT !.pc = "draft", !.model = m, !.period = p, !.left = Pupils(m)]
  OBVIOUS
<1>4. Moves(o, new)
  BY <1>2, <1>3, GotoMoves DEF Generate
<1>5. rec = new
  BY <1>1, <1>4 DEF Moves
<1>6. /\ rec.pc = "draft" /\ rec.model = m /\ rec.period = p /\ rec.left = Pupils(m)
      /\ rec.drafts = idle.drafts /\ rec.cards = idle.cards /\ rec.freshCards = idle.freshCards
  BY <1>3, <1>5 DEF RequestRows
<1>7. Begins(o, rec, m, p)
  BY <1>2, <1>4, <1>5, <1>6 DEF Begins, Nobody
<1>8. QED
  BY <1>7 DEF Generate

TakesCard(o, r, rec, f, card) ==
  /\ Charger(o, r, rec) /\ SameRequest(r, rec) /\ r.pc = "draft" /\ rec.pc = "draft"
  /\ f = Student[NextPupil(o)].payer /\ HasCard(f, r.model) /\ f \notin DOMAIN r.cards
  /\ card = CardLeft(f, r.model)
  /\ rec.cards = WithCard(r.cards, f, card)
  /\ rec.freshCards = IF payerState[f] = NoState THEN r.freshCards \cup {f} ELSE r.freshCards
  /\ rec.left = r.left /\ rec.drafts = r.drafts

LEMMA TakesCardLemma ==
  ASSUME TypeInv, TypeInv', NEW o \in Operators, ReadCard(o)
  PROVE  /\ \E r \in RequestRows, rec \in RequestRows, f \in Payers, card \in Nat : TakesCard(o, r, rec, f, card)
         /\ UNCHANGED <<register, charging, paying, ledger>> /\ Continue
<1>1. PICK r \in RequestRows : r = request[o] /\ r.pc = "draft" /\ StageOK(r)
  BY DEF ReadCard, TypeInv, RequestInv
<1>2. PICK f \in Payers : f = Student[NextPupil(o)].payer
  BY <1>1, NextPupilLemma
<1>3. PICK card \in Nat : card = CardLeft(f, r.model)
  BY <1>1, BillingAssumption DEF CardLeft, TypeInv, TablesInv, StageOK, ChargeStage
<1>4. PICK cards, fresh : /\ cards = WithCard(r.cards, f, card)
                          /\ fresh = IF payerState[f] = NoState THEN r.freshCards \cup {f} ELSE r.freshCards
  OBVIOUS
<1>5. PICK rec : rec = [r EXCEPT !.cards = cards, !.freshCards = fresh]
  OBVIOUS
<1>6. Moves(o, rec)
  BY <1>1, <1>2, <1>3, <1>4, <1>5, GotoMoves DEF ReadCard
<1>7. rec \in RequestRows
  BY <1>6 DEF Moves, TypeInv, RequestInv
<1>8. /\ rec.pc = r.pc /\ rec.model = r.model /\ rec.period = r.period /\ rec.row = r.row
      /\ rec.left = r.left /\ rec.drafts = r.drafts /\ rec.cards = cards /\ rec.freshCards = fresh
  BY <1>5 DEF RequestRows
<1>9. HasCard(f, r.model) /\ f \notin DOMAIN r.cards
  BY <1>1, <1>2 DEF ReadCard, CardNeeded, CardKnown
<1>10. TakesCard(o, r, rec, f, card)
  BY <1>1, <1>2, <1>3, <1>4, <1>6, <1>8, <1>9 DEF TakesCard, Charger, SameRequest
<1>11. QED
  BY <1>7, <1>10 DEF ReadCard

\* The card of the pupil's family, if it has one, has been read by now.
Drafted(o, r, rec, s, d, card) ==
  LET f == Student[s].payer
  IN /\ Charger(o, r, rec) /\ SameRequest(r, rec) /\ r.pc = "draft"
     /\ s = NextPupil(o)
     /\ HasCard(f, r.model) => f \in DOMAIN r.cards
     /\ card = IF f \in DOMAIN r.cards THEN r.cards[f] ELSE 0
     /\ d = Draft(s, r.model, card)
     /\ rec.left = r.left \ {NextPlace(o)} /\ rec.pc = (IF rec.left = {} THEN "batch" ELSE "draft")
     /\ rec.drafts = Append(r.drafts, d)
     /\ rec.cards = (IF f \in DOMAIN r.cards THEN WithCard(r.cards, f, r.cards[f] - d.large) ELSE r.cards)
     /\ rec.freshCards = r.freshCards

LEMMA DraftedLemma ==
  ASSUME TypeInv, TypeInv', NEW o \in Operators, DraftCharge(o)
  PROVE  /\ \E r \in RequestRows, rec \in RequestRows, s \in Students, d \in Drafts, card \in Nat :
              Drafted(o, r, rec, s, d, card)
         /\ UNCHANGED <<register, charging, paying, ledger>> /\ Continue
<1>1. PICK r \in RequestRows : r = request[o] /\ r.pc = "draft" /\ StageOK(r)
  BY DEF DraftCharge, TypeInv, RequestInv
<1>2. PICK s \in Students, f \in Payers : s = NextPupil(o) /\ f = Student[s].payer
  BY <1>1, NextPupilLemma
<1>3. r.cards \in [DOMAIN r.cards -> Nat] /\ DOMAIN r.cards \subseteq Payers
  BY <1>1, PartialLemma DEF RequestRows
<1>4. PICK card \in Nat : card = IF f \in DOMAIN r.cards THEN r.cards[f] ELSE 0
  BY <1>3
<1>5. PICK d \in Drafts : d = Draft(s, r.model, card) /\ d.large <= card
  BY <1>1, DraftLemma DEF TypeInv, StageOK, ChargeStage
<1>6. PICK left : left = r.left \ {NextPlace(o)}
  OBVIOUS
<1>7. PICK cards : cards = IF f \in DOMAIN r.cards THEN WithCard(r.cards, f, r.cards[f] - d.large) ELSE r.cards
  OBVIOUS
<1>8. PICK pc, drafts : pc = (IF left = {} THEN "batch" ELSE "draft") /\ drafts = Append(r.drafts, d)
  OBVIOUS
<1>9. PICK rec : rec = [r EXCEPT !.pc = pc, !.left = left, !.drafts = drafts, !.cards = cards]
  OBVIOUS
<1>10. Goto(o, rec) /\ ~CardNeeded(o, f)
  BY <1>1, <1>2, <1>4, <1>5, <1>6, <1>7, <1>8, <1>9 DEF DraftCharge, CardKnown
<1>11. Moves(o, rec)
  BY <1>10, GotoMoves
<1>12. rec \in RequestRows
  BY <1>11 DEF Moves, TypeInv, RequestInv
<1>13. /\ rec.pc = pc /\ rec.model = r.model /\ rec.period = r.period /\ rec.row = r.row
       /\ rec.left = left /\ rec.drafts = drafts /\ rec.cards = cards /\ rec.freshCards = r.freshCards
  BY <1>9 DEF RequestRows
<1>14. HasCard(f, r.model) => f \in DOMAIN r.cards
  BY <1>1, <1>10 DEF CardNeeded, CardKnown
<1>15. Drafted(o, r, rec, s, d, card)
  BY <1>1, <1>2, <1>4, <1>5, <1>6, <1>7, <1>8, <1>11, <1>13, <1>14 DEF Drafted, Charger, SameRequest
<1>16. QED
  BY <1>12, <1>15 DEF DraftCharge

\* A batch is refused, or added at the end.
Batched(o, r, rec, b, n) ==
  /\ Charger(o, r, rec) /\ SameRequest(r, rec) /\ r.pc = "batch" /\ rec.pc = "charge"
  /\ ~Generated(r.model, r.period) /\ b = [model |-> r.model, period |-> r.period]
  /\ n = Len(batches) + 1 /\ batches' = Append(batches, b)
  /\ rec.i = 1 /\ rec.batch = n /\ rec.drafts = r.drafts /\ rec.cards = r.cards /\ rec.freshCards = r.freshCards

LEMMA BatchedLemma ==
  ASSUME TypeInv, TypeInv', NEW o \in Operators, CreateBatch(o)
  PROVE  /\ \/ /\ Moves(o, Idle) /\ UNCHANGED batches
               /\ Generated(request[o].model, request[o].period) /\ request[o].pc = "batch"
            \/ \E r \in RequestRows, rec \in RequestRows, b \in BatchRows, n \in Nat : Batched(o, r, rec, b, n)
         /\ UNCHANGED <<register, charges, studentState, payerState, paying, ledger>> /\ Continue
<1>1. PICK r \in RequestRows : r = request[o] /\ r.pc = "batch" /\ StageOK(r)
  BY DEF CreateBatch, TypeInv, RequestInv
<1>2. CASE Generated(r.model, r.period)
  <2>1. Moves(o, Idle)
    BY <1>1, <1>2, IdleMoves DEF CreateBatch
  <2>2. QED
    BY <1>1, <1>2, <2>1 DEF CreateBatch
<1>3. CASE ~Generated(r.model, r.period)
  <2>1. PICK b \in BatchRows : b = [model |-> r.model, period |-> r.period]
    BY <1>1 DEF StageOK, ChargeStage, BatchRows
  <2>2. PICK n \in Nat : n = Len(batches) + 1
    BY DEF TypeInv, TablesInv
  <2>3. PICK rec : rec = [r EXCEPT !.pc = "charge", !.i = 1, !.batch = n]
    OBVIOUS
  <2>4. batches' = Append(batches, b) /\ Goto(o, rec)
    BY <1>1, <1>3, <2>1, <2>2, <2>3 DEF CreateBatch, NewBatch
  <2>5. Moves(o, rec)
    BY <2>4, GotoMoves
  <2>6. rec \in RequestRows
    BY <2>5 DEF Moves, TypeInv, RequestInv
  <2>7. /\ rec.pc = "charge" /\ rec.model = r.model /\ rec.period = r.period /\ rec.row = r.row
        /\ rec.i = 1 /\ rec.batch = n /\ rec.drafts = r.drafts /\ rec.cards = r.cards
        /\ rec.freshCards = r.freshCards
    BY <2>3 DEF RequestRows
  <2>8. Batched(o, r, rec, b, n)
    BY <1>1, <1>3, <2>1, <2>2, <2>4, <2>5, <2>7 DEF Batched, Charger, SameRequest
  <2>9. QED
    BY <2>6, <2>8 DEF CreateBatch
<1>4. QED
  BY <1>2, <1>3

\* After its i-th draft a request goes on with the next one, or with the stage that follows.
GoesOn(r, rec, stage) ==
  /\ rec.i \in DOMAIN r.drafts /\ rec.drafts = r.drafts /\ rec.cards = r.cards
  /\ rec.freshCards = r.freshCards /\ rec.batch = r.batch
  /\ rec.i = (IF r.i < Len(r.drafts) THEN r.i + 1 ELSE 1)
  /\ rec.pc = (IF r.i < Len(r.drafts) THEN r.pc ELSE stage)

LEMMA GoesOnLemma ==
  ASSUME TypeInv, TypeInv', NEW o \in Operators, NEW r \in RequestRows, r = request[o], StageOK(r),
         r.i \in DOMAIN r.drafts, NEW stage \in {"student", "payer", "balance"}, Goto(o, Ahead(r, stage))
  PROVE  \E rec \in RequestRows : Charger(o, r, rec) /\ SameRequest(r, rec) /\ GoesOn(r, rec, stage)
<1>1. PICK rec : rec = Ahead(r, stage)
  OBVIOUS
<1>2. /\ rec \in RequestRows /\ rec.i \in DOMAIN r.drafts
      /\ rec.i = (IF r.i < Len(r.drafts) THEN r.i + 1 ELSE 1)
      /\ rec.pc = (IF r.i < Len(r.drafts) THEN r.pc ELSE stage)
      /\ rec.drafts = r.drafts /\ rec.cards = r.cards /\ rec.model = r.model
      /\ rec.period = r.period /\ rec.row = r.row /\ rec.batch = r.batch /\ rec.freshCards = r.freshCards
  BY <1>1, OnwardLemma
<1>3. Moves(o, rec)
  BY <1>1, GotoMoves
<1>4. QED
  BY <1>2, <1>3 DEF Charger, SameRequest, GoesOn

Charges1(o, r, rec, d, c) ==
  /\ Charger(o, r, rec) /\ SameRequest(r, rec) /\ GoesOn(r, rec, "student") /\ r.pc = "charge"
  /\ d = r.drafts[r.i] /\ c = NewCharge(r.batch, d) /\ charges' = charges \cup {c}

LEMMA ChargesLemma ==
  ASSUME TypeInv, TypeInv', NEW o \in Operators, CreateCharge(o)
  PROVE  /\ \E r \in RequestRows, rec \in RequestRows, d \in Drafts, c \in ChargeRows : Charges1(o, r, rec, d, c)
         /\ UNCHANGED <<register, batches, studentState, payerState, paying, ledger>> /\ Continue
<1>1. PICK r \in RequestRows : r = request[o] /\ r.pc = "charge" /\ StageOK(r)
  BY DEF CreateCharge, TypeInv, RequestInv
<1>2. r.i \in DOMAIN r.drafts /\ r.drafts \in Seq(Drafts) /\ r.batch \in DOMAIN batches
  BY <1>1 DEF StageOK, ChargeStage, RequestRows
<1>3. PICK d \in Drafts : d = r.drafts[r.i]
  BY <1>2
<1>4. PICK c \in ChargeRows : c = NewCharge(r.batch, d)
  <2>1. r.batch \in Nat \ {0}
    BY <1>2 DEF TypeInv, TablesInv
  <2>2. QED
    BY <2>1 DEF NewCharge, ChargeRows, Drafts
<1>5. charges' = charges \cup {c} /\ Goto(o, Ahead(r, "student"))
  BY <1>1, <1>3, <1>4 DEF CreateCharge, Current, Onward, Ahead
<1>6. PICK rec \in RequestRows : Charger(o, r, rec) /\ SameRequest(r, rec) /\ GoesOn(r, rec, "student")
  <2>1. "student" \in {"student", "payer", "balance"}
    OBVIOUS
  <2>2. QED
    BY <1>1, <1>2, <1>5, <2>1, GoesOnLemma
<1>7. Charges1(o, r, rec, d, c)
  BY <1>1, <1>3, <1>4, <1>5, <1>6 DEF Charges1
<1>8. QED
  BY <1>7 DEF CreateCharge

\* The state of a student is refused, or replaced.
Saves(o, r, rec, d) ==
  /\ Charger(o, r, rec) /\ SameRequest(r, rec) /\ r.pc = "student" /\ d = r.drafts[r.i]
  /\ GoesOn(r, rec, IF DOMAIN r.cards = {} THEN "balance" ELSE "payer")
  /\ studentState' = [studentState EXCEPT ![d.student] = [intro |-> d.introLeft, sibling |-> d.siblingLeft]]

Refused(o, r, d) ==
  /\ r = request[o] /\ StageOK(r) /\ r.pc = "student" /\ r.i \in DOMAIN r.drafts /\ d = r.drafts[r.i]
  /\ d.fresh /\ studentState[d.student] # NoState /\ Moves(o, Idle) /\ UNCHANGED studentState

LEMMA SavesLemma ==
  ASSUME TypeInv, TypeInv', NEW o \in Operators, SaveStudent(o)
  PROVE  /\ \/ \E r \in RequestRows, d \in Drafts : Refused(o, r, d)
            \/ \E r \in RequestRows, rec \in RequestRows, d \in Drafts : Saves(o, r, rec, d)
         /\ UNCHANGED <<register, batches, charges, payerState, paying, ledger>> /\ Continue
<1>1. PICK r \in RequestRows : r = request[o] /\ r.pc = "student" /\ StageOK(r)
  BY DEF SaveStudent, TypeInv, RequestInv
<1>2. r.i \in DOMAIN r.drafts /\ r.drafts \in Seq(Drafts)
  BY <1>1 DEF StageOK, ChargeStage, RequestRows
<1>3. PICK d \in Drafts : d = r.drafts[r.i]
  BY <1>2
<1>4. CASE d.fresh /\ studentState[d.student] # NoState
  <2>1. Goto(o, Idle) /\ UNCHANGED studentState
    BY <1>1, <1>3, <1>4 DEF SaveStudent, Current
  <2>2. Refused(o, r, d)
    BY <1>1, <1>2, <1>3, <1>4, <2>1, IdleMoves DEF Refused
  <2>3. QED
    BY <2>2 DEF SaveStudent
<1>5. CASE ~(d.fresh /\ studentState[d.student] # NoState)
  <2>1. PICK stage \in {"student", "payer", "balance"} : stage = IF DOMAIN r.cards = {} THEN "balance" ELSE "payer"
    OBVIOUS
  <2>2. /\ studentState' = [studentState EXCEPT ![d.student] = [intro |-> d.introLeft, sibling |-> d.siblingLeft]]
        /\ Goto(o, Ahead(r, stage))
    BY <1>1, <1>3, <1>5, <2>1 DEF SaveStudent, Current, Onward, Ahead
  <2>3. PICK rec \in RequestRows : Charger(o, r, rec) /\ SameRequest(r, rec) /\ GoesOn(r, rec, stage)
    BY <1>1, <1>2, <2>2, GoesOnLemma
  <2>4. Saves(o, r, rec, d)
    BY <1>1, <1>3, <2>1, <2>2, <2>3 DEF Saves
  <2>5. QED
    BY <2>4 DEF SaveStudent
<1>6. QED
  BY <1>4, <1>5

\* What is left of a family's discount is refused, or replaces what was stored.
SavesCard(o, r, rec, f) ==
  LET left == DOMAIN r.cards \ {f}
  IN /\ Charger(o, r, rec) /\ SameRequest(r, rec) /\ r.pc = "payer" /\ f \in DOMAIN r.cards
     /\ ~(f \in r.freshCards /\ payerState[f] # NoState)
     /\ payerState' = [payerState EXCEPT ![f] = r.cards[f]]
     /\ rec.cards = [g \in left |-> r.cards[g]] /\ rec.pc = (IF left = {} THEN "balance" ELSE "payer")
     /\ rec.drafts = r.drafts /\ rec.freshCards = r.freshCards

RefusedCard(o, r, f) ==
  /\ r = request[o] /\ StageOK(r) /\ r.pc = "payer" /\ f \in DOMAIN r.cards
  /\ f \in r.freshCards /\ payerState[f] # NoState /\ Moves(o, Idle) /\ UNCHANGED payerState

LEMMA SavesCardLemma ==
  ASSUME TypeInv, TypeInv', NEW o \in Operators, SavePayer(o)
  PROVE  /\ \/ \E r \in RequestRows, f \in Payers : RefusedCard(o, r, f)
            \/ \E r \in RequestRows, rec \in RequestRows, f \in Payers : SavesCard(o, r, rec, f)
         /\ UNCHANGED <<register, batches, charges, studentState, paying, ledger>> /\ Continue
<1>1. PICK r \in RequestRows : r = request[o] /\ r.pc = "payer" /\ StageOK(r)
  BY DEF SavePayer, TypeInv, RequestInv
<1>2. DOMAIN r.cards \subseteq Payers
  BY <1>1, PartialLemma DEF RequestRows
<1>3. PICK f \in DOMAIN r.cards :
        IF f \in r.freshCards /\ payerState[f] # NoState
        THEN Goto(o, Idle) /\ UNCHANGED payerState
        ELSE /\ payerState' = [payerState EXCEPT ![f] = r.cards[f]]
             /\ LET left == DOMAIN r.cards \ {f}
                IN Goto(o, [r EXCEPT !.cards = [g \in left |-> r.cards[g]],
                                     !.pc = IF left = {} THEN "balance" ELSE "payer"])
  BY <1>1 DEF SavePayer
<1>4. CASE f \in r.freshCards /\ payerState[f] # NoState
  <2>1. RefusedCard(o, r, f)
    BY <1>1, <1>3, <1>4, IdleMoves DEF RefusedCard
  <2>2. QED
    BY <1>2, <2>1 DEF SavePayer
<1>5. CASE ~(f \in r.freshCards /\ payerState[f] # NoState)
  <2>1. PICK left, cards, pc : /\ left = DOMAIN r.cards \ {f} /\ cards = [g \in left |-> r.cards[g]]
                               /\ pc = IF left = {} THEN "balance" ELSE "payer"
    OBVIOUS
  <2>2. PICK rec : rec = [r EXCEPT !.cards = cards, !.pc = pc]
    OBVIOUS
  <2>3. payerState' = [payerState EXCEPT ![f] = r.cards[f]] /\ Goto(o, rec)
    BY <1>3, <1>5, <2>1, <2>2
  <2>4. Moves(o, rec)
    BY <2>3, GotoMoves
  <2>5. rec \in RequestRows
    BY <2>4 DEF Moves, TypeInv, RequestInv
  <2>6. /\ rec.pc = pc /\ rec.model = r.model /\ rec.period = r.period /\ rec.row = r.row
        /\ rec.cards = cards /\ rec.drafts = r.drafts /\ rec.freshCards = r.freshCards
    BY <2>2 DEF RequestRows
  <2>7. SavesCard(o, r, rec, f)
    BY <1>1, <1>5, <2>1, <2>3, <2>4, <2>6 DEF SavesCard, Charger, SameRequest
  <2>8. QED
    BY <1>2, <2>5, <2>7 DEF SavePayer
<1>6. QED
  BY <1>4, <1>5

ReadsBalances(o, r, rec) ==
  /\ Charger(o, r, rec) /\ SameRequest(r, rec) /\ r.pc = "balance" /\ rec.pc = "entry"
  /\ rec.drafts = r.drafts /\ rec.i = r.i
  /\ DOMAIN rec.after = PayersOf(r.drafts)
  /\ \A f \in PayersOf(r.drafts) : rec.after[f] = Balance(f) - TotalOf(r.drafts, DOMAIN r.drafts, f)

LEMMA ReadsBalancesLemma ==
  ASSUME TypeInv, TypeInv', NEW o \in Operators, ReadBalances(o)
  PROVE  /\ \E r \in RequestRows, rec \in RequestRows : ReadsBalances(o, r, rec)
         /\ UNCHANGED <<register, charging, paying, ledger>> /\ Continue
<1>1. PICK r \in RequestRows : r = request[o] /\ r.pc = "balance" /\ StageOK(r)
  BY DEF ReadBalances, TypeInv, RequestInv
<1>2. PICK after : after = [f \in PayersOf(r.drafts) |-> Balance(f) - TotalOf(r.drafts, DOMAIN r.drafts, f)]
  OBVIOUS
<1>3. PICK rec : rec = [r EXCEPT !.pc = "entry", !.after = after]
  OBVIOUS
<1>4. Goto(o, rec)
  BY <1>1, <1>2, <1>3 DEF ReadBalances, TotalOf, PlacesOf
<1>5. Moves(o, rec)
  BY <1>4, GotoMoves
<1>6. rec \in RequestRows
  BY <1>5 DEF Moves, TypeInv, RequestInv
<1>7. /\ rec.pc = "entry" /\ rec.model = r.model /\ rec.period = r.period /\ rec.row = r.row
      /\ rec.drafts = r.drafts /\ rec.i = r.i /\ rec.after = after
  BY <1>3 DEF RequestRows
<1>8. ReadsBalances(o, r, rec)
  BY <1>1, <1>2, <1>5, <1>7 DEF ReadsBalances, Charger, SameRequest
<1>9. QED
  BY <1>6, <1>8 DEF ReadBalances

\* The entry of the i-th draft; the request goes on, or ends with the last one.
Posts(o, r, rec, f, total, after) ==
  /\ Charger(o, r, rec) /\ r.pc = "entry" /\ r.row = NoState
  /\ f = Student[r.drafts[r.i].student].payer /\ total = r.drafts[r.i].total /\ after = r.after[f] + total
  /\ ledger' = [ledger EXCEPT ![f] = Entry(f, total, after)]
  /\ IF r.i < Len(r.drafts)
     THEN /\ rec.pc = "entry" /\ rec.row = r.row /\ rec.drafts = r.drafts /\ rec.i = r.i + 1
          /\ rec.after = [r.after EXCEPT ![f] = after]
     ELSE rec = Idle

LEMMA PostsLemma ==
  ASSUME TypeInv, TypeInv', NEW o \in Operators, PostCharge(o)
  PROVE  /\ \E r \in RequestRows, rec \in RequestRows, f \in Payers, total \in Nat, after \in Int :
              Posts(o, r, rec, f, total, after)
         /\ UNCHANGED <<register, charging, paying>> /\ Continue
<1>1. PICK r \in RequestRows : r = request[o] /\ r.pc = "entry" /\ r.row = NoState /\ StageOK(r)
  BY DEF PostCharge, TypeInv, RequestInv
<1>2. r.i \in DOMAIN r.drafts /\ r.drafts \in Seq(Drafts) /\ DOMAIN r.after = PayersOf(r.drafts)
  BY <1>1 DEF StageOK, ChargeStage, RequestRows
<1>3. PICK d \in Drafts : d = r.drafts[r.i] /\ Student[d.student].payer \in Payers
  BY <1>2, DraftsLemma
<1>4. PICK f \in Payers : f = Student[d.student].payer
  BY <1>3
<1>5. PICK total \in Nat : total = d.total
  BY DEF Drafts
<1>6. f \in DOMAIN r.after
  BY <1>2, <1>3, <1>4 DEF PayersOf
<1>7. r.after \in [DOMAIN r.after -> Int]
  BY PartialLemma DEF RequestRows
<1>8. PICK after \in Int : after = r.after[f] + total
  BY <1>6, <1>7
<1>9. ledger' = [ledger EXCEPT ![f] = Entry(f, total, after)] /\ UNCHANGED <<register, charging, paying>>
  BY <1>1, <1>3, <1>4, <1>5, <1>8 DEF PostCharge, Current
<1>10. CASE r.i < Len(r.drafts)
  <2>1. PICK next \in Nat : next = r.i + 1
    BY <1>2
  <2>2. PICK all : all = [r.after EXCEPT ![f] = after]
    OBVIOUS
  <2>3. PICK rec : rec = [r EXCEPT !.i = next, !.after = all]
    OBVIOUS
  <2>4. Goto(o, rec)
    BY <1>1, <1>3, <1>4, <1>5, <1>8, <1>10, <2>1, <2>2, <2>3 DEF PostCharge, Current
  <2>5. Moves(o, rec)
    BY <2>4, GotoMoves
  <2>6. rec \in RequestRows
    BY <2>5 DEF Moves, TypeInv, RequestInv
  <2>7. rec.pc = r.pc /\ rec.row = r.row /\ rec.drafts = r.drafts /\ rec.i = next /\ rec.after = all
    BY <2>3 DEF RequestRows
  <2>8. Posts(o, r, rec, f, total, after)
    BY <1>1, <1>3, <1>4, <1>5, <1>8, <1>9, <1>10, <2>1, <2>2, <2>5, <2>7 DEF Posts, Charger
  <2>9. QED
    BY <1>9, <2>6, <2>8 DEF PostCharge
<1>11. CASE ~(r.i < Len(r.drafts))
  <2>1. Moves(o, Idle) /\ Idle \in RequestRows
    BY <1>1, <1>11, IdleMoves, IdleLemma DEF PostCharge
  <2>2. Posts(o, r, Idle, f, total, after)
    BY <1>1, <1>3, <1>4, <1>5, <1>8, <1>9, <1>11, <2>1 DEF Posts, Charger
  <2>3. QED
    BY <1>9, <2>1, <2>2 DEF PostCharge
<1>12. QED
  BY <1>10, <1>11

-----------------------------------------------------------------------------
(* A student is charged once for a period                                    *)

\* A batch is unique; its charges name a student of its model once.
BatchInv ==
  /\ \A i, j \in DOMAIN batches : batches[i] = batches[j] => i = j
  /\ \A c \in charges : c.batch \in DOMAIN batches /\ batches[c.batch].model = Student[c.student].model
  /\ \A c, d \in charges : (c.batch = d.batch /\ c.student = d.student) => c = d

\* The drafts of a request name a student of its model once, none of those still to be drafted;
\* the charges of its batch are those of the drafts before the i-th.
DraftsOnce(r) ==
  /\ \A k \in DOMAIN r.drafts : Student[r.drafts[k].student].model = r.model
  /\ \A k, l \in DOMAIN r.drafts : r.drafts[k].student = r.drafts[l].student => k = l

StillToDraft(r) == \A n \in r.left :
  Student[Roll[n]].model = r.model /\ \A k \in DOMAIN r.drafts : r.drafts[k].student # Roll[n]

ChargedSoFar(r) ==
  /\ batches[r.batch] = [model |-> r.model, period |-> r.period]
  /\ \A c \in charges : c.batch = r.batch => \E k \in DOMAIN r.drafts : k < r.i /\ c.student = r.drafts[k].student

Rostered(r) ==
  /\ r.pc \in {"draft", "batch", "charge", "student"} => DraftsOnce(r)
  /\ r.pc = "draft" => StillToDraft(r)
  /\ r.pc = "charge" => ChargedSoFar(r)

\* Requests write the charges of different batches.
Owners == \A o, p \in Operators :
  (o # p /\ request[o].pc = "charge" /\ request[p].pc = "charge") => request[o].batch # request[p].batch

ChargeInv == TypeInv /\ BatchInv /\ Owners /\ \A o \in Operators : Rostered(request[o])

\* A request's transaction that writes no charges of another request's batch.
LEMMA RosterMoves ==
  ASSUME ChargeInv, TypeInv', BatchInv', NEW o \in Operators, NEW rec, Moves(o, rec), Rostered(rec)',
         DOMAIN batches \subseteq DOMAIN batches', \A n \in DOMAIN batches : batches'[n] = batches[n],
         \A c \in charges' : c \in charges \/ (request[o].pc = "charge" /\ c.batch = request[o].batch),
         rec.pc = "charge" => \/ request[o].pc = "charge" /\ rec.batch = request[o].batch
                              \/ rec.batch \notin DOMAIN batches
  PROVE  ChargeInv'
<1>1. ASSUME NEW p \in Operators \ {o}
      PROVE  Rostered(request[p])'
  <2>1. PICK r \in RequestRows : r = request[p] /\ r = request'[p] /\ Rostered(r) /\ ChargeStage(r)
    BY DEF ChargeInv, TypeInv, RequestInv, Moves, StageOK
  <2>2. r.pc = "charge" => r.batch \in DOMAIN batches /\ \A c \in charges' : c.batch = r.batch => c \in charges
    BY <2>1 DEF ChargeStage, ChargeInv, Owners
  <2>3. r.pc = "charge" => ChargedSoFar(r)'
    BY <2>1, <2>2 DEF Rostered, ChargedSoFar
  <2>4. Rostered(r)'
    BY <2>1, <2>3 DEF Rostered, DraftsOnce, StillToDraft
  <2>5. QED
    BY <2>1, <2>4 DEF Rostered, DraftsOnce, StillToDraft, ChargedSoFar
<1>2. Rostered(request[o])'
  BY DEF Moves, Rostered, DraftsOnce, StillToDraft, ChargedSoFar
<1>3. ASSUME NEW p \in Operators \ {o}, request'[p].pc = "charge", rec.pc = "charge"
      PROVE  request'[p].batch # rec.batch
  <2>1. request[p].pc = "charge" /\ request'[p].batch = request[p].batch /\ request[p].batch \in DOMAIN batches
    BY <1>3 DEF Moves, ChargeInv, TypeInv, RequestInv, StageOK, ChargeStage
  <2>2. QED
    BY <1>3, <2>1 DEF ChargeInv, Owners
<1>4. Owners'
  BY <1>3 DEF Owners, ChargeInv, Moves
<1>5. QED
  BY <1>1, <1>2, <1>4 DEF ChargeInv

\* Nothing is asked of a request that charges nothing from here on.
LEMMA RosterStill ==
  ASSUME ChargeInv, TypeInv', UNCHANGED <<batches, charges>>, NEW o \in Operators, NEW rec, Moves(o, rec),
         Rostered(rec)', rec.pc # "charge"
  PROVE  ChargeInv'
<1>1. BatchInv'
  BY DEF ChargeInv, BatchInv
<1>2. QED
  BY <1>1, RosterMoves

LEMMA RosterAway ==
  ASSUME ChargeInv, TypeInv', UNCHANGED <<batches, charges>>, NEW o \in Operators, NEW rec, Moves(o, rec),
         rec.pc \notin {"draft", "batch", "charge", "student"}
  PROVE  ChargeInv'
<1>1. Rostered(rec)' /\ rec.pc # "charge"
  BY DEF Rostered
<1>2. QED
  BY <1>1, RosterStill

LEMMA GenerateRoster ==
  ASSUME ChargeInv, TypeInv', NEW o \in Operators, NEW m \in Models, NEW p \in Periods, Generate(o, m, p)
  PROVE  ChargeInv'
<1>1. PICK rec \in RequestRows : Begins(o, rec, m, p)
  BY BeginsLemma DEF ChargeInv
<1>2. UNCHANGED <<batches, charges>>
  BY BeginsLemma DEF ChargeInv, charging
<1>3. DraftsOnce(rec)'
  BY <1>1 DEF Begins, DraftsOnce
<1>4. StillToDraft(rec)'
  BY <1>1 DEF Begins, StillToDraft, Pupils
<1>5. Rostered(rec)' /\ Moves(o, rec) /\ rec.pc # "charge"
  BY <1>1, <1>3, <1>4 DEF Rostered, Begins
<1>6. QED
  BY <1>2, <1>5, RosterStill

LEMMA ReadCardRoster ==
  ASSUME ChargeInv, TypeInv', NEW o \in Operators, ReadCard(o)
  PROVE  ChargeInv'
<1>1. PICK r \in RequestRows, rec \in RequestRows, f \in Payers, card \in Nat : TakesCard(o, r, rec, f, card)
  BY TakesCardLemma DEF ChargeInv
<1>2. UNCHANGED <<batches, charges>>
  BY TakesCardLemma DEF ChargeInv, charging
<1>3. /\ r = request[o] /\ r.pc = "draft" /\ rec.pc = "draft" /\ Moves(o, rec)
      /\ rec.model = r.model /\ rec.left = r.left /\ rec.drafts = r.drafts
  BY <1>1 DEF TakesCard, Charger, SameRequest
<1>4. DraftsOnce(r) /\ StillToDraft(r)
  BY <1>3 DEF ChargeInv, Rostered
<1>5. DraftsOnce(rec)' /\ StillToDraft(rec)'
  BY <1>3, <1>4 DEF DraftsOnce, StillToDraft
<1>6. Rostered(rec)' /\ rec.pc # "charge"
  BY <1>3, <1>5 DEF Rostered
<1>7. QED
  BY <1>2, <1>3, <1>6, RosterStill

LEMMA DraftChargeRoster ==
  ASSUME ChargeInv, TypeInv', NEW o \in Operators, DraftCharge(o)
  PROVE  ChargeInv'
<1>0. TypeInv
  BY DEF ChargeInv
<1>1. PICK r \in RequestRows, rec \in RequestRows, s \in Students, d \in Drafts, card \in Nat :
        Drafted(o, r, rec, s, d, card)
  BY <1>0, DraftedLemma
<1>2. UNCHANGED <<batches, charges>>
  BY <1>0, DraftedLemma DEF charging
<1>3. /\ r = request[o] /\ r.pc = "draft" /\ rec.pc \in {"batch", "draft"} /\ Moves(o, rec) /\ StageOK(r)
      /\ rec.model = r.model /\ rec.left = r.left \ {NextPlace(o)} /\ rec.drafts = Append(r.drafts, d)
      /\ s = NextPupil(o) /\ d = Draft(s, r.model, card)
  BY <1>1 DEF Drafted, Charger, SameRequest
<1>4. DraftsOnce(r) /\ StillToDraft(r)
  BY <1>3 DEF ChargeInv, Rostered
<1>5. NextPlace(o) \in r.left /\ s = Roll[NextPlace(o)] /\ r.left \subseteq DOMAIN Roll
  BY <1>0, <1>3, NextPupilLemma DEF NextPupil, RequestRows
<1>6. d.student = s
  <2>1. TablesInv /\ r.model \in Models
    BY <1>0, <1>3 DEF TypeInv, StageOK, ChargeStage
  <2>2. Draft(s, r.model, card).student = s
    BY <2>1, DraftLemma
  <2>3. QED
    BY <1>3, <2>2
<1>7. r.drafts \in Seq(Drafts)
  BY DEF RequestRows
<1>8. PICK n \in Nat : /\ DOMAIN r.drafts = 1..n /\ DOMAIN rec.drafts = 1..(n + 1) /\ rec.drafts[n + 1] = d
                       /\ \A k \in 1..n : rec.drafts[k] = r.drafts[k]
  <2>1. PICK ds \in Seq(Drafts) : ds = r.drafts /\ rec.drafts = Append(ds, d)
    BY <1>3, <1>7
  <2>2. /\ Len(ds) \in Nat /\ DOMAIN ds = 1..Len(ds) /\ DOMAIN Append(ds, d) = 1..(Len(ds) + 1)
        /\ Append(ds, d)[Len(ds) + 1] = d /\ \A k \in DOMAIN ds : Append(ds, d)[k] = ds[k]
    BY AppendLemma
  <2>3. QED
    BY <2>1, <2>2
<1>9. Student[s].model = r.model /\ \A k \in 1..n : r.drafts[k].student # s
  BY <1>4, <1>5, <1>8 DEF StillToDraft
<1>10. DraftsOnce(rec)
  <2>1. ASSUME NEW k \in 1..(n + 1)
        PROVE  Student[rec.drafts[k].student].model = r.model
    BY <1>4, <1>6, <1>8, <1>9 DEF DraftsOnce
  <2>2. ASSUME NEW k \in 1..(n + 1), NEW l \in 1..(n + 1), rec.drafts[k].student = rec.drafts[l].student
        PROVE  k = l
    <3>0. (k \in 1..n \/ k = n + 1) /\ (l \in 1..n \/ l = n + 1)
      OBVIOUS
    <3>1. CASE k \in 1..n /\ l \in 1..n
      BY <1>4, <1>8, <2>2, <3>1 DEF DraftsOnce
    <3>2. CASE k = n + 1 /\ l \in 1..n
      BY <1>6, <1>8, <1>9, <2>2, <3>2
    <3>3. CASE k \in 1..n /\ l = n + 1
      BY <1>6, <1>8, <1>9, <2>2, <3>3
    <3>4. QED
      BY <3>0, <3>1, <3>2, <3>3
  <2>3. QED
    BY <1>3, <1>8, <2>1, <2>2 DEF DraftsOnce
<1>11. StillToDraft(rec)
  <2>1. ASSUME NEW place \in rec.left
        PROVE  Student[Roll[place]].model = r.model /\ \A k \in 1..(n + 1) : rec.drafts[k].student # Roll[place]
    <3>1. place \in r.left /\ place # NextPlace(o)
      BY <1>3
    <3>2. Roll[place] # s
      BY <1>5, <3>1, RollLemma
    <3>3. \A k \in 1..n : r.drafts[k].student # Roll[place]
      BY <1>4, <1>8, <3>1 DEF StillToDraft
    <3>4. ASSUME NEW k \in 1..(n + 1)
          PROVE  rec.drafts[k].student # Roll[place]
      <4>1. k \in 1..n \/ k = n + 1
        OBVIOUS
      <4>2. CASE k \in 1..n
        BY <1>8, <3>3, <4>2
      <4>3. CASE k = n + 1
        BY <1>6, <1>8, <3>2, <4>3
      <4>4. QED
        BY <4>1, <4>2, <4>3
    <3>5. QED
      BY <1>4, <3>1, <3>4 DEF StillToDraft
  <2>2. QED
    BY <1>3, <1>8, <2>1 DEF StillToDraft
<1>12. Rostered(rec)' /\ rec.pc # "charge"
  BY <1>3, <1>10, <1>11 DEF Rostered, DraftsOnce, StillToDraft
<1>13. QED
  BY <1>2, <1>3, <1>12, RosterStill

LEMMA CreateBatchRoster ==
  ASSUME ChargeInv, TypeInv', NEW o \in Operators, CreateBatch(o)
  PROVE  ChargeInv'
<1>0. TypeInv
  BY DEF ChargeInv
<1>1. UNCHANGED charges
  BY <1>0, BatchedLemma
<1>2. CASE Moves(o, Idle) /\ UNCHANGED batches
  BY <1>1, <1>2, IdleLemma, RosterAway
<1>3. ASSUME NEW r \in RequestRows, NEW rec \in RequestRows, NEW b \in BatchRows, NEW n \in Nat,
             Batched(o, r, rec, b, n)
      PROVE  ChargeInv'
  <2>1. /\ r = request[o] /\ r.pc = "batch" /\ Moves(o, rec) /\ rec.pc = "charge"
        /\ rec.model = r.model /\ rec.period = r.period /\ rec.batch = n /\ rec.i = 1 /\ rec.drafts = r.drafts
        /\ ~Generated(r.model, r.period) /\ b = [model |-> r.model, period |-> r.period]
        /\ n = Len(batches) + 1 /\ batches' = Append(batches, b)
    BY <1>3 DEF Batched, Charger, SameRequest
  <2>2. PICK len \in Nat : len = Len(batches) /\ DOMAIN batches = 1..len /\ n = len + 1
    BY <1>0, <2>1 DEF TypeInv, TablesInv
  <2>3. DOMAIN batches' = 1..n /\ batches'[n] = b /\ \A k \in 1..len : batches'[k] = batches[k]
    BY <1>0, <2>1, <2>2, AppendLemma DEF TypeInv, TablesInv
  <2>4. \A k \in 1..len : batches[k] # b
    BY <2>1, <2>2 DEF Generated
  <2>5. BatchInv'
    <3>1. ASSUME NEW i \in 1..n, NEW j \in 1..n, batches'[i] = batches'[j]
          PROVE  i = j
      <4>1. CASE i \in 1..len /\ j \in 1..len
        BY <2>2, <2>3, <3>1, <4>1 DEF ChargeInv, BatchInv
      <4>2. CASE i = n \/ j = n
        BY <2>2, <2>3, <2>4, <3>1, <4>2
      <4>3. QED
        BY <2>2, <4>1, <4>2
    <3>2. \A c \in charges : c.batch \in 1..len /\ batches[c.batch].model = Student[c.student].model
      BY <2>2 DEF ChargeInv, BatchInv
    <3>3. \A c \in charges : c.batch \in 1..n /\ batches'[c.batch].model = Student[c.student].model
      BY <2>2, <2>3, <3>2
    <3>4. \A c, d \in charges : (c.batch = d.batch /\ c.student = d.student) => c = d
      BY DEF ChargeInv, BatchInv
    <3>5. QED
      BY <1>1, <2>3, <3>1, <3>3, <3>4 DEF BatchInv
  <2>6. DraftsOnce(r)
    BY <2>1 DEF ChargeInv, Rostered
  <2>7. \A c \in charges : c.batch # n
    BY <2>2 DEF ChargeInv, BatchInv
  <2>8. Rostered(rec)'
    BY <1>1, <2>1, <2>3, <2>6, <2>7 DEF Rostered, DraftsOnce, ChargedSoFar
  <2>9. n \notin DOMAIN batches
    BY <2>2
  <2>10. QED
    BY <1>1, <2>1, <2>2, <2>3, <2>5, <2>8, <2>9, RosterMoves
<1>4. QED
  BY <1>0, <1>2, <1>3, BatchedLemma

\* A charge is new: no charge of its batch names its student.
LEMMA NewChargeLemma ==
  ASSUME ChargeInv, NEW o \in Operators, NEW r, NEW rec, NEW d, NEW c, Charges1(o, r, rec, d, c)
  PROVE  /\ c.batch = r.batch /\ c.student = d.student /\ c.total = d.total
         /\ c.intro = d.intro /\ c.sibling = d.sibling /\ c.large = d.large
         /\ \A e \in charges : ~(e.batch = c.batch /\ e.student = c.student)
         /\ c \notin charges
<1>1. /\ r = request[o] /\ r.pc = "charge" /\ StageOK(r) /\ d = r.drafts[r.i] /\ c = NewCharge(r.batch, d)
  BY DEF Charges1, Charger
<1>2. r.i \in DOMAIN r.drafts /\ r.i \in Nat
  BY <1>1 DEF StageOK, ChargeStage, ChargeInv, TypeInv, RequestInv, RequestRows
<1>3. DraftsOnce(r) /\ ChargedSoFar(r)
  BY <1>1 DEF ChargeInv, Rostered
<1>4. /\ c.batch = r.batch /\ c.student = d.student /\ c.total = d.total
      /\ c.intro = d.intro /\ c.sibling = d.sibling /\ c.large = d.large
  BY <1>1 DEF NewCharge
<1>5. ASSUME NEW e \in charges, e.batch = c.batch, e.student = c.student
      PROVE  FALSE
  <2>1. PICK k \in DOMAIN r.drafts : k < r.i /\ e.student = r.drafts[k].student
    BY <1>3, <1>4, <1>5 DEF ChargedSoFar
  <2>2. k = r.i
    <3>1. r.drafts[k].student = r.drafts[r.i].student
      BY <1>1, <1>4, <1>5, <2>1
    <3>2. QED
      BY <1>2, <1>3, <3>1 DEF DraftsOnce
  <2>3. QED
    BY <1>2, <2>1, <2>2
<1>6. QED
  BY <1>4, <1>5

LEMMA CreateChargeRoster ==
  ASSUME ChargeInv, TypeInv', NEW o \in Operators, CreateCharge(o)
  PROVE  ChargeInv'
<1>0. TypeInv
  BY DEF ChargeInv
<1>1. PICK r \in RequestRows, rec \in RequestRows, d \in Drafts, c \in ChargeRows : Charges1(o, r, rec, d, c)
  BY <1>0, ChargesLemma
<1>2. UNCHANGED batches
  BY <1>0, ChargesLemma
<1>3. /\ r = request[o] /\ r.pc = "charge" /\ StageOK(r) /\ Moves(o, rec) /\ charges' = charges \cup {c}
      /\ rec.model = r.model /\ rec.period = r.period /\ rec.batch = r.batch /\ rec.drafts = r.drafts
      /\ rec.i = (IF r.i < Len(r.drafts) THEN r.i + 1 ELSE 1)
      /\ rec.pc = (IF r.i < Len(r.drafts) THEN "charge" ELSE "student") /\ d = r.drafts[r.i]
  <2>1. /\ Charger(o, r, rec) /\ SameRequest(r, rec) /\ GoesOn(r, rec, "student") /\ r.pc = "charge"
        /\ charges' = charges \cup {c} /\ d = r.drafts[r.i]
    BY <1>1 DEF Charges1
  <2>2. /\ r = request[o] /\ StageOK(r) /\ Moves(o, rec)
        /\ rec.model = r.model /\ rec.period = r.period
    BY <2>1 DEF Charger, SameRequest
  <2>3. /\ rec.batch = r.batch /\ rec.drafts = r.drafts
        /\ rec.i = (IF r.i < Len(r.drafts) THEN r.i + 1 ELSE 1)
        /\ rec.pc = (IF r.i < Len(r.drafts) THEN r.pc ELSE "student")
    BY <2>1 DEF GoesOn
  <2>4. QED
    BY <2>1, <2>2, <2>3
<1>4. r.i \in DOMAIN r.drafts /\ r.i \in Nat /\ r.batch \in DOMAIN batches
      /\ \A k \in DOMAIN r.drafts : k \in Nat
  <2>1. r.i \in DOMAIN r.drafts /\ r.batch \in DOMAIN batches
    BY <1>3 DEF StageOK, ChargeStage
  <2>2. r.drafts \in Seq(Drafts)
    BY DEF RequestRows
  <2>3. QED
    BY <2>1, <2>2
<1>5. DraftsOnce(r) /\ ChargedSoFar(r)
  BY <1>3 DEF ChargeInv, Rostered
<1>6. /\ c.batch = r.batch /\ c.student = d.student
      /\ \A e \in charges : ~(e.batch = c.batch /\ e.student = c.student)
  BY <1>1, NewChargeLemma
<1>7. BatchInv'
  <2>1. batches[c.batch].model = Student[c.student].model /\ c.batch \in DOMAIN batches
    <3>1. batches[r.batch] = [model |-> r.model, period |-> r.period]
      BY <1>5 DEF ChargedSoFar
    <3>2. Student[d.student].model = r.model
      BY <1>3, <1>4, <1>5 DEF DraftsOnce
    <3>3. QED
      BY <1>4, <1>6, <3>1, <3>2
  <2>2. QED
    BY <1>2, <1>3, <1>6, <2>1 DEF ChargeInv, BatchInv
<1>8. DraftsOnce(rec)'
  BY <1>3, <1>5 DEF DraftsOnce
<1>9. rec.pc = "charge" => ChargedSoFar(rec)'
  <2>1. ASSUME rec.pc = "charge", NEW e \in charges', e.batch = r.batch
        PROVE  \E k \in DOMAIN r.drafts : k < r.i + 1 /\ e.student = r.drafts[k].student
    <3>1. CASE e = c
      BY <1>3, <1>4, <1>6, <3>1
    <3>2. CASE e \in charges
      <4>1. PICK k \in DOMAIN r.drafts : k < r.i /\ e.student = r.drafts[k].student
        BY <1>5, <2>1, <3>2 DEF ChargedSoFar
      <4>2. k < r.i + 1
        BY <1>4, <4>1
      <4>3. QED
        BY <4>1, <4>2
    <3>3. QED
      BY <1>3, <3>1, <3>2
  <2>2. rec.pc = "charge" => rec.i = r.i + 1
    BY <1>3
  <2>3. QED
    BY <1>2, <1>3, <1>5, <2>1, <2>2 DEF ChargedSoFar
<1>10. Rostered(rec)'
  BY <1>3, <1>8, <1>9 DEF Rostered
<1>11. QED
  BY <1>2, <1>3, <1>6, <1>7, <1>10, RosterMoves

LEMMA SaveStudentRoster ==
  ASSUME ChargeInv, TypeInv', NEW o \in Operators, SaveStudent(o)
  PROVE  ChargeInv'
<1>0. TypeInv /\ UNCHANGED <<batches, charges>>
  BY SavesLemma DEF ChargeInv
<1>1. ASSUME NEW r \in RequestRows, NEW d \in Drafts, Refused(o, r, d)
      PROVE  ChargeInv'
  BY <1>0, <1>1, IdleLemma, RosterAway DEF Refused
<1>2. ASSUME NEW r \in RequestRows, NEW rec \in RequestRows, NEW d \in Drafts, Saves(o, r, rec, d)
      PROVE  ChargeInv'
  <2>1. /\ r = request[o] /\ r.pc = "student" /\ Moves(o, rec) /\ rec.drafts = r.drafts /\ rec.model = r.model
        /\ rec.pc \in {"student", "balance", "payer"}
    BY <1>2 DEF Saves, Charger, SameRequest, GoesOn
  <2>2. DraftsOnce(r)
    BY <2>1 DEF ChargeInv, Rostered
  <2>3. Rostered(rec)' /\ rec.pc # "charge"
    BY <2>1, <2>2 DEF Rostered, DraftsOnce
  <2>4. QED
    BY <1>0, <2>1, <2>3, RosterStill
<1>3. QED
  BY <1>0, <1>1, <1>2, SavesLemma

LEMMA OthersRoster ==
  ASSUME ChargeInv, TypeInv', NEW o \in Operators, SavePayer(o) \/ ReadBalances(o) \/ PostCharge(o)
  PROVE  ChargeInv'
<1>0. TypeInv
  BY DEF ChargeInv
<1>1. CASE SavePayer(o)
  <2>1. UNCHANGED <<batches, charges>>
    BY <1>0, <1>1, SavesCardLemma
  <2>2. \E rec : Moves(o, rec) /\ rec.pc \in {"idle", "payer", "balance"}
    <3>1. ASSUME NEW r \in RequestRows, NEW f \in Payers, RefusedCard(o, r, f)
          PROVE  Moves(o, Idle) /\ Idle.pc = "idle"
      BY <3>1, IdleLemma DEF RefusedCard
    <3>2. ASSUME NEW r \in RequestRows, NEW rec \in RequestRows, NEW f \in Payers, SavesCard(o, r, rec, f)
          PROVE  Moves(o, rec) /\ rec.pc \in {"payer", "balance"}
      BY <3>2 DEF SavesCard, Charger
    <3>3. QED
      BY <1>0, <1>1, <3>1, <3>2, SavesCardLemma
  <2>3. QED
    BY <2>1, <2>2, RosterAway
<1>2. CASE ReadBalances(o)
  <2>1. UNCHANGED <<batches, charges>>
    BY <1>0, <1>2, ReadsBalancesLemma DEF charging
  <2>2. \E rec : Moves(o, rec) /\ rec.pc = "entry"
    BY <1>0, <1>2, ReadsBalancesLemma DEF ReadsBalances, Charger
  <2>3. QED
    BY <2>1, <2>2, RosterAway
<1>3. CASE PostCharge(o)
  <2>1. UNCHANGED <<batches, charges>>
    BY <1>0, <1>3, PostsLemma DEF charging
  <2>2. PICK r \in RequestRows, rec \in RequestRows, f \in Payers, total \in Nat, after \in Int :
          Posts(o, r, rec, f, total, after)
    BY <1>0, <1>3, PostsLemma
  <2>3. Moves(o, rec) /\ rec.pc \in {"idle", "entry"}
    BY <2>2, IdleLemma DEF Posts, Charger
  <2>4. QED
    BY <2>1, <2>3, RosterAway
<1>4. QED
  BY <1>1, <1>2, <1>3

LEMMA NextRoster ==
  ASSUME ChargeInv, [Next]_vars
  PROVE  ChargeInv'
<1>1. TypeInv /\ TypeInv'
  BY NextTyped DEF ChargeInv
<1>2. ASSUME request' = request, batches' = batches, charges' = charges
      PROVE  ChargeInv'
  BY <1>1, <1>2 DEF ChargeInv, BatchInv, Owners, Rostered, DraftsOnce, StillToDraft, ChargedSoFar
<1>3. CASE UNCHANGED vars
  BY <1>2, <1>3 DEF vars
<1>4. ASSUME NEW o \in Operators, Registration(o)
      PROVE  ChargeInv'
  BY <1>2, <1>4, RegistrationMoves DEF charging
<1>5. ASSUME NEW o \in Operators, Charging(o)
      PROVE  ChargeInv'
  BY <1>1, <1>5, GenerateRoster, ReadCardRoster, DraftChargeRoster, CreateBatchRoster, CreateChargeRoster,
     SaveStudentRoster, OthersRoster DEF Charging
<1>6. ASSUME NEW o \in Operators, Paying(o) \/ Die(o)
      PROVE  ChargeInv'
  <2>1. UNCHANGED <<batches, charges>>
    BY <1>1, <1>6, PayingMoves, DieMoves DEF charging
  <2>2. \E rec : Moves(o, rec) /\ rec.pc \notin {"draft", "batch", "charge", "student"}
    BY <1>1, <1>6, PayingMoves, DieMoves DEF PayStages
  <2>3. QED
    BY <1>1, <2>1, <2>2, RosterAway
<1>7. ASSUME NEW o \in Operators, Stepping(o)
      PROVE  ChargeInv'
  <2>1. UNCHANGED <<batches, charges>>
    BY <1>1, <1>7, SteppingMoves DEF charging
  <2>2. PICK rec : Moves(o, rec) /\ (rec.pc \in {"idle", "step"} \/ rec = request[o])
    BY <1>1, <1>7, SteppingMoves
  <2>3. CASE rec.pc \in {"idle", "step"}
    BY <1>1, <2>1, <2>2, <2>3, RosterAway
  <2>4. CASE rec = request[o]
    <3>1. request' = request
      BY <1>1, <2>2, <2>4 DEF Moves, TypeInv, RequestInv
    <3>2. QED
      BY <1>2, <2>1, <3>1
  <2>5. QED
    BY <2>2, <2>3, <2>4
<1>8. QED
  BY <1>3, <1>4, <1>5, <1>6, <1>7 DEF Next

LEMMA InitRoster ==
  ASSUME Init
  PROVE  ChargeInv
<1>1. TypeInv
  BY InitTyped
<1>2. BatchInv
  BY DEF Init, BatchInv
<1>3. \A o \in Operators : request[o].pc = "idle"
  BY IdleLemma DEF Init
<1>4. QED
  BY <1>1, <1>2, <1>3 DEF ChargeInv, Owners, Rostered

\* No student is charged twice for a period, however requests overlap or end: the batch of a
\* model and a period exists once, and its charges are written once.
THEOREM StudentsAreChargedOnce == Spec => []ChargedOnce
<1>1. ChargeInv => ChargedOnce
  <2> SUFFICES ASSUME ChargeInv, NEW c \in charges, NEW d \in charges, c.student = d.student,
                      batches[c.batch].period = batches[d.batch].period
               PROVE  c = d
    BY DEF ChargedOnce
  <2>1. /\ c.batch \in DOMAIN batches /\ d.batch \in DOMAIN batches
        /\ batches[c.batch].model = batches[d.batch].model
    BY DEF ChargeInv, BatchInv
  <2>2. batches[c.batch] = batches[d.batch]
    <3>1. batches[c.batch] \in BatchRows /\ batches[d.batch] \in BatchRows
      BY <2>1 DEF ChargeInv, TypeInv, TablesInv
    <3>2. QED
      BY <2>1, <3>1 DEF BatchRows
  <2>3. c.batch = d.batch
    BY <2>1, <2>2 DEF ChargeInv, BatchInv
  <2>4. QED
    BY <2>3 DEF ChargeInv, BatchInv
<1>2. Init => ChargeInv
  BY InitRoster
<1>3. ChargeInv /\ [Next]_vars => ChargeInv'
  BY NextRoster
<1>4. QED
  BY <1>1, <1>2, <1>3, PTL DEF Spec

-----------------------------------------------------------------------------
(* What each transaction of a payment does, with the request before (r) and  *)
(* after it (rec)                                                            *)

\* The rows of the statement of an import.
RowsOf(n) == Statements[imports[n].statement]

\* A request that goes on with the next row of its statement.
TakesNext(r, rec) == rec.pc = "row" /\ rec.import = r.import /\ rec.i = r.i + 1 /\ rec.row = NoState

\* A request whose match goes on.
SameMatch(r, rec) ==
  /\ rec.row = r.row /\ rec.payer = r.payer /\ rec.amount = r.amount /\ rec.after = r.after
  /\ rec.status = r.status /\ rec.import = r.import /\ rec.i = r.i

LEMMA TakesNextLemma ==
  ASSUME TypeInv, TypeInv', NEW o \in Operators, NEW r \in RequestRows, r = request[o], StageOK(r),
         Importing(r), Goto(o, NextRow(o))
  PROVE  \E rec \in RequestRows : Charger(o, r, rec) /\ TakesNext(r, rec)
<1>1. PICK rec \in RequestRows : rec = NextRow(o) /\ TakesNext(r, rec)
  BY NextRowLemma DEF TakesNext
<1>2. Moves(o, rec)
  BY <1>1, GotoMoves
<1>3. QED
  BY <1>1, <1>2 DEF Charger

Imports(o, rec, n, k) ==
  /\ Moves(o, rec) /\ rec.pc \in {"refuse", "row"} /\ rec.import = n /\ rec.i = 1
  /\ n = Len(imports) + 1 /\ imports' = Append(imports, NewImport(k))

LEMMA ImportsLemma ==
  ASSUME TypeInv, TypeInv', NEW o \in Operators, NEW k \in DOMAIN Statements, ImportStatement(o, k)
  PROVE  /\ \E rec \in RequestRows, n \in Nat : Imports(o, rec, n, k)
         /\ UNCHANGED <<register, charging, transaction, matched, ledger>> /\ Begin(o)
<1>1. PICK n \in Nat : n = Len(imports) + 1
  BY DEF TypeInv, TablesInv
<1>2. PICK pc : pc = (IF k \in Unreadable THEN "refuse" ELSE "row") /\ pc \in {"refuse", "row"}
  OBVIOUS
<1>3. PICK idle \in RequestRows : idle = Idle
  BY IdleLemma
<1>4. PICK rec : rec = [idle EXCEPT !.pc = pc, !.import = n, !.i = 1]
  OBVIOUS
<1>5. Goto(o, rec)
  BY <1>1, <1>2, <1>3, <1>4 DEF ImportStatement
<1>6. Moves(o, rec)
  BY <1>5, GotoMoves
<1>7. rec \in RequestRows
  BY <1>6 DEF Moves, TypeInv, RequestInv
<1>8. rec.pc = pc /\ rec.import = n /\ rec.i = 1
  BY <1>4 DEF RequestRows
<1>9. Imports(o, rec, n, k)
  BY <1>1, <1>2, <1>6, <1>8 DEF Imports, ImportStatement
<1>10. QED
  BY <1>7, <1>9 DEF ImportStatement

\* An import ends as imported only after its last row.
EndsImport(o, r, n, status) ==
  /\ r = request[o] /\ StageOK(r) /\ r.pc \in {"refuse", "row"} /\ n = r.import /\ Moves(o, Idle)
  /\ imports' = [imports EXCEPT ![n].status = status]
  /\ status = "zaimportowany" => r.pc = "row" /\ \A i \in DOMAIN RowsOf(n) : i < r.i

LEMMA EndsImportLemma ==
  ASSUME TypeInv, TypeInv', NEW o \in Operators, FinishImport(o) \/ RefuseImport(o)
  PROVE  /\ \E r \in RequestRows, status \in {"zaimportowany", "blad"}, n \in DOMAIN imports :
              EndsImport(o, r, n, status)
         /\ UNCHANGED <<register, charging, transaction, matched, ledger>> /\ Continue
<1>1. PICK r \in RequestRows : r = request[o] /\ StageOK(r) /\ r.pc \in {"refuse", "row"}
  BY DEF TypeInv, RequestInv, FinishImport, RefuseImport
<1>2. PICK n \in DOMAIN imports : n = r.import
  BY <1>1 DEF StageOK, ImportStage, Importing
<1>3. ASSUME NEW status, EndImport(o, status)
      PROVE  /\ Moves(o, Idle) /\ imports' = [imports EXCEPT ![n].status = status]
             /\ UNCHANGED <<register, charging, transaction, matched, ledger>> /\ Continue
  BY <1>1, <1>2, <1>3, IdleMoves DEF EndImport
<1>4. CASE RefuseImport(o)
  BY <1>1, <1>2, <1>3, <1>4 DEF RefuseImport, EndsImport
<1>5. CASE FinishImport(o)
  <2>1. PICK file \in Seq(Rows) : file = RowsOf(n)
    BY StatementLemma DEF RowsOf
  <2>2. r.pc = "row" /\ ~(r.i <= Len(file)) /\ r.i \in Nat
    BY <1>1, <1>2, <1>5, <2>1 DEF FinishImport, MoreRows, StatementOf, RowsOf, RequestRows
  <2>3. \A i \in DOMAIN file : i < r.i
    BY <2>2
  <2>4. EndsImport(o, r, n, "zaimportowany")
    BY <1>1, <1>2, <1>3, <1>5, <2>1, <2>2, <2>3 DEF FinishImport, EndsImport
  <2>5. QED
    BY <1>3, <1>5, <2>4 DEF FinishImport
<1>6. QED
  BY <1>4, <1>5

Looks(o, r, rec, row) ==
  /\ Charger(o, r, rec) /\ r.pc = "row" /\ Importing(r)
  /\ r.i \in DOMAIN RowsOf(r.import) /\ row = RowsOf(r.import)[r.i]
  /\ IF transaction[row].stored THEN TakesNext(r, rec)
     ELSE rec.pc = "store" /\ rec.row = row /\ rec.import = r.import /\ rec.i = r.i

LEMMA LooksLemma ==
  ASSUME TypeInv, TypeInv', NEW o \in Operators, LookUpRow(o)
  PROVE  /\ \E r \in RequestRows, rec \in RequestRows, row \in Rows : Looks(o, r, rec, row)
         /\ UNCHANGED <<register, charging, paying, ledger>> /\ Continue
<1>1. PICK r \in RequestRows : r = request[o] /\ r.pc = "row" /\ StageOK(r)
  BY DEF LookUpRow, TypeInv, RequestInv
<1>2. Importing(r) /\ r.i \in Nat
  BY <1>1 DEF StageOK, ImportStage, Importing
<1>3. PICK file \in Seq(Rows) : file = RowsOf(r.import)
  BY <1>2, StatementLemma DEF Importing, RowsOf
<1>4. r.i \in DOMAIN file
  BY <1>1, <1>2, <1>3 DEF LookUpRow, MoreRows, StatementOf, RowsOf, Importing
<1>5. PICK row \in Rows : row = file[r.i]
  BY <1>4
<1>6. CASE Known(row)
  <2>1. Goto(o, NextRow(o))
    BY <1>1, <1>3, <1>5, <1>6 DEF LookUpRow, StatementOf, RowsOf
  <2>2. PICK rec \in RequestRows : Charger(o, r, rec) /\ TakesNext(r, rec)
    BY <1>1, <1>2, <2>1, TakesNextLemma
  <2>3. Looks(o, r, rec, row)
    BY <1>1, <1>2, <1>3, <1>4, <1>5, <1>6, <2>2 DEF Looks, Known
  <2>4. QED
    BY <2>3 DEF LookUpRow
<1>7. CASE ~Known(row)
  <2>1. PICK rec : rec = [r EXCEPT !.pc = "store", !.row = row]
    OBVIOUS
  <2>2. Goto(o, rec)
    BY <1>1, <1>3, <1>5, <1>7, <2>1 DEF LookUpRow, StatementOf, RowsOf
  <2>3. Moves(o, rec)
    BY <2>2, GotoMoves
  <2>4. rec \in RequestRows
    BY <2>3 DEF Moves, TypeInv, RequestInv
  <2>5. rec.pc = "store" /\ rec.row = row /\ rec.import = r.import /\ rec.i = r.i
    BY <2>1 DEF RequestRows
  <2>6. Looks(o, r, rec, row)
    BY <1>1, <1>2, <1>3, <1>4, <1>5, <1>7, <2>3, <2>5 DEF Looks, Known, Charger
  <2>7. QED
    BY <2>4, <2>6 DEF LookUpRow
<1>8. QED
  BY <1>6, <1>7

\* The row an import is at.
AtRow(r) == /\ Importing(r) /\ r.i \in DOMAIN RowsOf(r.import) /\ r.row = RowsOf(r.import)[r.i] /\ r.row \in Rows

LEMMA AtRowLemma ==
  ASSUME TypeInv, NEW r \in RequestRows, StageOK(r), r.pc \in {"store", "auto"}
  PROVE  AtRow(r)
<1>1. Importing(r) /\ r.i \in DOMAIN RowsOf(r.import) /\ r.row = RowsOf(r.import)[r.i]
  BY DEF StageOK, ImportStage, RowsOf
<1>2. RowsOf(r.import) \in Seq(Rows)
  BY <1>1, StatementLemma DEF Importing, RowsOf
<1>3. QED
  BY <1>1, <1>2 DEF AtRow

\* A row another import has stored meanwhile ends the request.
Stores(o, r, rec) ==
  /\ Charger(o, r, rec) /\ r.pc = "store" /\ AtRow(r) /\ ~transaction[r.row].stored
  /\ transaction' = [transaction EXCEPT ![r.row].stored = TRUE]
  /\ TakesNext(r, rec) \/ (rec.pc = "auto" /\ rec.row = r.row /\ rec.import = r.import /\ rec.i = r.i)

LEMMA StoresLemma ==
  ASSUME TypeInv, TypeInv', NEW o \in Operators, StoreRow(o)
  PROVE  /\ \/ /\ Moves(o, Idle) /\ UNCHANGED transaction
               /\ request[o].pc = "store" /\ transaction[request[o].row].stored
            \/ \E r \in RequestRows, rec \in RequestRows : Stores(o, r, rec)
         /\ UNCHANGED <<register, charging, imports, matched, ledger>> /\ Continue
<1>1. PICK r \in RequestRows : r = request[o] /\ r.pc = "store" /\ StageOK(r)
  BY DEF StoreRow, TypeInv, RequestInv
<1>2. AtRow(r) /\ Importing(r)
  BY <1>1, AtRowLemma DEF AtRow
<1>3. CASE transaction[r.row].stored
  BY <1>1, <1>3, IdleMoves DEF StoreRow
<1>4. CASE ~transaction[r.row].stored
  <2>1. /\ transaction' = [transaction EXCEPT ![r.row].stored = TRUE]
        /\ Goto(o, IF Row[r.row].payer # NoPayer THEN [r EXCEPT !.pc = "auto"] ELSE NextRow(o))
    BY <1>1, <1>4 DEF StoreRow
  <2>2. CASE Row[r.row].payer # NoPayer
    <3>1. PICK rec : rec = [r EXCEPT !.pc = "auto"]
      OBVIOUS
    <3>2. Moves(o, rec)
      BY <2>1, <2>2, <3>1, GotoMoves
    <3>3. rec \in RequestRows
      BY <3>2 DEF Moves, TypeInv, RequestInv
    <3>4. rec.pc = "auto" /\ rec.row = r.row /\ rec.import = r.import /\ rec.i = r.i
      BY <3>1 DEF RequestRows
    <3>5. Stores(o, r, rec)
      BY <1>1, <1>2, <1>4, <2>1, <3>2, <3>4 DEF Stores, Charger
    <3>6. QED
      BY <3>3, <3>5 DEF StoreRow
  <2>3. CASE ~(Row[r.row].payer # NoPayer)
    <3>1. PICK rec \in RequestRows : Charger(o, r, rec) /\ TakesNext(r, rec)
      BY <1>1, <1>2, <2>1, <2>3, TakesNextLemma
    <3>2. Stores(o, r, rec)
      BY <1>1, <1>2, <1>4, <2>1, <3>1 DEF Stores
    <3>3. QED
      BY <3>2 DEF StoreRow
  <2>4. QED
    BY <2>2, <2>3
<1>5. QED
  BY <1>3, <1>4

StartsMatch(o, r, rec, row, f, amount) == Charger(o, r, rec) /\ Matches(rec, r, row, f, amount)

LEMMA StartsMatchLemma ==
  ASSUME TypeInv, TypeInv', NEW o \in Operators, NEW r \in RequestRows, r = request[o], StageOK(r),
         NEW row \in Rows, NEW f \in Payers, NEW amount \in Nat \ {0}, r.import = 0 \/ Importing(r),
         Goto(o, Matching(o, row, f, amount))
  PROVE  \E rec \in RequestRows : StartsMatch(o, r, rec, row, f, amount)
<1>1. PICK rec \in RequestRows : rec = Matching(o, row, f, amount) /\ Matches(rec, r, row, f, amount)
  BY MatchingLemma
<1>2. Moves(o, rec)
  BY <1>1, GotoMoves
<1>3. QED
  BY <1>1, <1>2 DEF StartsMatch, Charger

LEMMA AutoMatchesLemma ==
  ASSUME TypeInv, TypeInv', NEW o \in Operators, AutoMatch(o)
  PROVE  /\ \E r \in RequestRows, rec \in RequestRows :
              /\ Charger(o, r, rec) /\ r.pc = "auto" /\ AtRow(r)
              /\ \/ TakesNext(r, rec)
                 \/ \E f \in Payers, amount \in Nat \ {0} : Matches(rec, r, r.row, f, amount)
         /\ UNCHANGED <<register, charging, paying, ledger>> /\ Continue
<1>1. PICK r \in RequestRows : r = request[o] /\ r.pc = "auto" /\ StageOK(r)
  BY DEF AutoMatch, TypeInv, RequestInv
<1>2. AtRow(r) /\ Importing(r) /\ Row[r.row].payer # NoPayer /\ r.row \in Rows
  BY <1>1, AtRowLemma DEF AtRow, StageOK, ImportStage
<1>3. PICK f \in Payers : f = Row[r.row].payer
  BY <1>2, BillingAssumption
<1>4. PICK amount \in Nat \ {0} : amount = Absolute(Row[r.row].amount)
  BY <1>2, MatchedLemma DEF TypeInv
<1>5. Goto(o, IF f \in rows THEN Matching(o, r.row, f, amount) ELSE NextRow(o))
  BY <1>1, <1>3, <1>4 DEF AutoMatch
<1>6. \E rec \in RequestRows : Charger(o, r, rec) /\ (TakesNext(r, rec) \/ Matches(rec, r, r.row, f, amount))
  <2>1. CASE f \in rows
    <3>1. PICK rec \in RequestRows : StartsMatch(o, r, rec, r.row, f, amount)
      BY <1>1, <1>2, <1>5, <2>1, StartsMatchLemma
    <3>2. QED
      BY <3>1 DEF StartsMatch
  <2>2. CASE f \notin rows
    BY <1>1, <1>2, <1>5, <2>2, TakesNextLemma
  <2>3. QED
    BY <2>1, <2>2
<1>7. QED
  BY <1>1, <1>2, <1>6 DEF AutoMatch

LEMMA HandMatchesLemma ==
  ASSUME TypeInv, TypeInv', NEW o \in Operators, NEW row \in Rows, NEW f \in Payers, NEW amount \in Amounts,
         MatchByHand(o, row, f, amount)
  PROVE  /\ amount \in Nat \ {0}
         /\ \E r \in RequestRows, rec \in RequestRows :
              StartsMatch(o, r, rec, row, f, amount) /\ r.pc = "idle" /\ r.import = 0
         /\ UNCHANGED <<register, charging, paying, ledger>> /\ Begin(o)
<1>1. PICK r \in RequestRows : r = request[o] /\ r.pc = "idle" /\ StageOK(r) /\ r.import = 0
  BY DEF TypeInv, RequestInv, MatchByHand, Begin, StageOK, ImportStage
<1>2. amount \in Nat \ {0}
  BY BillingAssumption
<1>3. PICK rec \in RequestRows : StartsMatch(o, r, rec, row, f, amount)
  BY <1>1, <1>2, StartsMatchLemma DEF MatchByHand
<1>4. QED
  BY <1>1, <1>2, <1>3 DEF MatchByHand

Matcher(o, r) ==
  /\ r = request[o] /\ StageOK(r) /\ r.row \in Rows /\ r.payer \in Payers
  /\ r.amount \in Nat \ {0} /\ r.status \in {"rozliczona", "czesciowo_rozliczona"}
  /\ DOMAIN r.after = {r.payer} /\ r.after[r.payer] \in Int /\ (r.import = 0 \/ Importing(r))

InsertsMatch(o, r, rec) ==
  /\ Matcher(o, r) /\ Charger(o, r, rec) /\ SameMatch(r, rec) /\ r.pc = "insert" /\ rec.pc = "status"
  /\ matched' = [matched EXCEPT ![r.row][r.payer] = @ + r.amount]

LEMMA InsertsMatchLemma ==
  ASSUME TypeInv, TypeInv', NEW o \in Operators, InsertMatch(o)
  PROVE  /\ \E r \in RequestRows, rec \in RequestRows : InsertsMatch(o, r, rec)
         /\ UNCHANGED <<register, charging, imports, transaction, ledger>> /\ Continue
<1>1. PICK r \in RequestRows : Matcher(o, r) /\ r.pc = "insert"
  BY MatchStageLemma DEF InsertMatch, Matcher
<1>2. PICK rec : rec = [r EXCEPT !.pc = "status"]
  OBVIOUS
<1>3. /\ matched' = [matched EXCEPT ![r.row][r.payer] = @ + r.amount] /\ Goto(o, rec)
  BY <1>1, <1>2 DEF InsertMatch, Matcher
<1>4. Moves(o, rec)
  BY <1>3, GotoMoves
<1>5. rec \in RequestRows
  BY <1>4 DEF Moves, TypeInv, RequestInv
<1>6. rec.pc = "status" /\ SameMatch(r, rec)
  BY <1>2 DEF RequestRows, SameMatch
<1>7. InsertsMatch(o, r, rec)
  BY <1>1, <1>3, <1>4, <1>6 DEF InsertsMatch, Charger, Matcher
<1>8. QED
  BY <1>5, <1>7 DEF InsertMatch

Updates(o, r, rec) ==
  /\ Matcher(o, r) /\ Charger(o, r, rec) /\ SameMatch(r, rec) /\ r.pc = "status" /\ rec.pc = "entry"
  /\ transaction' = [transaction EXCEPT ![r.row].status = r.status]

LEMMA UpdatesLemma ==
  ASSUME TypeInv, TypeInv', NEW o \in Operators, UpdateTransaction(o)
  PROVE  /\ \E r \in RequestRows, rec \in RequestRows : Updates(o, r, rec)
         /\ UNCHANGED <<register, charging, imports, matched, ledger>> /\ Continue
<1>1. PICK r \in RequestRows : Matcher(o, r) /\ r.pc = "status"
  BY MatchStageLemma DEF UpdateTransaction, Matcher
<1>2. PICK rec : rec = [r EXCEPT !.pc = "entry"]
  OBVIOUS
<1>3. /\ transaction' = [transaction EXCEPT ![r.row].status = r.status] /\ Goto(o, rec)
  BY <1>1, <1>2 DEF UpdateTransaction, Matcher
<1>4. Moves(o, rec)
  BY <1>3, GotoMoves
<1>5. rec \in RequestRows
  BY <1>4 DEF Moves, TypeInv, RequestInv
<1>6. rec.pc = "entry" /\ SameMatch(r, rec)
  BY <1>2 DEF RequestRows, SameMatch
<1>7. Updates(o, r, rec)
  BY <1>1, <1>3, <1>4, <1>6 DEF Updates, Charger, Matcher
<1>8. QED
  BY <1>5, <1>7 DEF UpdateTransaction

PostsMatch(o, r, rec) ==
  /\ Matcher(o, r) /\ Charger(o, r, rec) /\ r.pc = "entry" /\ r.row # NoState
  /\ ledger' = [ledger EXCEPT ![r.payer] = Entry(r.payer, -r.amount, r.after[r.payer])]
  /\ IF r.import = 0 THEN rec = Idle ELSE TakesNext(r, rec)

LEMMA PostsMatchLemma ==
  ASSUME TypeInv, TypeInv', NEW o \in Operators, PostMatch(o)
  PROVE  /\ \E r \in RequestRows, rec \in RequestRows : PostsMatch(o, r, rec)
         /\ UNCHANGED <<register, charging, paying>> /\ Continue
<1>1. PICK r \in RequestRows : Matcher(o, r) /\ r.pc = "entry" /\ r.row # NoState
  BY MatchStageLemma DEF PostMatch, Matcher
<1>2. ledger' = [ledger EXCEPT ![r.payer] = Entry(r.payer, -r.amount, r.after[r.payer])]
  BY <1>1 DEF PostMatch, Matcher
<1>3. \E rec \in RequestRows : Charger(o, r, rec) /\ IF r.import = 0 THEN rec = Idle ELSE TakesNext(r, rec)
  <2>1. CASE r.import = 0
    <3>1. Moves(o, Idle) /\ Idle \in RequestRows
      BY <1>1, <2>1, IdleMoves, IdleLemma DEF PostMatch, Matcher
    <3>2. QED
      BY <1>1, <2>1, <3>1 DEF Charger, Matcher
  <2>2. CASE r.import # 0
    <3>1. Goto(o, NextRow(o)) /\ Importing(r) /\ r = request[o] /\ StageOK(r)
      BY <1>1, <2>2 DEF PostMatch, Matcher
    <3>2. QED
      BY <2>2, <3>1, TakesNextLemma
  <2>3. QED
    BY <2>1, <2>2
<1>4. QED
  BY <1>1, <1>2, <1>3 DEF PostsMatch, PostMatch

-----------------------------------------------------------------------------
(* A finished import has stored every row of its statement                   *)

MatchPosts(r) == r.pc = "entry" /\ r.row # NoState

\* A request that imports a statement or matches a payment.
OnPayment(r) == r.pc \in {"refuse", "row", "store", "auto", "insert", "status"} \/ MatchPosts(r)

\* A request that imports a statement has stored the rows up to the one it is at.
Stored(r) == (OnPayment(r) /\ r.pc # "refuse" /\ r.import # 0) =>
  \A i \in DOMAIN RowsOf(r.import) : (i < r.i \/ (i = r.i /\ r.pc \notin {"row", "store"})) =>
    transaction[RowsOf(r.import)[i]].stored

Imported == \A n \in DOMAIN imports : imports[n].status = "zaimportowany" =>
  \A i \in DOMAIN RowsOf(n) : transaction[RowsOf(n)[i]].stored

StoredInv == TypeInv /\ Imported /\ \A o \in Operators : Stored(request[o])

\* Statements stay what they are, and a row that is stored stays so.
StoreGrows ==
  /\ DOMAIN imports \subseteq DOMAIN imports'
  /\ \A n \in DOMAIN imports : imports'[n].statement = imports[n].statement
  /\ \A row \in Rows : transaction[row].stored => transaction'[row].stored

LEMMA RowsLemma ==
  ASSUME TypeInv, NEW n \in DOMAIN imports
  PROVE  /\ RowsOf(n) \in Seq(Rows) /\ \A i \in DOMAIN RowsOf(n) : i \in Nat /\ RowsOf(n)[i] \in Rows
         /\ StoreGrows => RowsOf(n)' = RowsOf(n)
<1>1. RowsOf(n) \in Seq(Rows)
  BY StatementLemma DEF RowsOf
<1>2. \A i \in DOMAIN RowsOf(n) : i \in Nat /\ RowsOf(n)[i] \in Rows
  BY <1>1
<1>3. StoreGrows => RowsOf(n)' = RowsOf(n)
  BY DEF StoreGrows, RowsOf
<1>4. QED
  BY <1>1, <1>2, <1>3

\* The requests that do not move have stored what they had.
LEMMA StoredKept ==
  ASSUME TypeInv, StoreGrows, NEW r \in RequestRows, StageOK(r), Stored(r)
  PROVE  Stored(r)'
<1> SUFFICES ASSUME OnPayment(r), r.pc # "refuse", r.import # 0, NEW i \in DOMAIN RowsOf(r.import)',
                    i < r.i \/ (i = r.i /\ r.pc \notin {"row", "store"})
             PROVE  transaction'[RowsOf(r.import)'[i]].stored
  BY DEF Stored, OnPayment, MatchPosts
<1>1. Importing(r)
  BY DEF OnPayment, MatchPosts, StageOK, ImportStage, MatchStage
<1>2. RowsOf(r.import)' = RowsOf(r.import) /\ \A j \in DOMAIN RowsOf(r.import) : RowsOf(r.import)[j] \in Rows
  BY <1>1, RowsLemma DEF Importing
<1>3. transaction[RowsOf(r.import)[i]].stored
  BY <1>2 DEF Stored
<1>4. QED
  BY <1>2, <1>3 DEF StoreGrows

\* An import is finished only when it was, or with every row stored.
LEMMA StoredMoves ==
  ASSUME StoredInv, TypeInv', StoreGrows, NEW o \in Operators, NEW rec, Moves(o, rec), Stored(rec)',
         \A n \in DOMAIN imports' : imports'[n].status = "zaimportowany" =>
           n \in DOMAIN imports /\ \A i \in DOMAIN RowsOf(n) : transaction[RowsOf(n)[i]].stored
  PROVE  StoredInv'
<1>1. Imported'
  <2> SUFFICES ASSUME NEW n \in DOMAIN imports', imports'[n].status = "zaimportowany",
                      NEW i \in DOMAIN RowsOf(n)'
               PROVE  transaction'[RowsOf(n)'[i]].stored
    BY DEF Imported
  <2>1. n \in DOMAIN imports /\ \A j \in DOMAIN RowsOf(n) : transaction[RowsOf(n)[j]].stored
    OBVIOUS
  <2>2. RowsOf(n)' = RowsOf(n) /\ \A j \in DOMAIN RowsOf(n) : RowsOf(n)[j] \in Rows
    BY <2>1, RowsLemma DEF StoredInv
  <2>3. QED
    BY <2>1, <2>2 DEF StoreGrows
<1>2. ASSUME NEW p \in Operators
      PROVE  Stored(request[p])'
  <2>1. CASE p = o
    <3>1. PICK x : x = rec
      OBVIOUS
    <3>2. Stored(x)' /\ request'[p] = x
      BY <2>1, <3>1 DEF Moves
    <3>3. QED
      BY <3>2 DEF Stored, OnPayment, MatchPosts
  <2>2. CASE p # o
    <3>1. PICK r \in RequestRows : r = request[p] /\ StageOK(r) /\ Stored(r)
      BY DEF StoredInv, TypeInv, RequestInv
    <3>2. Stored(r)'
      BY <3>1, StoredKept DEF StoredInv
    <3>3. request'[p] = r
      BY <2>2, <3>1 DEF Moves
    <3>4. QED
      BY <3>2, <3>3 DEF Stored, OnPayment, MatchPosts
  <2>3. QED
    BY <2>1, <2>2
<1>3. QED
  BY <1>1, <1>2 DEF StoredInv

\* Imports and rows unchanged.
LEMMA StoredStill ==
  ASSUME StoredInv, TypeInv', UNCHANGED <<imports, transaction>>, NEW o \in Operators, NEW rec,
         Moves(o, rec), Stored(rec)'
  PROVE  StoredInv'
<1>1. StoreGrows
  BY DEF StoreGrows
<1>2. \A n \in DOMAIN imports' : imports'[n].status = "zaimportowany" =>
        n \in DOMAIN imports /\ \A i \in DOMAIN RowsOf(n) : transaction[RowsOf(n)[i]].stored
  BY DEF StoredInv, Imported
<1>3. QED
  BY <1>1, <1>2, StoredMoves

LEMMA IdleStored ==
  ASSUME NEW rec, ~OnPayment(rec) \/ rec.pc = "refuse" \/ rec.import = 0
  PROVE  Stored(rec)'
BY DEF Stored, OnPayment, MatchPosts

\* The next row is taken when the one before is stored.
LEMMA NextStored ==
  ASSUME TypeInv, StoreGrows, NEW r \in RequestRows, NEW rec \in RequestRows, TakesNext(r, rec), Importing(r),
         \A i \in DOMAIN RowsOf(r.import) : i <= r.i => transaction'[RowsOf(r.import)[i]].stored
  PROVE  Stored(rec)'
<1> SUFFICES ASSUME NEW i \in DOMAIN RowsOf(rec.import)', i < rec.i
             PROVE  transaction'[RowsOf(rec.import)'[i]].stored
  BY DEF Stored, TakesNext
<1>1. rec.import = r.import /\ rec.i = r.i + 1
  BY DEF TakesNext
<1>2. RowsOf(r.import)' = RowsOf(r.import) /\ \A j \in DOMAIN RowsOf(r.import) : j \in Nat
  BY RowsLemma DEF Importing
<1>3. RowsOf(rec.import)' = RowsOf(r.import)'
  BY <1>1
<1>4. i \in DOMAIN RowsOf(r.import) /\ i <= r.i
  <2>1. i \in DOMAIN RowsOf(r.import) /\ i \in Nat /\ r.i \in Nat /\ i < r.i + 1
    BY <1>1, <1>2, <1>3 DEF RequestRows
  <2>2. QED
    BY <2>1
<1>5. QED
  BY <1>2, <1>3, <1>4

LEMMA ImportsStored ==
  ASSUME StoredInv, TypeInv', NEW o \in Operators, NEW k \in DOMAIN Statements, ImportStatement(o, k)
  PROVE  StoredInv'
<1>0. TypeInv
  BY DEF StoredInv
<1>1. PICK rec \in RequestRows, n \in Nat : Imports(o, rec, n, k)
  BY <1>0, ImportsLemma
<1>2. UNCHANGED transaction
  BY <1>0, ImportsLemma
<1>3. /\ Moves(o, rec) /\ rec.pc \in {"refuse", "row"} /\ rec.import = n /\ rec.i = 1
      /\ n = Len(imports) + 1 /\ imports' = Append(imports, NewImport(k))
  BY <1>1 DEF Imports
<1>4. PICK new \in ImportRows : new = NewImport(k) /\ new.status = "przetwarzany"
  <2>1. NewImport(k) \in ImportRows
    BY DEF NewImport, ImportRows
  <2>2. NewImport(k).status = "przetwarzany"
    BY DEF NewImport
  <2>3. QED
    BY <2>1, <2>2
<1>5. DOMAIN imports' = DOMAIN imports \cup {n} /\ imports'[n].status = "przetwarzany"
      /\ \A j \in DOMAIN imports : imports'[j] = imports[j]
  <2>1. imports \in Seq(ImportRows) /\ imports' = Append(imports, new)
    BY <1>0, <1>3, <1>4 DEF TypeInv, TablesInv
  <2>2. DOMAIN imports = 1..Len(imports) /\ DOMAIN imports' = 1..n /\ imports'[n] = new
        /\ \A j \in DOMAIN imports : imports'[j] = imports[j]
    BY <1>3, <2>1, AppendLemma
  <2>3. QED
    BY <1>3, <1>4, <2>1, <2>2
<1>6. StoreGrows
  BY <1>2, <1>5 DEF StoreGrows
<1>7. Stored(rec)'
  <2> SUFFICES ASSUME NEW i \in DOMAIN RowsOf(rec.import)', i < 1
               PROVE  FALSE
    BY <1>3 DEF Stored, OnPayment, MatchPosts
  <2>1. n \in DOMAIN imports'
    BY <1>5
  <2>2. imports'[n] \in ImportRows
    BY <2>1 DEF TypeInv, TablesInv
  <2>3. RowsOf(n)' \in Seq(Rows)
    BY <2>2, BillingAssumption DEF RowsOf, ImportRows
  <2>4. i \in DOMAIN RowsOf(n)'
    BY <1>3
  <2>5. QED
    BY <2>3, <2>4
<1>8. \A j \in DOMAIN imports' : imports'[j].status = "zaimportowany" =>
        j \in DOMAIN imports /\ \A i \in DOMAIN RowsOf(j) : transaction[RowsOf(j)[i]].stored
  BY <1>5 DEF StoredInv, Imported
<1>9. QED
  BY <1>3, <1>6, <1>7, <1>8, StoredMoves

LEMMA EndsStored ==
  ASSUME StoredInv, TypeInv', NEW o \in Operators, FinishImport(o) \/ RefuseImport(o)
  PROVE  StoredInv'
<1>0. TypeInv
  BY DEF StoredInv
<1>1. PICK r \in RequestRows, status \in {"zaimportowany", "blad"}, n \in DOMAIN imports :
        EndsImport(o, r, n, status)
  BY <1>0, EndsImportLemma
<1>2. UNCHANGED transaction
  BY <1>0, EndsImportLemma
<1>3. /\ r = request[o] /\ StageOK(r) /\ r.pc \in {"refuse", "row"} /\ n = r.import /\ Moves(o, Idle)
      /\ imports' = [imports EXCEPT ![n].status = status]
      /\ status = "zaimportowany" => r.pc = "row" /\ \A i \in DOMAIN RowsOf(n) : i < r.i
  BY <1>1 DEF EndsImport
<1>4. PICK new \in ImportRows : new = [imports[n] EXCEPT !.status = status]
                                /\ new.statement = imports[n].statement /\ new.status = status
  <2>1. PICK old \in ImportRows : old = imports[n]
    BY <1>0 DEF TypeInv, TablesInv
  <2>2. PICK new : new = [old EXCEPT !.status = status]
    OBVIOUS
  <2>3. new \in ImportRows /\ new.statement = old.statement /\ new.status = status
    BY <2>2 DEF ImportRows
  <2>4. QED
    BY <2>1, <2>2, <2>3
<1>5. imports' = [imports EXCEPT ![n] = new]
  BY <1>3, <1>4
<1>6. DOMAIN imports' = DOMAIN imports /\ imports'[n] = new /\ \A j \in DOMAIN imports \ {n} : imports'[j] = imports[j]
  BY <1>5
<1>7. StoreGrows
  BY <1>2, <1>4, <1>6 DEF StoreGrows
<1>8. status = "zaimportowany" => \A i \in DOMAIN RowsOf(n) : transaction[RowsOf(n)[i]].stored
  <2>1. Stored(r)
    BY <1>3 DEF StoredInv
  <2>2. r.import # 0
    BY <1>0, <1>3, <1>4 DEF TypeInv, TablesInv
  <2>3. QED
    BY <1>3, <2>1, <2>2 DEF Stored, OnPayment
<1>9. \A j \in DOMAIN imports' : imports'[j].status = "zaimportowany" =>
        j \in DOMAIN imports /\ \A i \in DOMAIN RowsOf(j) : transaction[RowsOf(j)[i]].stored
  BY <1>4, <1>6, <1>8 DEF StoredInv, Imported
<1>10. Stored(Idle)'
  BY IdleLemma, IdleStored
<1>11. QED
  BY <1>3, <1>7, <1>9, <1>10, StoredMoves

LEMMA LooksStored ==
  ASSUME StoredInv, TypeInv', NEW o \in Operators, LookUpRow(o)
  PROVE  StoredInv'
<1>0. TypeInv
  BY DEF StoredInv
<1>1. PICK r \in RequestRows, rec \in RequestRows, row \in Rows : Looks(o, r, rec, row)
  BY <1>0, LooksLemma
<1>2. UNCHANGED <<imports, transaction>>
  BY <1>0, LooksLemma DEF paying
<1>3. /\ r = request[o] /\ Moves(o, rec) /\ r.pc = "row" /\ Importing(r)
      /\ r.i \in DOMAIN RowsOf(r.import) /\ row = RowsOf(r.import)[r.i]
  BY <1>1 DEF Looks, Charger
<1>4. PICK n \in DOMAIN imports : n = r.import /\ n # 0
  BY <1>0, <1>3 DEF Importing, TypeInv, TablesInv
<1>5. \A i \in DOMAIN RowsOf(n) : i < r.i => transaction[RowsOf(n)[i]].stored
  BY <1>3, <1>4 DEF StoredInv, Stored, OnPayment
<1>6. StoreGrows
  BY <1>2 DEF StoreGrows
<1>7. CASE transaction[row].stored
  <2>1. TakesNext(r, rec)
    BY <1>1, <1>7 DEF Looks
  <2>2. ASSUME NEW i \in DOMAIN RowsOf(n), i <= r.i
        PROVE  transaction'[RowsOf(n)[i]].stored
    <3>1. i \in Nat /\ r.i \in Nat
      BY <1>0, RowsLemma DEF RequestRows
    <3>2. i < r.i \/ i = r.i
      BY <2>2, <3>1
    <3>3. QED
      BY <1>2, <1>3, <1>4, <1>5, <1>7, <3>2
  <2>3. Stored(rec)'
    BY <1>0, <1>3, <1>4, <1>6, <2>1, <2>2, NextStored
  <2>4. QED
    BY <1>2, <1>3, <2>3, StoredStill
<1>8. CASE ~transaction[row].stored
  <2>1. rec.pc = "store" /\ rec.import = n /\ rec.i = r.i
    BY <1>1, <1>4, <1>8 DEF Looks
  <2>2. RowsOf(n)' = RowsOf(n)
    BY <1>0, <1>6, RowsLemma
  <2>3. RowsOf(rec.import)' = RowsOf(n)'
    BY <2>1
  <2>4. Stored(rec)'
    BY <1>2, <1>5, <2>1, <2>2, <2>3 DEF Stored
  <2>5. QED
    BY <1>2, <1>3, <2>4, StoredStill
<1>9. QED
  BY <1>7, <1>8

LEMMA StoresStored ==
  ASSUME StoredInv, TypeInv', NEW o \in Operators, StoreRow(o)
  PROVE  StoredInv'
<1>0. TypeInv
  BY DEF StoredInv
<1>1. UNCHANGED imports
  BY <1>0, StoresLemma
<1>2. CASE Moves(o, Idle) /\ UNCHANGED transaction
  <2>1. Stored(Idle)'
    BY IdleLemma, IdleStored
  <2>2. QED
    BY <1>1, <1>2, <2>1, StoredStill
<1>3. ASSUME NEW r \in RequestRows, NEW rec \in RequestRows, Stores(o, r, rec)
      PROVE  StoredInv'
  <2>1. /\ r = request[o] /\ Moves(o, rec) /\ r.pc = "store" /\ AtRow(r) /\ Importing(r) /\ r.row \in Rows
        /\ transaction' = [transaction EXCEPT ![r.row].stored = TRUE]
        /\ r.i \in DOMAIN RowsOf(r.import) /\ r.row = RowsOf(r.import)[r.i]
    BY <1>3 DEF Stores, Charger, AtRow
  <2>2. /\ \A row \in Rows : transaction[row].stored => transaction'[row].stored
        /\ transaction'[r.row].stored
    BY <1>0, <2>1 DEF TypeInv, TablesInv, TransactionRows
  <2>3. StoreGrows
    BY <1>1, <2>2 DEF StoreGrows
  <2>4. PICK n \in DOMAIN imports : n = r.import /\ n # 0
    BY <1>0, <2>1 DEF Importing, TypeInv, TablesInv
  <2>5. \A i \in DOMAIN RowsOf(n) : i < r.i => transaction[RowsOf(n)[i]].stored
    BY <2>1, <2>4 DEF StoredInv, Stored, OnPayment
  <2>6. RowsOf(n)' = RowsOf(n) /\ \A i \in DOMAIN RowsOf(n) : i \in Nat /\ RowsOf(n)[i] \in Rows
    BY <1>0, <2>3, RowsLemma
  <2>7. ASSUME NEW i \in DOMAIN RowsOf(n), i < r.i \/ i = r.i
        PROVE  transaction'[RowsOf(n)[i]].stored
    BY <2>1, <2>2, <2>4, <2>5, <2>6, <2>7
  <2>8. CASE TakesNext(r, rec)
    <3>1. ASSUME NEW i \in DOMAIN RowsOf(n), i <= r.i
          PROVE  i < r.i \/ i = r.i
      <4>1. i \in Nat /\ r.i \in Nat
        BY <2>6 DEF RequestRows
      <4>2. QED
        BY <3>1, <4>1
    <3>2. Stored(rec)'
      BY <1>0, <2>1, <2>3, <2>4, <2>7, <2>8, <3>1, NextStored
    <3>3. QED
      BY <1>1, <2>1, <2>3, <3>2, StoredMoves DEF StoredInv, Imported
  <2>9. CASE rec.pc = "auto" /\ rec.import = r.import /\ rec.i = r.i
    <3>1. RowsOf(rec.import)' = RowsOf(n)
      BY <2>4, <2>6, <2>9
    <3>2. Stored(rec)'
      BY <2>7, <2>9, <3>1 DEF Stored
    <3>3. QED
      BY <1>1, <2>1, <2>3, <3>2, StoredMoves DEF StoredInv, Imported
  <2>10. QED
    BY <1>3, <2>8, <2>9 DEF Stores
<1>4. QED
  BY <1>0, <1>2, <1>3, StoresLemma

\* The request of a match keeps its place in the statement.
LEMMA MatchStored ==
  ASSUME StoredInv, TypeInv', NEW o \in Operators, NEW r \in RequestRows, NEW rec \in RequestRows,
         Charger(o, r, rec), UNCHANGED imports, StoreGrows,
         r.pc \in {"auto", "insert", "status"} \/ MatchPosts(r),
         \/ TakesNext(r, rec) /\ Importing(r)
         \/ rec.import = r.import /\ rec.i = r.i /\ (r.import = 0 \/ Importing(r))
  PROVE  StoredInv'
<1>0. TypeInv
  BY DEF StoredInv
<1>1. r = request[o] /\ Moves(o, rec) /\ Stored(r)
  BY DEF Charger, StoredInv
<1>2. CASE r.import = 0 /\ rec.import = r.import
  <2>1. Stored(rec)'
    BY <1>2, IdleStored
  <2>2. QED
    BY <1>1, <2>1, StoredMoves DEF StoredInv, Imported
<1>3. CASE Importing(r)
  <2>1. PICK n \in DOMAIN imports : n = r.import /\ n # 0
    BY <1>0, <1>3 DEF Importing, TypeInv, TablesInv
  <2>2. RowsOf(n)' = RowsOf(n) /\ \A i \in DOMAIN RowsOf(n) : i \in Nat /\ RowsOf(n)[i] \in Rows
    BY <1>0, RowsLemma
  <2>3. OnPayment(r) /\ r.pc \notin {"refuse", "row", "store"}
    BY DEF OnPayment, MatchPosts
  <2>4. ASSUME NEW i \in DOMAIN RowsOf(n), i < r.i \/ i = r.i
        PROVE  transaction'[RowsOf(n)[i]].stored
    BY <1>1, <2>1, <2>2, <2>3, <2>4 DEF Stored, StoreGrows
  <2>5. CASE TakesNext(r, rec)
    <3>1. ASSUME NEW i \in DOMAIN RowsOf(n), i <= r.i
          PROVE  i < r.i \/ i = r.i
      <4>1. i \in Nat
        BY <2>2
      <4>2. r.i \in Nat
        BY DEF RequestRows
      <4>3. QED
        BY <3>1, <4>1, <4>2
    <3>2. Stored(rec)'
      BY <1>0, <1>3, <2>1, <2>4, <2>5, <3>1, NextStored
    <3>3. QED
      BY <1>1, <3>2, StoredMoves DEF StoredInv, Imported
  <2>6. CASE rec.import = r.import /\ rec.i = r.i
    <3>1. RowsOf(rec.import)' = RowsOf(n)
      BY <2>1, <2>2, <2>6
    <3>2. Stored(rec)'
      BY <2>4, <2>6, <3>1 DEF Stored
    <3>3. QED
      BY <1>1, <3>2, StoredMoves DEF StoredInv, Imported
  <2>7. QED
    BY <2>5, <2>6
<1>4. QED
  BY <1>2, <1>3

LEMMA MatchesStored ==
  ASSUME StoredInv, TypeInv', NEW o \in Operators,
         AutoMatch(o) \/ InsertMatch(o) \/ UpdateTransaction(o) \/ PostMatch(o)
  PROVE  StoredInv'
<1>0. TypeInv
  BY DEF StoredInv
<1>1. CASE AutoMatch(o)
  <2>1. PICK r \in RequestRows, rec \in RequestRows :
          /\ Charger(o, r, rec) /\ r.pc = "auto" /\ AtRow(r)
          /\ TakesNext(r, rec) \/ \E f \in Payers, amount \in Nat \ {0} : Matches(rec, r, r.row, f, amount)
    BY <1>0, <1>1, AutoMatchesLemma
  <2>2. UNCHANGED <<imports, transaction>>
    BY <1>0, <1>1, AutoMatchesLemma DEF paying
  <2>3. StoreGrows
    BY <2>2 DEF StoreGrows
  <2>4. Importing(r) /\ (TakesNext(r, rec) \/ (rec.import = r.import /\ rec.i = r.i))
    BY <2>1 DEF AtRow, Matches
  <2>5. QED
    BY <2>1, <2>2, <2>3, <2>4, MatchStored
<1>2. CASE InsertMatch(o)
  <2>1. PICK r \in RequestRows, rec \in RequestRows : InsertsMatch(o, r, rec)
    BY <1>0, <1>2, InsertsMatchLemma
  <2>2. UNCHANGED <<imports, transaction>>
    BY <1>0, <1>2, InsertsMatchLemma
  <2>3. StoreGrows
    BY <2>2 DEF StoreGrows
  <2>4. Charger(o, r, rec) /\ r.pc = "insert" /\ rec.import = r.import /\ rec.i = r.i /\ (r.import = 0 \/ Importing(r))
    BY <2>1 DEF InsertsMatch, SameMatch, Matcher
  <2>5. QED
    BY <2>2, <2>3, <2>4, MatchStored
<1>3. CASE UpdateTransaction(o)
  <2>1. PICK r \in RequestRows, rec \in RequestRows : Updates(o, r, rec)
    BY <1>0, <1>3, UpdatesLemma
  <2>2. UNCHANGED imports
    BY <1>0, <1>3, UpdatesLemma
  <2>3. \A row \in Rows : transaction[row].stored => transaction'[row].stored
    BY <1>0, <2>1 DEF Updates, TypeInv, TablesInv, TransactionRows
  <2>4. StoreGrows
    BY <2>2, <2>3 DEF StoreGrows
  <2>5. Charger(o, r, rec) /\ r.pc = "status" /\ rec.import = r.import /\ rec.i = r.i /\ (r.import = 0 \/ Importing(r))
    BY <2>1 DEF Updates, SameMatch, Matcher
  <2>6. QED
    BY <2>2, <2>4, <2>5, MatchStored
<1>4. CASE PostMatch(o)
  <2>1. PICK r \in RequestRows, rec \in RequestRows : PostsMatch(o, r, rec)
    BY <1>0, <1>4, PostsMatchLemma
  <2>2. UNCHANGED <<imports, transaction>>
    BY <1>0, <1>4, PostsMatchLemma DEF paying
  <2>3. StoreGrows
    BY <2>2 DEF StoreGrows
  <2>4. Charger(o, r, rec) /\ Moves(o, rec) /\ MatchPosts(r)
    BY <2>1 DEF PostsMatch, MatchPosts, Charger
  <2>5. CASE r.import = 0
    <3>1. Moves(o, Idle)
      BY <2>1, <2>4, <2>5 DEF PostsMatch
    <3>2. Stored(Idle)'
      BY IdleLemma, IdleStored
    <3>3. QED
      BY <2>2, <3>1, <3>2, StoredStill
  <2>6. CASE r.import # 0
    <3>1. TakesNext(r, rec) /\ Importing(r)
      BY <2>1, <2>6 DEF PostsMatch, Matcher
    <3>2. QED
      BY <2>2, <2>3, <2>4, <3>1, MatchStored
  <2>7. QED
    BY <2>5, <2>6
<1>5. QED
  BY <1>1, <1>2, <1>3, <1>4

LEMMA HandStored ==
  ASSUME StoredInv, TypeInv', NEW o \in Operators, NEW row \in Rows, NEW f \in Payers, NEW amount \in Amounts,
         MatchByHand(o, row, f, amount)
  PROVE  StoredInv'
<1>0. TypeInv
  BY DEF StoredInv
<1>1. PICK r \in RequestRows, rec \in RequestRows : StartsMatch(o, r, rec, row, f, amount) /\ r.import = 0
  BY <1>0, HandMatchesLemma
<1>2. UNCHANGED <<imports, transaction>>
  BY <1>0, HandMatchesLemma DEF paying
<1>3. Moves(o, rec) /\ rec.import = 0
  BY <1>1 DEF StartsMatch, Charger, Matches
<1>4. Stored(rec)'
  BY <1>3, IdleStored
<1>5. QED
  BY <1>2, <1>3, <1>4, StoredStill

LEMMA NextStoredInv ==
  ASSUME StoredInv, [Next]_vars
  PROVE  StoredInv'
<1>0. TypeInv /\ TypeInv'
  BY NextTyped DEF StoredInv
<1>1. ASSUME request' = request, UNCHANGED paying
      PROVE  StoredInv'
  <2>1. Imported'
    BY <1>1 DEF StoredInv, Imported, RowsOf, paying
  <2>2. \A o \in Operators : Stored(request[o])'
    BY <1>1 DEF StoredInv, Stored, OnPayment, MatchPosts, RowsOf, paying
  <2>3. QED
    BY <1>0, <2>1, <2>2 DEF StoredInv
<1>2. CASE UNCHANGED vars
  BY <1>1, <1>2 DEF vars, paying
<1>3. ASSUME NEW o \in Operators, NEW rec, Moves(o, rec), UNCHANGED paying, ~OnPayment(rec)
      PROVE  StoredInv'
  <2>1. Stored(rec)'
    BY <1>3, IdleStored
  <2>2. QED
    BY <1>0, <1>3, <2>1, StoredStill DEF paying
<1>4. ASSUME NEW o \in Operators, Registration(o)
      PROVE  StoredInv'
  BY <1>1, <1>4, RegistrationMoves
<1>5. ASSUME NEW o \in Operators, Charging(o) \/ Die(o)
      PROVE  StoredInv'
  <2>1. UNCHANGED paying
    BY <1>0, <1>5, ChargingMoves, DieMoves
  <2>2. \E rec : Moves(o, rec) /\ ~OnPayment(rec)
    BY <1>0, <1>5, ChargingMoves, DieMoves DEF ChargeStages, OnPayment, MatchPosts
  <2>3. QED
    BY <1>3, <2>1, <2>2
<1>6. ASSUME NEW o \in Operators, Stepping(o)
      PROVE  StoredInv'
  <2>1. UNCHANGED paying
    BY <1>0, <1>6, SteppingMoves
  <2>2. PICK rec : Moves(o, rec) /\ (rec.pc \in {"idle", "step"} \/ rec = request[o])
    BY <1>0, <1>6, SteppingMoves
  <2>3. CASE rec.pc \in {"idle", "step"}
    <3>1. ~OnPayment(rec)
      BY <2>3 DEF OnPayment, MatchPosts
    <3>2. QED
      BY <1>3, <2>1, <2>2, <3>1
  <2>4. CASE rec = request[o]
    <3>1. request' = request
      BY <1>0, <2>2, <2>4 DEF Moves, TypeInv, RequestInv
    <3>2. QED
      BY <1>1, <2>1, <3>1
  <2>5. QED
    BY <2>2, <2>3, <2>4
<1>7. ASSUME NEW o \in Operators, Paying(o)
      PROVE  StoredInv'
  BY <1>0, <1>7, ImportsStored, EndsStored, LooksStored, StoresStored, MatchesStored, HandStored DEF Paying
<1>8. QED
  BY <1>2, <1>4, <1>5, <1>6, <1>7 DEF Next

LEMMA InitStored ==
  ASSUME Init
  PROVE  StoredInv
<1>1. TypeInv
  BY InitTyped
<1>2. Imported
  BY DEF Init, Imported
<1>3. \A o \in Operators : request[o].pc = "idle"
  BY IdleLemma DEF Init
<1>4. QED
  BY <1>1, <1>2, <1>3 DEF StoredInv, Stored, OnPayment, MatchPosts

-----------------------------------------------------------------------------
(* Requests one after another                                                *)

\* Requests have never overlapped, and none has ended half way.
Alone == ~mixed /\ ~died

OthersIdle(o) == \A p \in Operators \ {o} : request[p].pc = "idle"

LoneInv == Alone => \A o \in Operators : request[o].pc # "dead" /\ (Working(o) => OthersIdle(o))

\* A step of a request that is alone before and after it.
LEMMA LoneLemma ==
  ASSUME LoneInv, NEW o \in Operators, NEW rec, Moves(o, rec), rec.pc # "dead",
         Begin(o) \/ (Continue /\ Working(o)), Alone'
  PROVE  Alone /\ OthersIdle(o) /\ OthersIdle(o)' /\ LoneInv' /\ (Working(o) \/ request[o].pc = "idle")
<1>1. Alone
  <2>1. CASE Begin(o)
    <3>1. (mixed => mixed') /\ (died => died')
      BY <2>1, Zenon DEF Begin
    <3>2. QED
      BY <3>1 DEF Alone
  <2>2. CASE Continue
    BY <2>2 DEF Alone, Continue
  <2>3. QED
    BY <2>1, <2>2
<1>2. OthersIdle(o) /\ (Working(o) \/ request[o].pc = "idle")
  <2>1. CASE Begin(o)
    BY <1>1, <2>1 DEF Alone, Begin, LoneInv, OthersIdle, Working
  <2>2. CASE Continue /\ Working(o)
    BY <1>1, <2>2 DEF LoneInv
  <2>3. QED
    BY <2>1, <2>2
<1>3. OthersIdle(o)'
  BY <1>2 DEF OthersIdle, Moves
<1>4. LoneInv'
  <2> SUFFICES ASSUME NEW p \in Operators
               PROVE  request'[p].pc # "dead" /\ (Working(p)' => OthersIdle(p)')
    BY DEF LoneInv
  <2>1. CASE p = o
    BY <1>3, <2>1 DEF Moves
  <2>2. CASE p # o
    BY <1>3, <2>2 DEF OthersIdle, Working
  <2>3. QED
    BY <2>1, <2>2
<1>5. QED
  BY <1>1, <1>2, <1>3, <1>4

ChargePosts(r) == r.pc = "entry" /\ r.row = NoState

OnCharges(r) == r.pc \in {"draft", "batch", "charge", "student", "payer"}

\* An import that is not finished is the request's, and the row it is to store is not stored.
ImportsEnd(r) ==
  /\ \A n \in DOMAIN imports : imports[n].status = "przetwarzany" => OnPayment(r) /\ r.import = n
  /\ r.pc = "store" => ~transaction[r.row].stored

StatusOf(row, sum) ==
  IF sum = 0 THEN "nieprzypisana"
  ELSE IF sum >= Absolute(Row[row].amount) THEN "rozliczona" ELSE "czesciowo_rozliczona"

\* The status of a payment is that of its matches, but for the one whose match was just written.
Settled(r) ==
  /\ \A row \in Rows : (r.pc = "status" /\ row = r.row)
                       \/ transaction[row].status = StatusOf(row, MatchedOf(row))
  /\ r.pc = "insert" => r.status = StatusOf(r.row, MatchedOf(r.row) + r.amount)
  /\ r.pc = "status" => r.status = StatusOf(r.row, MatchedOf(r.row))

\* The drafts whose charges the ledger does not know, the match it does not know.
Unposted(r) == {k \in DOMAIN r.drafts : \/ r.pc = "charge" /\ k < r.i
                                        \/ r.pc \in {"student", "payer", "balance"}
                                        \/ ChargePosts(r) /\ k >= r.i}
Owed(r, f) == TotalOf(r.drafts, Unposted(r), f)

Unsettled(r) == r.pc = "status" \/ MatchPosts(r)
Returned(r, f) == IF Unsettled(r) /\ r.payer = f THEN r.amount ELSE 0

\* The ledger agrees with the balance, but for what the request has still to post.
Posted(r) == \A f \in Payers :
  /\ ledger[f].after = ledger[f].posted
  /\ ledger[f].posted + Owed(r, f) - Returned(r, f) = Balance(f)
  /\ (ChargePosts(r) /\ f \in DOMAIN r.after) => r.after[f] = ledger[f].posted
  /\ ((r.pc = "insert" \/ Unsettled(r)) /\ f = r.payer) => r.after[f] = ledger[f].posted - r.amount

\* What the request took for not stored is not stored until the request stores it.
StillFresh(r) ==
  /\ r.pc \in {"draft", "batch", "charge", "student"} =>
       \A k \in DOMAIN r.drafts : (r.drafts[k].fresh /\ (r.pc = "student" => k >= r.i)) =>
         studentState[r.drafts[k].student] = NoState
  /\ OnCharges(r) =>
       \A f \in r.freshCards : (r.pc = "payer" => f \in DOMAIN r.cards) => payerState[f] = NoState

PayPart(r) == ImportsEnd(r) /\ Settled(r)
Books(r) == PayPart(r) /\ Posted(r) /\ StillFresh(r)

BooksInv ==
  /\ ChargeInv /\ LoneInv
  /\ Alone => \A o \in Operators : Working(o) => Books(request[o])
  /\ (Alone /\ Quiet) => Books(Idle)

LEMMA NothingOwed ==
  ASSUME NEW r, Unposted(r) = {}, NEW f
  PROVE  Owed(r, f) = 0
<1>1. PlacesOf(r.drafts, Unposted(r), f) = {}
  BY DEF PlacesOf
<1>2. QED
  BY <1>1, SumNone DEF Owed, TotalOf

LEMMA NothingPosts ==
  ASSUME NEW r, r.pc \notin {"charge", "student", "payer", "balance"}, ~ChargePosts(r)
  PROVE  Unposted(r) = {}
BY DEF Unposted

LEMMA OwedLemma ==
  ASSUME NEW r \in RequestRows, NEW f
  PROVE  Owed(r, f) \in Nat
<1>1. r.drafts \in Seq(Drafts) /\ Unposted(r) \in SUBSET DOMAIN r.drafts
  BY DEF RequestRows, Unposted
<1>2. QED
  BY <1>1, DraftsLemma DEF Owed

\* Requests that leave imports and matches alone.
LEMMA PayStill ==
  ASSUME UNCHANGED paying, NEW r, PayPart(r), ~OnPayment(r), NEW rec, ~OnPayment(rec)
  PROVE  PayPart(rec)'
<1>1. /\ \A n \in DOMAIN imports : imports[n].status # "przetwarzany"
      /\ \A row \in Rows : transaction[row].status = StatusOf(row, MatchedOf(row))
  BY DEF PayPart, ImportsEnd, Settled, OnPayment
<1>2. rec.pc \notin {"store", "insert", "status"}
  BY DEF OnPayment
<1>3. UNCHANGED <<imports, transaction, matched>>
  BY DEF paying
<1>4. \A row \in Rows : StatusOf(row, MatchedOf(row))' = StatusOf(row, MatchedOf(row))
  BY <1>3 DEF StatusOf, MatchedOf
<1>5. ImportsEnd(rec)'
  BY <1>1, <1>2, <1>3 DEF ImportsEnd
<1>6. Settled(rec)'
  BY <1>1, <1>2, <1>3, <1>4 DEF Settled
<1>7. QED
  BY <1>5, <1>6 DEF PayPart

\* Requests that leave charges, matches and the ledger alone, and what is still to be posted.
LEMMA PostedStill ==
  ASSUME TypeInv, UNCHANGED <<charges, matched, ledger>>, NEW r \in RequestRows, NEW rec \in RequestRows, Posted(r),
         ~Unsettled(r), ~Unsettled(rec), rec.pc # "insert", \A f \in Payers : Owed(rec, f) = Owed(r, f),
         ChargePosts(rec) => \A f \in Payers \cap DOMAIN rec.after : rec.after[f] = ledger[f].posted
  PROVE  Posted(rec)'
<1> SUFFICES ASSUME NEW f \in Payers
             PROVE  /\ ledger'[f].after = ledger'[f].posted
                    /\ ledger'[f].posted + Owed(rec, f) - Returned(rec, f) = Balance(f)'
                    /\ (ChargePosts(rec) /\ f \in DOMAIN rec.after) => rec.after[f] = ledger'[f].posted
                    /\ ((rec.pc = "insert" \/ Unsettled(rec)) /\ f = rec.payer) =>
                         rec.after[f] = ledger'[f].posted - rec.amount
  BY DEF Posted, Owed, Returned, TotalOf, PlacesOf, Unposted, ChargePosts, Unsettled, MatchPosts
<1>1. Balance(f)' = Balance(f)
  BY DEF Balance, Charged, Paid, ChargesOf
<1>2. Returned(r, f) = 0 /\ Returned(rec, f) = 0
  BY DEF Returned
<1>3. ledger[f].after = ledger[f].posted /\ ledger[f].posted + Owed(rec, f) - Returned(rec, f) = Balance(f)
  BY <1>2 DEF Posted
<1>4. QED
  BY <1>1, <1>3

\* Requests with nothing to post on either side of the step.
LEMMA NothingToPost ==
  ASSUME TypeInv, UNCHANGED <<charges, matched, ledger>>, NEW r \in RequestRows, NEW rec \in RequestRows, Posted(r),
         r.pc \notin {"charge", "student", "payer", "balance", "entry", "status", "insert"},
         rec.pc \notin {"charge", "student", "payer", "balance", "entry", "status", "insert"}
  PROVE  Posted(rec)'
<1>1. ~Unsettled(r) /\ ~Unsettled(rec) /\ ~ChargePosts(r) /\ ~ChargePosts(rec)
  BY DEF Unsettled, MatchPosts, ChargePosts
<1>2. Unposted(r) = {} /\ Unposted(rec) = {}
  BY <1>1, NothingPosts
<1>3. \A f \in Payers : Owed(rec, f) = Owed(r, f)
  BY <1>2, NothingOwed
<1>4. QED
  BY <1>1, <1>3, PostedStill

\* The books of a request that has done nothing to them are those of an idle one.
LEMMA RestLemma ==
  ASSUME TypeInv, UNCHANGED <<studentState, payerState, charges, paying, ledger>>,
         NEW r \in RequestRows, NEW rec \in RequestRows, Books(r),
         r.pc \in {"idle", "step", "draft", "batch"},
         \/ rec.pc \in {"idle", "step"}
         \/ rec.pc = "draft" /\ rec.drafts = <<>> /\ rec.freshCards = {}
  PROVE  Books(rec)'
<1>1. PayPart(rec)'
  BY PayStill DEF Books, OnPayment, MatchPosts
<1>2. Posted(rec)'
  BY NothingToPost DEF Books, paying
<1>3. StillFresh(rec)'
  BY DEF StillFresh, OnCharges
<1>4. QED
  BY <1>1, <1>2, <1>3 DEF Books

LEMMA IdleBooks ==
  ASSUME Books(Idle), NEW r \in RequestRows, r.pc = "idle"
  PROVE  Books(r)
<1>1. PICK idle \in RequestRows : idle = Idle /\ idle.pc = "idle" /\ Books(idle)
  BY IdleLemma
<1>2. ~ChargePosts(r) /\ ~ChargePosts(idle) /\ ~Unsettled(r) /\ ~Unsettled(idle)
      /\ ~OnPayment(r) /\ ~OnPayment(idle) /\ ~OnCharges(r)
  BY <1>1 DEF ChargePosts, Unsettled, MatchPosts, OnPayment, OnCharges
<1>3. \A f : Owed(r, f) = 0 /\ Owed(idle, f) = 0
  BY <1>1, <1>2, NothingPosts, NothingOwed
<1>4. \A f \in Payers : Returned(r, f) = 0 /\ Returned(idle, f) = 0
  BY <1>2 DEF Returned
<1>5. Posted(r)
  BY <1>1, <1>2, <1>3, <1>4 DEF Posted, Books
<1>6. PayPart(r)
  BY <1>1, <1>2 DEF Books, PayPart, ImportsEnd, Settled
<1>7. StillFresh(r)
  BY <1>2 DEF StillFresh
<1>8. QED
  BY <1>5, <1>6, <1>7 DEF Books

\* The step of one request keeps the books if it takes its own from before to after.
LEMMA BooksStep ==
  ASSUME BooksInv, ChargeInv', NEW o \in Operators, NEW r \in RequestRows, r = request[o],
         NEW rec \in RequestRows, Moves(o, rec), rec.pc # "dead", rec.pc = "idle" => rec = Idle,
         Begin(o) \/ (Continue /\ Working(o)), Alone => (Books(r) => Books(rec)')
  PROVE  BooksInv'
<1>1. CASE ~Alone'
  BY <1>1 DEF BooksInv, LoneInv
<1>2. CASE Alone'
  <2>1. Alone /\ OthersIdle(o) /\ OthersIdle(o)' /\ LoneInv' /\ (Working(o) \/ request[o].pc = "idle")
    BY <1>2, LoneLemma DEF BooksInv
  <2>2. Books(r)
    <3>1. CASE Working(o)
      BY <2>1, <3>1 DEF BooksInv
    <3>2. CASE request[o].pc = "idle"
      <4>1. Quiet
        BY <2>1, <3>2 DEF Quiet, Working, OthersIdle
      <4>2. Books(Idle)
        BY <2>1, <4>1 DEF BooksInv
      <4>3. QED
        BY <3>2, <4>2, IdleBooks
    <3>3. QED
      BY <2>1, <3>1, <3>2
  <2>3. Books(rec)'
    BY <2>1, <2>2
  <2>4. request'[o] = rec
    BY DEF Moves
  <2>5. ASSUME NEW p \in Operators, Working(p)'
        PROVE  Books(request[p])'
    <3>1. p = o
      BY <2>1, <2>5 DEF OthersIdle, Working
    <3>2. Books(request[o])'
      BY <2>3, <2>4 DEF Books, PayPart, ImportsEnd, Settled, Posted, StillFresh, Owed, Returned, Unposted, Unsettled,
         MatchPosts, ChargePosts, OnPayment, OnCharges
    <3>3. QED
      BY <3>1, <3>2
  <2>6. ASSUME Quiet'
        PROVE  Books(Idle)'
    <3>1. rec = Idle
      BY <2>4, <2>6 DEF Quiet, Working
    <3>2. QED
      BY <2>3, <3>1 DEF Books, PayPart, ImportsEnd, Settled, Posted, StillFresh, Owed, Returned, Unposted, Unsettled,
         MatchPosts, ChargePosts, OnPayment, OnCharges
  <2>7. QED
    BY <2>1, <2>5, <2>6 DEF BooksInv
<1>3. QED
  BY <1>1, <1>2

\* Steps that leave every table of charges and payments alone.
LEMMA BooksRest ==
  ASSUME BooksInv, ChargeInv', UNCHANGED <<studentState, payerState, charges, paying, ledger>>,
         NEW o \in Operators, NEW r \in RequestRows, r = request[o], NEW rec \in RequestRows, Moves(o, rec),
         r.pc \in {"idle", "step", "draft", "batch"}, rec.pc = "idle" => rec = Idle,
         \/ rec.pc \in {"idle", "step"}
         \/ rec.pc = "draft" /\ rec.drafts = <<>> /\ rec.freshCards = {},
         Begin(o) \/ (Continue /\ Working(o))
  PROVE  BooksInv'
<1>1. TypeInv
  BY DEF BooksInv, ChargeInv
<1>2. ASSUME Books(r)
      PROVE  Books(rec)'
  BY <1>1, <1>2, RestLemma
<1>3. QED
  BY <1>2, BooksStep

\* The books of a request are read from these tables only.
LEMMA BooksKept ==
  ASSUME UNCHANGED <<studentState, payerState, charges, paying, ledger>>, NEW r, Books(r)
  PROVE  Books(r)'
<1>1. \A row : MatchedOf(row)' = MatchedOf(row)
  BY DEF MatchedOf, paying
<1>2. \A f : Balance(f)' = Balance(f)
  BY DEF Balance, Charged, Paid, ChargesOf, paying
<1>3. PayPart(r)'
  BY <1>1 DEF Books, PayPart, ImportsEnd, Settled, StatusOf, OnPayment, MatchPosts, paying
<1>4. Posted(r)'
  BY <1>2 DEF Books, Posted, Owed, Returned, Unposted, Unsettled, MatchPosts, ChargePosts, TotalOf, PlacesOf
<1>5. StillFresh(r)'
  BY DEF Books, StillFresh, OnCharges
<1>6. QED
  BY <1>3, <1>4, <1>5 DEF Books

\* Steps of one transaction that leave every request as it is.
LEMMA BooksSame ==
  ASSUME BooksInv, ChargeInv', UNCHANGED <<studentState, payerState, charges, paying, ledger, request>>,
         NEW o \in Operators, Begin(o)
  PROVE  BooksInv'
<1>1. CASE ~Alone'
  BY <1>1 DEF BooksInv, LoneInv
<1>2. CASE Alone'
  <2>1. Alone
    <3>1. (mixed => mixed') /\ (died => died')
      BY Zenon DEF Begin
    <3>2. QED
      BY <1>2, <3>1 DEF Alone
  <2>2. LoneInv'
    BY <1>2, <2>1 DEF BooksInv, LoneInv, OthersIdle, Working
  <2>3. ASSUME NEW r, Books(r)
        PROVE  Books(r)'
    BY <2>3, BooksKept
  <2>4. ASSUME NEW p \in Operators, Working(p)'
        PROVE  Books(request[p])'
    <3>1. PICK r : r = request[p] /\ request'[p] = r
      OBVIOUS
    <3>2. Books(r)
      BY <2>1, <2>4, <3>1 DEF BooksInv, Working
    <3>3. Books(r)'
      BY <2>3, <3>2
    <3>4. QED
      BY <3>1, <3>3 DEF Books, PayPart, ImportsEnd, Settled, Posted, StillFresh, Owed, Returned, Unposted, Unsettled,
         MatchPosts, ChargePosts, OnPayment, OnCharges
  <2>5. Quiet' => Books(Idle)'
    <3>1. Quiet' => Quiet
      BY DEF Quiet, Working
    <3>2. Quiet => Books(Idle)
      BY <2>1 DEF BooksInv
    <3>3. PICK r : r = Idle
      OBVIOUS
    <3>4. Books(r) => Books(r)'
      BY <2>3
    <3>5. Books(r)' => Books(Idle)'
      BY <3>3 DEF Books, PayPart, ImportsEnd, Settled, Posted, StillFresh, Owed, Returned, Unposted, Unsettled,
         MatchPosts, ChargePosts, OnPayment, OnCharges
    <3>6. QED
      BY <3>1, <3>2, <3>3, <3>4, <3>5
  <2>6. QED
    BY <2>2, <2>4, <2>5 DEF BooksInv
<1>3. QED
  BY <1>1, <1>2
-----------------------------------------------------------------------------
(* Every step keeps the books                                                *)

LEMMA SteppingBooks ==
  ASSUME BooksInv, ChargeInv', NEW o \in Operators, Stepping(o)
  PROVE  BooksInv'
<1>1. TypeInv
  BY DEF BooksInv, ChargeInv
<1>2. UNCHANGED <<studentState, payerState, charges, paying, ledger>>
  BY <1>1, SteppingMoves DEF charging
<1>3. PICK r \in RequestRows : r = request[o]
  BY <1>1 DEF TypeInv, RequestInv
<1>4. ASSUME NEW d, PlanStep(o, d)
      PROVE  BooksInv'
  <2>1. UNCHANGED request /\ Begin(o)
    BY <1>4 DEF PlanStep
  <2>2. QED
    BY <1>2, <2>1, BooksSame
<1>5. ASSUME NEW n, NEW action, NEW d, CheckStep(o, n, action, d)
      PROVE  BooksInv'
  <2>1. PICK idle \in RequestRows : idle = Idle
    BY IdleLemma
  <2>2. PICK rec : rec = [idle EXCEPT !.pc = "step", !.action = action, !.parent = n, !.date = d]
    OBVIOUS
  <2>3. rec.pc = "step"
    BY <2>2 DEF RequestRows
  <2>4. Moves(o, rec)
    BY <1>1, <1>5, <2>1, <2>2, GotoMoves DEF CheckStep
  <2>5. rec \in RequestRows
    BY <2>4 DEF Moves, ChargeInv, TypeInv, RequestInv
  <2>6. Begin(o) /\ r.pc = "idle"
    BY <1>3, <1>5 DEF CheckStep, Begin
  <2>7. QED
    BY <1>2, <1>3, <2>3, <2>4, <2>5, <2>6, BooksRest
<1>6. ASSUME InsertStep(o)
      PROVE  BooksInv'
  <2>1. Moves(o, Idle) /\ Idle \in RequestRows /\ Idle.pc = "idle"
    BY <1>1, <1>6, IdleMoves, IdleLemma DEF InsertStep
  <2>2. Continue /\ Working(o) /\ r.pc = "step"
    BY <1>3, <1>6 DEF InsertStep, Working
  <2>3. QED
    BY <1>2, <1>3, <2>1, <2>2, BooksRest
<1>7. QED
  BY <1>4, <1>5, <1>6 DEF Stepping

LEMMA GenerateBooks ==
  ASSUME BooksInv, ChargeInv', NEW o \in Operators, NEW m \in Models, NEW p \in Periods, Generate(o, m, p)
  PROVE  BooksInv'
<1>1. TypeInv /\ TypeInv'
  BY DEF BooksInv, ChargeInv
<1>2. UNCHANGED <<studentState, payerState, charges, paying, ledger>> /\ Begin(o)
  BY <1>1, BeginsLemma DEF charging
<1>3. PICK rec \in RequestRows : Begins(o, rec, m, p)
  BY <1>1, BeginsLemma
<1>4. PICK r \in RequestRows : r = request[o] /\ r.pc = "idle"
  BY <1>1, <1>2 DEF TypeInv, RequestInv, Begin
<1>5. Moves(o, rec) /\ rec.pc = "draft" /\ rec.drafts = <<>> /\ rec.freshCards = {}
  BY <1>3 DEF Begins
<1>6. QED
  BY <1>2, <1>4, <1>5, BooksRest

\* The discount of a family that had none stored.
LEMMA ReadCardBooks ==
  ASSUME BooksInv, ChargeInv', NEW o \in Operators, ReadCard(o)
  PROVE  BooksInv'
<1>1. TypeInv /\ TypeInv'
  BY DEF BooksInv, ChargeInv
<1>2. UNCHANGED <<studentState, payerState, charges, paying, matched, ledger>> /\ Continue
  BY <1>1, TakesCardLemma DEF charging, paying
<1>3. PICK r \in RequestRows, rec \in RequestRows, f \in Payers, card \in Nat : TakesCard(o, r, rec, f, card)
  BY <1>1, TakesCardLemma
<1>4. r = request[o] /\ Moves(o, rec) /\ r.pc = "draft" /\ rec.pc = "draft" /\ rec.drafts = r.drafts
  BY <1>3 DEF TakesCard, Charger
<1>5. ASSUME Books(r)
      PROVE  Books(rec)'
  <2>1. PayPart(rec)'
    BY <1>2, <1>4, <1>5, PayStill DEF Books, OnPayment, MatchPosts
  <2>2. Posted(rec)'
    BY <1>1, <1>2, <1>4, <1>5, NothingToPost DEF Books
  <2>3. \A g \in rec.freshCards : g \in r.freshCards \/ payerState[g] = NoState
    BY <1>3 DEF TakesCard
  <2>4. \A g \in rec.freshCards : payerState[g] = NoState
    BY <1>4, <1>5, <2>3 DEF Books, StillFresh, OnCharges
  <2>5. \A k \in DOMAIN r.drafts : r.drafts[k].fresh => studentState[r.drafts[k].student] = NoState
    BY <1>4, <1>5 DEF Books, StillFresh
  <2>6. StillFresh(rec)'
    BY <1>2, <1>4, <2>4, <2>5 DEF StillFresh
  <2>7. QED
    BY <2>1, <2>2, <2>6 DEF Books
<1>6. Working(o)
  BY <1>4 DEF Working
<1>7. QED
  BY <1>2, <1>4, <1>5, <1>6, BooksStep

LEMMA DraftBooks ==
  ASSUME BooksInv, ChargeInv', NEW o \in Operators, DraftCharge(o)
  PROVE  BooksInv'
<1>1. TypeInv /\ TypeInv'
  BY DEF BooksInv, ChargeInv
<1>2. UNCHANGED <<studentState, payerState, charges, paying, matched, ledger>> /\ Continue
  BY <1>1, DraftedLemma DEF charging, paying
<1>3. PICK r \in RequestRows, rec \in RequestRows, s \in Students, d \in Drafts, card \in Nat :
        Drafted(o, r, rec, s, d, card)
  BY <1>1, DraftedLemma
<1>4. /\ r = request[o] /\ Moves(o, rec) /\ r.pc = "draft" /\ rec.pc \in {"draft", "batch"}
      /\ rec.drafts = Append(r.drafts, d) /\ rec.freshCards = r.freshCards
  BY <1>3 DEF Drafted, Charger
<1>5. d.fresh => studentState[d.student] = NoState
  BY <1>3 DEF Drafted, Draft
<1>6. ASSUME Books(r)
      PROVE  Books(rec)'
  <2>1. PayPart(rec)'
    BY <1>2, <1>4, <1>6, PayStill DEF Books, OnPayment, MatchPosts
  <2>2. Posted(rec)'
    BY <1>1, <1>2, <1>4, <1>6, NothingToPost DEF Books
  <2>3. \A g \in r.freshCards : payerState[g] = NoState
    BY <1>4, <1>6 DEF Books, StillFresh, OnCharges
  <2>4. \A k \in DOMAIN r.drafts : r.drafts[k].fresh => studentState[r.drafts[k].student] = NoState
    BY <1>4, <1>6 DEF Books, StillFresh
  <2>5. \A k \in DOMAIN rec.drafts : (k \in DOMAIN r.drafts /\ rec.drafts[k] = r.drafts[k]) \/ rec.drafts[k] = d
    <3>1. r.drafts \in Seq(Drafts)
      BY DEF RequestRows
    <3>2. QED
      BY <1>4, <3>1
  <2>6. \A k \in DOMAIN rec.drafts : rec.drafts[k].fresh => studentState[rec.drafts[k].student] = NoState
    BY <1>5, <2>4, <2>5
  <2>7. StillFresh(rec)'
    BY <1>2, <1>4, <2>3, <2>6 DEF StillFresh
  <2>8. QED
    BY <2>1, <2>2, <2>7 DEF Books
<1>7. Working(o) /\ rec.pc # "dead" /\ rec.pc # "idle"
  BY <1>4 DEF Working
<1>8. QED
  BY <1>2, <1>4, <1>6, <1>7, BooksStep

LEMMA BatchBooks ==
  ASSUME BooksInv, ChargeInv', NEW o \in Operators, CreateBatch(o)
  PROVE  BooksInv'
<1>1. TypeInv /\ TypeInv'
  BY DEF BooksInv, ChargeInv
<1>2. UNCHANGED <<studentState, payerState, charges, paying, matched, ledger>> /\ Continue
  BY <1>1, BatchedLemma DEF paying
<1>3. ASSUME Moves(o, Idle), request[o].pc = "batch"
      PROVE  BooksInv'
  <2>1. Idle \in RequestRows /\ Idle.pc = "idle"
    BY IdleLemma
  <2>2. PICK r \in RequestRows : r = request[o] /\ r.pc = "batch"
    BY <1>1, <1>3 DEF TypeInv, RequestInv
  <2>3. Working(o)
    BY <1>3 DEF Working
  <2>4. QED
    BY <1>2, <1>3, <2>1, <2>2, <2>3, BooksRest
<1>4. ASSUME NEW r \in RequestRows, NEW rec \in RequestRows, NEW b \in BatchRows, NEW n \in Nat, Batched(o, r, rec, b, n)
      PROVE  BooksInv'
  <2>1. /\ r = request[o] /\ Moves(o, rec) /\ r.pc = "batch" /\ rec.pc = "charge" /\ rec.i = 1
        /\ rec.drafts = r.drafts /\ rec.freshCards = r.freshCards
    BY <1>4 DEF Batched, Charger
  <2>2. ASSUME Books(r)
        PROVE  Books(rec)'
    <3>1. PayPart(rec)'
      BY <1>2, <2>1, <2>2, PayStill DEF Books, OnPayment, MatchPosts
    <3>2. ~Unsettled(r) /\ ~Unsettled(rec) /\ ~ChargePosts(r) /\ ~ChargePosts(rec) /\ rec.pc # "insert"
      BY <2>1 DEF Unsettled, MatchPosts, ChargePosts
    <3>3. Unposted(r) = {}
      BY <2>1, <3>2, NothingPosts
    <3>4. \A k \in DOMAIN rec.drafts : ~(k < rec.i)
      <4>1. \A k \in DOMAIN rec.drafts : k \in Nat \ {0}
        <5>1. rec.drafts \in Seq(Drafts)
          BY DEF RequestRows
        <5>2. QED
          BY <5>1
      <4>2. QED
        BY <2>1, <4>1
    <3>5. Unposted(rec) = {}
      BY <2>1, <3>2, <3>4 DEF Unposted
    <3>6. \A f \in Payers : Owed(rec, f) = Owed(r, f)
      BY <3>3, <3>5, NothingOwed
    <3>7. Posted(rec)'
      BY <1>1, <1>2, <2>2, <3>2, <3>6, PostedStill DEF Books
    <3>8. StillFresh(rec)'
      BY <1>2, <2>1, <2>2 DEF Books, StillFresh, OnCharges
    <3>9. QED
      BY <3>1, <3>7, <3>8 DEF Books
  <2>3. Working(o) /\ rec.pc # "dead" /\ rec.pc # "idle"
    BY <2>1 DEF Working
  <2>4. QED
    BY <1>2, <2>1, <2>2, <2>3, BooksStep
<1>5. QED
  BY <1>1, <1>3, <1>4, BatchedLemma

\* What a family owes of a draft or a charge.
Gain(d, f) == IF Student[d.student].payer = f THEN d.total ELSE 0

\* One draft more is one total more for its family.
LEMMA TotalGains ==
  ASSUME NEW ds \in Seq(Drafts), NEW K \in SUBSET DOMAIN ds, NEW k \in DOMAIN ds, k \notin K, NEW f
  PROVE  TotalOf(ds, K \cup {k}, f) = TotalOf(ds, K, f) + Gain(ds[k], f) /\ Gain(ds[k], f) \in Nat
<1>1. PICK totals : totals = [j \in DOMAIN ds |-> ds[j].total]
  OBVIOUS
<1>2. ds[k].total \in Nat /\ totals[k] = ds[k].total
  <2>1. ds[k] \in Drafts
    OBVIOUS
  <2>2. QED
    BY <1>1, <2>1 DEF Drafts
<1>3. TotalOf(ds, K, f) \in Nat
  BY DraftsLemma
<1>4. CASE Student[ds[k].student].payer = f
  <2>1. PlacesOf(ds, K \cup {k}, f) = PlacesOf(ds, K, f) \cup {k} /\ k \notin PlacesOf(ds, K, f)
    BY <1>4 DEF PlacesOf
  <2>2. PlacesOf(ds, K \cup {k}, f) \in SUBSET DOMAIN ds /\ IsFiniteSet(PlacesOf(ds, K \cup {k}, f))
    <3>1. K \cup {k} \in SUBSET DOMAIN ds
      OBVIOUS
    <3>2. QED
      BY <3>1, DraftsLemma DEF PlacesOf
  <2>3. Summable(totals, PlacesOf(ds, K, f) \cup {k})
    <3>1. \A j \in DOMAIN ds : totals[j] \in Int
      <4>1. \A j \in DOMAIN ds : ds[j] \in Drafts
        OBVIOUS
      <4>2. QED
        BY <1>1, <4>1 DEF Drafts
    <3>2. QED
      BY <2>1, <2>2, <3>1 DEF Summable
  <2>4. SumFunctionOnSet(totals, PlacesOf(ds, K, f) \cup {k}) = totals[k] + SumFunctionOnSet(totals, PlacesOf(ds, K, f))
    BY <2>1, <2>3, SumAdd
  <2>5. TotalOf(ds, K \cup {k}, f) = ds[k].total + TotalOf(ds, K, f)
    BY <1>1, <1>2, <2>1, <2>4 DEF TotalOf
  <2>6. QED
    BY <1>2, <1>3, <1>4, <2>5 DEF Gain
<1>5. CASE Student[ds[k].student].payer # f
  <2>1. PlacesOf(ds, K \cup {k}, f) = PlacesOf(ds, K, f)
    BY <1>5 DEF PlacesOf
  <2>2. QED
    BY <1>3, <1>5, <2>1 DEF TotalOf, Gain
<1>6. QED
  BY <1>4, <1>5

\* One charge more is one total more in the balance of its family.
LEMMA BalanceGains ==
  ASSUME TypeInv, TypeInv', NEW c \in ChargeRows, c \notin charges, charges' = charges \cup {c}, UNCHANGED matched,
         NEW f \in Payers
  PROVE  Balance(f)' = Balance(f) + Gain(c, f)
<1>1. PICK totals : totals = [e \in charges |-> e.total]
  OBVIOUS
<1>2. PICK all : all = [e \in charges \cup {c} |-> e.total]
  OBVIOUS
<1>3. PICK mine : mine = ChargesOf(f)
  OBVIOUS
<1>4. Paid(f)' = Paid(f)
  BY DEF Paid
<1>5. Charged(f) \in Nat /\ Paid(f) \in Nat /\ IsFiniteSet(mine) /\ mine \in SUBSET charges
  BY <1>3, BalanceLemma DEF TypeInv
<1>6. c.total \in Nat
  BY DEF ChargeRows
<1>7. \A e \in charges : totals[e] \in Nat /\ all[e] = totals[e]
  BY <1>1, <1>2 DEF TypeInv, TablesInv, ChargeRows
<1>8. Charged(f) = SumFunctionOnSet(totals, mine)
  BY <1>1, <1>3 DEF Charged
<1>9. SumFunctionOnSet(all, mine) = SumFunctionOnSet(totals, mine)
  <2>1. Summable(all, mine) /\ Summable(totals, mine)
    BY <1>5, <1>7 DEF Summable
  <2>2. QED
    BY <1>5, <1>7, <2>1, SumSame
<1>10. CASE Student[c.student].payer = f
  <2>1. ChargesOf(f)' = mine \cup {c} /\ c \notin mine
    BY <1>3, <1>10 DEF ChargesOf
  <2>2. Charged(f)' = SumFunctionOnSet(all, mine \cup {c})
    BY <1>2, <2>1 DEF Charged
  <2>3. Summable(all, mine \cup {c}) /\ all[c] = c.total
    <3>1. IsFiniteSet(mine \cup {c})
      BY <1>5, FS_AddElement
    <3>2. all[c] = c.total
      BY <1>2
    <3>3. QED
      BY <1>5, <1>6, <1>7, <3>1, <3>2 DEF Summable
  <2>4. SumFunctionOnSet(all, mine \cup {c}) = all[c] + SumFunctionOnSet(all, mine)
    BY <2>1, <2>3, SumAdd
  <2>5. Charged(f)' = c.total + Charged(f)
    BY <1>8, <1>9, <2>2, <2>3, <2>4
  <2>6. QED
    BY <1>4, <1>5, <1>6, <1>10, <2>5 DEF Balance, Gain
<1>11. CASE Student[c.student].payer # f
  <2>1. ChargesOf(f)' = mine
    BY <1>3, <1>11 DEF ChargesOf
  <2>2. Charged(f)' = Charged(f)
    BY <1>2, <1>8, <1>9, <2>1 DEF Charged
  <2>3. QED
    BY <1>4, <1>5, <1>11, <2>2 DEF Balance, Gain
<1>12. QED
  BY <1>10, <1>11

LEMMA CreateBooks ==
  ASSUME BooksInv, ChargeInv', NEW o \in Operators, CreateCharge(o)
  PROVE  BooksInv'
<1>1. TypeInv /\ TypeInv' /\ ChargeInv
  BY DEF BooksInv, ChargeInv
<1>2. UNCHANGED <<studentState, payerState, paying, matched, ledger>> /\ Continue
  BY <1>1, ChargesLemma DEF paying
<1>3. PICK r \in RequestRows, rec \in RequestRows, d \in Drafts, c \in ChargeRows : Charges1(o, r, rec, d, c)
  BY <1>1, ChargesLemma
<1>4. /\ r = request[o] /\ Moves(o, rec) /\ r.pc = "charge" /\ GoesOn(r, rec, "student")
      /\ d = r.drafts[r.i] /\ charges' = charges \cup {c}
  BY <1>3 DEF Charges1, Charger
<1>5. rec.pc \in {"charge", "student"} /\ rec.drafts = r.drafts /\ rec.freshCards = r.freshCards
  BY <1>4 DEF GoesOn
<1>6. PICK ds \in Seq(Drafts), i \in Nat : ds = r.drafts /\ i = r.i /\ i \in DOMAIN ds
  BY <1>3, <1>4 DEF Charges1, Charger, StageOK, ChargeStage, RequestRows
<1>7. DOMAIN ds = 1..Len(ds) /\ Len(ds) \in Nat
  OBVIOUS
<1>8. Unposted(r) = {k \in DOMAIN ds : k < i}
  BY <1>4, <1>6 DEF Unposted, ChargePosts
<1>9. Unposted(rec) = Unposted(r) \cup {i}
  <2>1. CASE i < Len(ds)
    <3>1. rec.pc = "charge" /\ rec.i = i + 1
      BY <1>4, <1>6, <2>1 DEF GoesOn
    <3>2. Unposted(rec) = {k \in DOMAIN ds : k < i + 1}
      BY <1>5, <1>6, <3>1 DEF Unposted, ChargePosts
    <3>3. QED
      BY <1>6, <1>7, <1>8, <3>2
  <2>2. CASE ~(i < Len(ds))
    <3>1. rec.pc = "student"
      BY <1>4, <1>6, <2>2 DEF GoesOn
    <3>2. Unposted(rec) = DOMAIN ds
      BY <1>5, <1>6, <3>1 DEF Unposted, ChargePosts
    <3>3. QED
      BY <1>6, <1>7, <1>8, <2>2, <3>2
  <2>3. QED
    BY <2>1, <2>2
<1>10. PICK K \in SUBSET DOMAIN ds : K = Unposted(r) /\ i \notin K /\ Unposted(rec) = K \cup {i}
  BY <1>6, <1>8, <1>9
<1>11. c.student = d.student /\ c.total = d.total /\ c \notin charges
  BY <1>1, <1>3, NewChargeLemma
<1>12. ASSUME Books(r)
       PROVE  Books(rec)'
  <2>1. PayPart(rec)'
    BY <1>2, <1>4, <1>5, <1>12, PayStill DEF Books, OnPayment, MatchPosts
  <2>2. Posted(rec)'
    <3> SUFFICES ASSUME NEW f \in Payers
                 PROVE  /\ ledger[f].after = ledger[f].posted
                        /\ ledger[f].posted + Owed(rec, f) - Returned(rec, f) = Balance(f)'
      BY <1>2, <1>5 DEF Posted, Owed, Returned, TotalOf, PlacesOf, Unposted, ChargePosts, Unsettled, MatchPosts
    <3>1. PICK gain \in Nat : gain = Gain(d, f)
      BY DEF Drafts, Gain
    <3>2. Balance(f)' = Balance(f) + gain
      <4>1. Balance(f)' = Balance(f) + Gain(c, f)
        BY <1>1, <1>2, <1>4, <1>11, BalanceGains
      <4>2. QED
        BY <1>11, <3>1, <4>1 DEF Gain
    <3>3. Owed(rec, f) = Owed(r, f) + gain
      <4>1. i \in DOMAIN ds /\ ds[i] = d
        BY <1>4, <1>6
      <4>2. TotalOf(ds, K \cup {i}, f) = TotalOf(ds, K, f) + Gain(ds[i], f)
        BY <1>10, <4>1, TotalGains
      <4>3. QED
        BY <1>5, <1>6, <1>10, <3>1, <4>1, <4>2 DEF Owed
    <3>4. Returned(r, f) = 0 /\ Returned(rec, f) = 0
      BY <1>4, <1>5 DEF Returned, Unsettled, MatchPosts
    <3>5. ledger[f].after = ledger[f].posted /\ ledger[f].posted + Owed(r, f) - 0 = Balance(f)
      BY <1>12, <3>4 DEF Books, Posted
    <3>6. Owed(r, f) \in Nat /\ ledger[f].posted \in Int
      BY <1>1, OwedLemma DEF TypeInv, TablesInv, LedgerRows
    <3>7. QED
      BY <3>2, <3>3, <3>4, <3>5, <3>6
  <2>3. \A k \in DOMAIN r.drafts : r.drafts[k].fresh => studentState[r.drafts[k].student] = NoState
    BY <1>4, <1>12 DEF Books, StillFresh
  <2>4. \A g \in r.freshCards : payerState[g] = NoState
    BY <1>4, <1>12 DEF Books, StillFresh, OnCharges
  <2>5. StillFresh(rec)'
    BY <1>2, <1>5, <2>3, <2>4 DEF StillFresh
  <2>6. QED
    BY <2>1, <2>2, <2>5 DEF Books
<1>13. Working(o) /\ rec.pc # "dead" /\ rec.pc # "idle"
  BY <1>4, <1>5 DEF Working
<1>14. QED
  BY <1>2, <1>4, <1>12, <1>13, BooksStep

LEMMA SaveBooks ==
  ASSUME BooksInv, ChargeInv', NEW o \in Operators, SaveStudent(o)
  PROVE  BooksInv'
<1>1. TypeInv /\ TypeInv' /\ ChargeInv
  BY DEF BooksInv, ChargeInv
<1>2. UNCHANGED <<charges, payerState, paying, matched, ledger>> /\ Continue
  BY <1>1, SavesLemma DEF paying
<1>3. ASSUME NEW r \in RequestRows, NEW d \in Drafts, Refused(o, r, d)
      PROVE  BooksInv'
  <2>1. /\ r = request[o] /\ r.pc = "student" /\ r.i \in DOMAIN r.drafts /\ r.i \in Nat /\ d = r.drafts[r.i]
        /\ d.fresh /\ studentState[d.student] # NoState /\ Moves(o, Idle)
    BY <1>3 DEF Refused, RequestRows
  <2>2. ~Books(r)
    BY <2>1 DEF Books, StillFresh
  <2>3. Working(o) /\ Idle \in RequestRows /\ Idle.pc = "idle"
    BY <2>1, IdleLemma DEF Working
  <2>4. QED
    BY <1>2, <2>1, <2>2, <2>3, BooksStep
<1>4. ASSUME NEW r \in RequestRows, NEW rec \in RequestRows, NEW d \in Drafts, Saves(o, r, rec, d)
      PROVE  BooksInv'
  <2>1. /\ r = request[o] /\ Moves(o, rec) /\ r.pc = "student" /\ rec.drafts = r.drafts
        /\ rec.freshCards = r.freshCards /\ rec.cards = r.cards /\ d = r.drafts[r.i]
        /\ rec.pc \in {"student", "payer", "balance"}
    BY <1>4 DEF Saves, Charger, GoesOn
  <2>2. PICK i \in Nat : i = r.i /\ i \in DOMAIN r.drafts
    BY <1>4 DEF Saves, Charger, StageOK, ChargeStage, RequestRows
  <2>3. /\ rec.pc = "student" => rec.i = i + 1
        /\ rec.pc = "payer" => DOMAIN r.cards # {}
    BY <1>4, <2>2 DEF Saves, GoesOn
  <2>4. DraftsOnce(r)
    BY <1>1, <2>1 DEF ChargeInv, Rostered
  <2>5. ASSUME Books(r)
        PROVE  Books(rec)'
    <3>1. PayPart(rec)'
      BY <1>2, <2>1, <2>5, PayStill DEF Books, OnPayment, MatchPosts
    <3>2. ~Unsettled(r) /\ ~Unsettled(rec) /\ ~ChargePosts(r) /\ ~ChargePosts(rec) /\ rec.pc # "insert"
      BY <2>1 DEF Unsettled, MatchPosts, ChargePosts
    <3>3. Unposted(rec) = Unposted(r)
      BY <2>1, <3>2 DEF Unposted
    <3>4. \A f \in Payers : Owed(rec, f) = Owed(r, f)
      BY <2>1, <3>3 DEF Owed
    <3>5. Posted(rec)'
      BY <1>1, <1>2, <2>5, <3>2, <3>4, PostedStill DEF Books
    <3>6. ASSUME NEW k \in DOMAIN r.drafts, r.drafts[k].fresh, rec.pc = "student", k >= rec.i
          PROVE  studentState'[r.drafts[k].student] = NoState
      <4>1. k \in Nat /\ k # i /\ k >= i
        <5>1. r.drafts \in Seq(Drafts) /\ k \in DOMAIN r.drafts
          BY DEF RequestRows
        <5>2. k \in Nat
          BY <5>1
        <5>3. QED
          BY <2>2, <2>3, <3>6, <5>2
      <4>2. studentState[r.drafts[k].student] = NoState
        BY <2>1, <2>2, <2>5, <3>6, <4>1 DEF Books, StillFresh
      <4>3. r.drafts[k].student # d.student
        BY <2>1, <2>2, <2>4, <4>1 DEF DraftsOnce
      <4>4. studentState' = [studentState EXCEPT ![d.student] = [intro |-> d.introLeft, sibling |-> d.siblingLeft]]
        BY <1>4 DEF Saves
      <4>5. QED
        BY <4>2, <4>3, <4>4
    <3>7. \A g \in r.freshCards : payerState[g] = NoState
      BY <2>1, <2>5 DEF Books, StillFresh, OnCharges
    <3>8. StillFresh(rec)'
      BY <1>2, <2>1, <3>6, <3>7 DEF StillFresh
    <3>9. QED
      BY <3>1, <3>5, <3>8 DEF Books
  <2>6. Working(o) /\ rec.pc # "dead" /\ rec.pc # "idle"
    BY <2>1 DEF Working
  <2>7. QED
    BY <1>2, <2>1, <2>5, <2>6, BooksStep
<1>5. QED
  BY <1>1, <1>3, <1>4, SavesLemma

LEMMA SaveCardBooks ==
  ASSUME BooksInv, ChargeInv', NEW o \in Operators, SavePayer(o)
  PROVE  BooksInv'
<1>1. TypeInv /\ TypeInv'
  BY DEF BooksInv, ChargeInv
<1>2. UNCHANGED <<charges, studentState, paying, matched, ledger>> /\ Continue
  BY <1>1, SavesCardLemma DEF paying
<1>3. ASSUME NEW r \in RequestRows, NEW f \in Payers, RefusedCard(o, r, f)
      PROVE  BooksInv'
  <2>1. /\ r = request[o] /\ r.pc = "payer" /\ f \in DOMAIN r.cards
        /\ f \in r.freshCards /\ payerState[f] # NoState /\ Moves(o, Idle)
    BY <1>3 DEF RefusedCard
  <2>2. ~Books(r)
    BY <2>1 DEF Books, StillFresh, OnCharges
  <2>3. Working(o) /\ Idle \in RequestRows /\ Idle.pc = "idle"
    BY <2>1, IdleLemma DEF Working
  <2>4. QED
    BY <1>2, <2>1, <2>2, <2>3, BooksStep
<1>4. ASSUME NEW r \in RequestRows, NEW rec \in RequestRows, NEW f \in Payers, SavesCard(o, r, rec, f)
      PROVE  BooksInv'
  <2>1. /\ r = request[o] /\ Moves(o, rec) /\ r.pc = "payer" /\ rec.drafts = r.drafts
        /\ rec.freshCards = r.freshCards /\ DOMAIN rec.cards = DOMAIN r.cards \ {f}
        /\ rec.pc \in {"payer", "balance"} /\ payerState' = [payerState EXCEPT ![f] = r.cards[f]]
    BY <1>4 DEF SavesCard, Charger
  <2>2. ASSUME Books(r)
        PROVE  Books(rec)'
    <3>1. PayPart(rec)'
      BY <1>2, <2>1, <2>2, PayStill DEF Books, OnPayment, MatchPosts
    <3>2. ~Unsettled(r) /\ ~Unsettled(rec) /\ ~ChargePosts(r) /\ ~ChargePosts(rec) /\ rec.pc # "insert"
      BY <2>1 DEF Unsettled, MatchPosts, ChargePosts
    <3>3. Unposted(rec) = Unposted(r)
      BY <2>1, <3>2 DEF Unposted
    <3>4. \A g \in Payers : Owed(rec, g) = Owed(r, g)
      BY <2>1, <3>3 DEF Owed
    <3>5. Posted(rec)'
      BY <1>1, <1>2, <2>2, <3>2, <3>4, PostedStill DEF Books
    <3>6. \A g \in r.freshCards : g \in DOMAIN r.cards => payerState[g] = NoState
      BY <2>1, <2>2 DEF Books, StillFresh, OnCharges
    <3>7. \A g \in r.freshCards : g \in DOMAIN rec.cards => payerState'[g] = NoState
      BY <2>1, <3>6
    <3>8. StillFresh(rec)'
      BY <2>1, <3>7 DEF StillFresh, OnCharges
    <3>9. QED
      BY <3>1, <3>5, <3>8 DEF Books
  <2>3. Working(o) /\ rec.pc # "dead" /\ rec.pc # "idle"
    BY <2>1 DEF Working
  <2>4. QED
    BY <1>2, <2>1, <2>2, <2>3, BooksStep
<1>5. QED
  BY <1>1, <1>3, <1>4, SavesCardLemma

LEMMA ReadBooks ==
  ASSUME BooksInv, ChargeInv', NEW o \in Operators, ReadBalances(o)
  PROVE  BooksInv'
<1>1. TypeInv /\ TypeInv'
  BY DEF BooksInv, ChargeInv
<1>2. UNCHANGED <<charges, studentState, payerState, paying, matched, ledger>> /\ Continue
  BY <1>1, ReadsBalancesLemma DEF charging, paying
<1>3. PICK r \in RequestRows, rec \in RequestRows : ReadsBalances(o, r, rec)
  BY <1>1, ReadsBalancesLemma
<1>4. /\ r = request[o] /\ Moves(o, rec) /\ r.pc = "balance" /\ rec.pc = "entry" /\ rec.row = NoState
      /\ r.i = 1 /\ rec.i = 1 /\ rec.drafts = r.drafts /\ DOMAIN rec.after = PayersOf(r.drafts)
  BY <1>3 DEF ReadsBalances, Charger, SameRequest, StageOK, ChargeStage
<1>5. PICK ds \in Seq(Drafts) : ds = r.drafts /\ \A k \in DOMAIN ds : k >= 1
  BY DEF RequestRows
<1>6. Unposted(r) = DOMAIN ds
  BY <1>4, <1>5 DEF Unposted, ChargePosts
<1>7. Unposted(rec) = DOMAIN ds
  BY <1>4, <1>5 DEF Unposted, ChargePosts
<1>8. \A f \in Payers : Owed(rec, f) = Owed(r, f)
  BY <1>4, <1>6, <1>7 DEF Owed
<1>9. ASSUME Books(r)
      PROVE  Books(rec)'
  <2>1. PayPart(rec)'
    BY <1>2, <1>4, <1>9, PayStill DEF Books, OnPayment, MatchPosts
  <2>2. ~Unsettled(r) /\ ~Unsettled(rec) /\ rec.pc # "insert"
    BY <1>4 DEF Unsettled, MatchPosts
  <2>3. ASSUME NEW f \in Payers \cap DOMAIN rec.after
        PROVE  rec.after[f] = ledger[f].posted
    <3>1. rec.after[f] = Balance(f) - Owed(r, f)
      <4>1. f \in PayersOf(r.drafts)
        BY <1>4
      <4>2. rec.after[f] = Balance(f) - TotalOf(r.drafts, DOMAIN r.drafts, f)
        BY <1>3, <4>1 DEF ReadsBalances
      <4>3. QED
        BY <1>5, <1>6, <4>2 DEF Owed
    <3>2. Returned(r, f) = 0
      BY <2>2 DEF Returned
    <3>3. ledger[f].posted + Owed(r, f) - 0 = Balance(f)
      BY <1>9, <3>2 DEF Books, Posted
    <3>4. ledger[f].posted \in Int /\ Owed(r, f) \in Nat
      BY <1>1, OwedLemma DEF TypeInv, TablesInv, LedgerRows
    <3>5. QED
      BY <3>1, <3>3, <3>4
  <2>4. Posted(rec)'
    BY <1>1, <1>2, <1>8, <1>9, <2>2, <2>3, PostedStill DEF Books
  <2>5. StillFresh(rec)'
    BY <1>4 DEF StillFresh, OnCharges
  <2>6. QED
    BY <2>1, <2>4, <2>5 DEF Books
<1>10. Working(o) /\ rec.pc # "dead" /\ rec.pc # "idle"
  BY <1>4 DEF Working
<1>11. QED
  BY <1>2, <1>4, <1>9, <1>10, BooksStep

LEMMA PostBooks ==
  ASSUME BooksInv, ChargeInv', NEW o \in Operators, PostCharge(o)
  PROVE  BooksInv'
<1>1. TypeInv /\ TypeInv'
  BY DEF BooksInv, ChargeInv
<1>2. UNCHANGED <<charges, studentState, payerState, paying, matched>> /\ Continue
  BY <1>1, PostsLemma DEF charging, paying
<1>3. PICK r \in RequestRows, rec \in RequestRows, f \in Payers, total \in Nat, after \in Int :
        Posts(o, r, rec, f, total, after)
  BY <1>1, PostsLemma
<1>4. /\ r = request[o] /\ Moves(o, rec) /\ ChargePosts(r) /\ r.pc = "entry" /\ r.row = NoState
      /\ f = Student[r.drafts[r.i].student].payer /\ total = r.drafts[r.i].total /\ after = r.after[f] + total
      /\ ledger' = [ledger EXCEPT ![f] = Entry(f, total, after)]
  BY <1>3 DEF Posts, Charger, ChargePosts
<1>5. PICK ds \in Seq(Drafts), i \in Nat : ds = r.drafts /\ i = r.i /\ i \in DOMAIN ds /\ DOMAIN r.after = PayersOf(ds)
  BY <1>3, <1>4 DEF Posts, Charger, StageOK, ChargeStage, RequestRows
<1>6. DOMAIN ds = 1..Len(ds) /\ Len(ds) \in Nat
  OBVIOUS
<1>7. \/ /\ i < Len(ds) /\ rec.pc = "entry" /\ rec.row = NoState /\ rec.drafts = ds /\ rec.i = i + 1
         /\ rec.after = [r.after EXCEPT ![f] = after]
      \/ i = Len(ds) /\ rec = Idle
  <2>1. CASE i < Len(ds)
    <3>1. /\ rec.pc = "entry" /\ rec.row = r.row /\ rec.drafts = r.drafts /\ rec.i = r.i + 1
          /\ rec.after = [r.after EXCEPT ![f] = after]
      BY <1>3, <1>5, <2>1, Zenon DEF Posts
    <3>2. QED
      BY <1>4, <1>5, <2>1, <3>1
  <2>2. CASE ~(i < Len(ds))
    <3>1. rec = Idle
      BY <1>3, <1>5, <2>2 DEF Posts
    <3>2. i = Len(ds)
      BY <1>5, <1>6, <2>2
    <3>3. QED
      BY <3>1, <3>2
  <2>3. QED
    BY <2>1, <2>2
<1>8. PICK K \in SUBSET DOMAIN ds : K = {k \in DOMAIN ds : k >= i + 1}
  OBVIOUS
<1>9. Unposted(r) = K \cup {i} /\ i \notin K
  <2>1. Unposted(r) = {k \in DOMAIN ds : k >= i}
    BY <1>4, <1>5 DEF Unposted
  <2>2. QED
    BY <1>5, <1>6, <1>8, <2>1
<1>10. \A g \in Payers : Owed(rec, g) = TotalOf(ds, K, g)
  <2>1. CASE rec.pc = "entry" /\ rec.row = NoState /\ rec.drafts = ds /\ rec.i = i + 1
    <3>1. Unposted(rec) = K
      BY <1>8, <2>1 DEF Unposted, ChargePosts
    <3>2. QED
      BY <2>1, <3>1 DEF Owed
  <2>2. CASE i = Len(ds) /\ rec = Idle
    <3>1. K = {}
      BY <1>6, <1>8, <2>2
    <3>2. Unposted(rec) = {}
      BY <2>2, IdleLemma, NothingPosts DEF ChargePosts
    <3>3. \A g : PlacesOf(ds, K, g) = {}
      BY <3>1 DEF PlacesOf
    <3>4. \A g : TotalOf(ds, K, g) = 0
      BY <3>3, SumNone DEF TotalOf
    <3>5. QED
      BY <3>2, <3>4, NothingOwed
  <2>3. QED
    BY <1>7, <2>1, <2>2
<1>11. ~Unsettled(r) /\ ~Unsettled(rec) /\ rec.pc # "insert" /\ ~OnPayment(r) /\ ~OnPayment(rec) /\ ~OnCharges(rec)
  BY <1>4, <1>7, IdleLemma DEF Unsettled, MatchPosts, OnPayment, OnCharges
<1>12. /\ ledger'[f] = [posted |-> ledger[f].posted + total, after |-> after]
       /\ \A g \in Payers \ {f} : ledger'[g] = ledger[g]
  <2>1. f \in Payers /\ total \in Int /\ after \in Int
    OBVIOUS
  <2>2. ledger' = [ledger EXCEPT ![f] = Entry(f, total, after)]
    BY <1>4
  <2>3. QED
    BY <1>1, <2>1, <2>2, EntryLemma
<1>13. f \in PayersOf(ds)
  BY <1>4, <1>5 DEF PayersOf
<1>14. ASSUME Books(r)
       PROVE  Books(rec)'
  <2>1. PayPart(rec)'
    BY <1>2, <1>11, <1>14, PayStill DEF Books
  <2>2. Posted(rec)'
    <3> SUFFICES ASSUME NEW g \in Payers
                 PROVE  /\ ledger'[g].after = ledger'[g].posted
                        /\ ledger'[g].posted + Owed(rec, g) - Returned(rec, g) = Balance(g)'
                        /\ (ChargePosts(rec) /\ g \in DOMAIN rec.after) => rec.after[g] = ledger'[g].posted
      BY <1>11 DEF Posted, Owed, Returned, TotalOf, PlacesOf, Unposted, ChargePosts, Unsettled, MatchPosts
    <3>1. PICK posted \in Int : posted = ledger[g].posted
      BY <1>1 DEF TypeInv, TablesInv, LedgerRows
    <3>2. Balance(g)' = Balance(g)
      BY <1>2 DEF Balance, Charged, Paid, ChargesOf
    <3>3. Returned(r, g) = 0 /\ Returned(rec, g) = 0
      BY <1>11 DEF Returned
    <3>4. /\ ledger[g].after = posted /\ posted + Owed(r, g) - 0 = Balance(g)
          /\ g \in DOMAIN r.after => r.after[g] = posted
      BY <1>4, <1>14, <3>1, <3>3 DEF Books, Posted
    <3>5. PICK gain \in Nat : gain = Gain(ds[i], g)
      BY <1>5, <1>9, TotalGains
    <3>6. Owed(r, g) = Owed(rec, g) + gain
      <4>1. TotalOf(ds, K \cup {i}, g) = TotalOf(ds, K, g) + Gain(ds[i], g)
        BY <1>5, <1>9, TotalGains
      <4>2. Owed(r, g) = TotalOf(ds, K \cup {i}, g)
        BY <1>5, <1>9 DEF Owed
      <4>3. QED
        BY <1>10, <3>5, <4>1, <4>2
    <3>7. Owed(rec, g) \in Nat
      BY OwedLemma
    <3>8. CASE g = f
      <4>1. gain = total
        BY <1>4, <1>5, <3>5, <3>8 DEF Gain
      <4>2. ledger'[g].posted = posted + total /\ ledger'[g].after = after
        BY <1>12, <3>1, <3>8
      <4>3. after = posted + total
        BY <1>4, <1>5, <1>13, <3>4, <3>8
      <4>4. (ChargePosts(rec) /\ g \in DOMAIN rec.after) => rec.after[g] = after
        <5>1. r.after \in [DOMAIN r.after -> Int]
          BY PartialLemma DEF RequestRows
        <5>2. CASE rec.after = [r.after EXCEPT ![f] = after]
          BY <1>5, <1>13, <3>8, <5>1, <5>2
        <5>3. CASE rec = Idle
          BY <5>3, IdleLemma DEF ChargePosts
        <5>4. QED
          BY <1>7, <5>2, <5>3
      <4>5. posted + total + Owed(rec, g) - 0 = Balance(g)
        BY <3>4, <3>6, <3>7, <4>1
      <4>6. QED
        BY <3>2, <3>3, <4>2, <4>3, <4>4, <4>5
    <3>9. CASE g # f
      <4>1. gain = 0
        BY <1>4, <1>5, <3>5, <3>9 DEF Gain
      <4>2. ledger'[g].posted = posted /\ ledger'[g].after = posted
        BY <1>12, <3>1, <3>4, <3>9
      <4>3. (ChargePosts(rec) /\ g \in DOMAIN rec.after) => rec.after[g] = posted
        <5>1. r.after \in [DOMAIN r.after -> Int]
          BY PartialLemma DEF RequestRows
        <5>2. CASE rec.after = [r.after EXCEPT ![f] = after]
          BY <3>4, <3>9, <5>1, <5>2
        <5>3. CASE rec = Idle
          BY <5>3, IdleLemma DEF ChargePosts
        <5>4. QED
          BY <1>7, <5>2, <5>3
      <4>4. posted + Owed(rec, g) - 0 = Balance(g)
        BY <3>4, <3>6, <3>7, <4>1
      <4>5. QED
        BY <3>2, <3>3, <4>2, <4>3, <4>4
    <3>10. QED
      BY <3>8, <3>9
  <2>3. StillFresh(rec)'
    BY <1>7, <1>11, IdleLemma DEF StillFresh, OnCharges
  <2>4. QED
    BY <2>1, <2>2, <2>3 DEF Books
<1>15. Working(o) /\ rec.pc # "dead" /\ (rec.pc = "idle" => rec = Idle)
  BY <1>4, <1>7, IdleLemma DEF Working
<1>16. QED
  BY <1>2, <1>4, <1>14, <1>15, BooksStep

\* Between two matches nothing but the imports is on its way.
LEMMA SettledStill ==
  ASSUME UNCHANGED matched, \A row \in Rows : transaction'[row].status = transaction[row].status,
         NEW r, Settled(r), r.pc \notin {"insert", "status"}, NEW rec, rec.pc \notin {"insert", "status"}
  PROVE  Settled(rec)'
<1>1. \A row \in Rows : StatusOf(row, MatchedOf(row))' = StatusOf(row, MatchedOf(row))
  BY DEF StatusOf, MatchedOf
<1>2. QED
  BY <1>1 DEF Settled

LEMMA ImportsStill ==
  ASSUME UNCHANGED imports, NEW r, ImportsEnd(r), NEW rec, OnPayment(rec), rec.import = r.import,
         rec.pc = "store" => ~transaction'[rec.row].stored
  PROVE  ImportsEnd(rec)'
BY DEF ImportsEnd, OnPayment, MatchPosts

\* A step of a payment between two matches.
LEMMA PaymentBooks ==
  ASSUME BooksInv, ChargeInv', UNCHANGED <<charges, matched, ledger>>, NEW o \in Operators,
         NEW r \in RequestRows, r = request[o], NEW rec \in RequestRows, Moves(o, rec),
         \A row \in Rows : transaction'[row].status = transaction[row].status,
         r.pc \in {"idle", "refuse", "row", "store", "auto"}, rec.pc \in {"idle", "refuse", "row", "store", "auto"},
         rec.pc = "idle" => rec = Idle, Begin(o) \/ (Continue /\ Working(o)),
         ImportsEnd(r) => ImportsEnd(rec)'
  PROVE  BooksInv'
<1>1. TypeInv
  BY DEF BooksInv, ChargeInv
<1>2. ASSUME Books(r)
      PROVE  Books(rec)'
  <2>1. Settled(rec)'
    BY <1>2, SettledStill DEF Books, PayPart
  <2>2. Posted(rec)'
    BY <1>1, <1>2, NothingToPost DEF Books
  <2>3. StillFresh(rec)'
    BY DEF StillFresh, OnCharges
  <2>4. QED
    BY <1>2, <2>1, <2>2, <2>3 DEF Books, PayPart
<1>3. rec.pc # "dead"
  OBVIOUS
<1>4. QED
  BY <1>2, <1>3, BooksStep

LEMMA ImportBooks ==
  ASSUME BooksInv, ChargeInv', NEW o \in Operators, NEW k \in DOMAIN Statements, ImportStatement(o, k)
  PROVE  BooksInv'
<1>1. TypeInv /\ TypeInv'
  BY DEF BooksInv, ChargeInv
<1>2. UNCHANGED <<charges, transaction, matched, ledger>> /\ Begin(o)
  BY <1>1, ImportsLemma DEF charging
<1>3. PICK rec \in RequestRows, n \in Nat : Imports(o, rec, n, k)
  BY <1>1, ImportsLemma
<1>4. /\ Moves(o, rec) /\ rec.pc \in {"refuse", "row"} /\ rec.import = n
      /\ n = Len(imports) + 1 /\ imports' = Append(imports, NewImport(k))
  BY <1>3 DEF Imports
<1>5. PICK r \in RequestRows : r = request[o] /\ r.pc = "idle"
  BY <1>1, <1>2 DEF TypeInv, RequestInv, Begin
<1>6. ASSUME ImportsEnd(r)
      PROVE  ImportsEnd(rec)'
  <2>1. \A j \in DOMAIN imports : imports[j].status # "przetwarzany"
    BY <1>5, <1>6 DEF ImportsEnd, OnPayment, MatchPosts
  <2>2. \A j \in DOMAIN imports' : (j \in DOMAIN imports /\ imports'[j] = imports[j]) \/ j = n
    <3>1. imports \in Seq(ImportRows)
      BY <1>1 DEF TypeInv, TablesInv
    <3>2. QED
      BY <1>4, <3>1
  <2>3. OnPayment(rec) /\ rec.pc # "store"
    BY <1>4 DEF OnPayment
  <2>4. \A j \in DOMAIN imports' : imports'[j].status = "przetwarzany" => rec.import = j
    BY <1>4, <2>1, <2>2
  <2>5. QED
    BY <2>3, <2>4 DEF ImportsEnd, OnPayment, MatchPosts
<1>7. QED
  BY <1>2, <1>4, <1>5, <1>6, PaymentBooks

LEMMA EndBooks ==
  ASSUME BooksInv, ChargeInv', NEW o \in Operators, FinishImport(o) \/ RefuseImport(o)
  PROVE  BooksInv'
<1>1. TypeInv /\ TypeInv'
  BY DEF BooksInv, ChargeInv
<1>2. UNCHANGED <<charges, transaction, matched, ledger>> /\ Continue
  BY <1>1, EndsImportLemma DEF charging
<1>3. PICK r \in RequestRows, status \in {"zaimportowany", "blad"}, n \in DOMAIN imports : EndsImport(o, r, n, status)
  BY <1>1, EndsImportLemma
<1>4. /\ r = request[o] /\ r.pc \in {"refuse", "row"} /\ n = r.import /\ Moves(o, Idle)
      /\ imports' = [imports EXCEPT ![n].status = status]
  BY <1>3 DEF EndsImport
<1>5. Idle \in RequestRows /\ Idle.pc = "idle"
  BY IdleLemma
<1>6. ASSUME ImportsEnd(r)
      PROVE  ImportsEnd(Idle)'
  <2>1. \A j \in DOMAIN imports : j # n => imports[j].status # "przetwarzany"
    BY <1>4, <1>6 DEF ImportsEnd
  <2>2. imports \in Seq(ImportRows)
    BY <1>1 DEF TypeInv, TablesInv
  <2>3. DOMAIN imports' = DOMAIN imports /\ \A j \in DOMAIN imports : j # n => imports'[j] = imports[j]
    BY <1>4, <2>2
  <2>4. imports'[n].status # "przetwarzany"
    <3>1. imports[n] \in ImportRows
      BY <2>2
    <3>2. imports'[n] = [imports[n] EXCEPT !.status = status]
      BY <1>4, <2>2
    <3>3. QED
      BY <3>1, <3>2 DEF ImportRows
  <2>5. \A j \in DOMAIN imports' : imports'[j].status # "przetwarzany"
    BY <2>1, <2>3, <2>4
  <2>6. QED
    BY <1>5, <2>5 DEF ImportsEnd
<1>7. Working(o)
  BY <1>4 DEF Working
<1>8. QED
  BY <1>2, <1>4, <1>5, <1>6, <1>7, PaymentBooks

LEMMA LookBooks ==
  ASSUME BooksInv, ChargeInv', NEW o \in Operators, LookUpRow(o)
  PROVE  BooksInv'
<1>1. TypeInv /\ TypeInv'
  BY DEF BooksInv, ChargeInv
<1>2. UNCHANGED <<charges, imports, transaction, matched, ledger>> /\ Continue
  BY <1>1, LooksLemma DEF charging, paying
<1>3. PICK r \in RequestRows, rec \in RequestRows, row \in Rows : Looks(o, r, rec, row)
  BY <1>1, LooksLemma
<1>4. r = request[o] /\ Moves(o, rec) /\ r.pc = "row"
  BY <1>3 DEF Looks, Charger
<1>5. rec.pc \in {"row", "store"} /\ rec.import = r.import /\ (rec.pc = "store" => ~transaction'[rec.row].stored)
  BY <1>2, <1>3 DEF Looks, TakesNext
<1>6. OnPayment(rec)
  BY <1>5 DEF OnPayment
<1>7. ImportsEnd(r) => ImportsEnd(rec)'
  BY <1>2, <1>5, <1>6, ImportsStill
<1>8. Working(o) /\ rec.pc # "idle" /\ rec.pc \in {"idle", "refuse", "row", "store", "auto"}
  BY <1>4, <1>5 DEF Working
<1>9. QED
  BY <1>2, <1>4, <1>7, <1>8, PaymentBooks

LEMMA StoreBooks ==
  ASSUME BooksInv, ChargeInv', NEW o \in Operators, StoreRow(o)
  PROVE  BooksInv'
<1>1. TypeInv /\ TypeInv'
  BY DEF BooksInv, ChargeInv
<1>2. UNCHANGED <<charges, imports, matched, ledger>> /\ Continue
  BY <1>1, StoresLemma DEF charging
<1>3. ASSUME Moves(o, Idle), UNCHANGED transaction, request[o].pc = "store", transaction[request[o].row].stored
      PROVE  BooksInv'
  <2>1. PICK r \in RequestRows : r = request[o] /\ r.pc = "store" /\ transaction[r.row].stored
    BY <1>1, <1>3 DEF TypeInv, RequestInv
  <2>2. ~ImportsEnd(r)
    BY <2>1 DEF ImportsEnd
  <2>3. Working(o) /\ Idle \in RequestRows /\ Idle.pc = "idle"
    BY <2>1, IdleLemma DEF Working
  <2>4. QED
    BY <1>2, <1>3, <2>1, <2>2, <2>3, PaymentBooks
<1>4. ASSUME NEW r \in RequestRows, NEW rec \in RequestRows, Stores(o, r, rec)
      PROVE  BooksInv'
  <2>1. /\ r = request[o] /\ Moves(o, rec) /\ r.pc = "store" /\ r.row \in Rows
        /\ transaction' = [transaction EXCEPT ![r.row].stored = TRUE]
    BY <1>4 DEF Stores, Charger, AtRow
  <2>2. rec.pc \in {"row", "auto"} /\ rec.import = r.import
    BY <1>4 DEF Stores, TakesNext
  <2>3. \A row \in Rows : transaction'[row].status = transaction[row].status
    <3>1. transaction \in [Rows -> TransactionRows]
      BY <1>1 DEF TypeInv, TablesInv
    <3>2. QED
      BY <2>1, <3>1 DEF TransactionRows
  <2>4. OnPayment(rec) /\ rec.pc # "store"
    BY <2>2 DEF OnPayment
  <2>5. ImportsEnd(r) => ImportsEnd(rec)'
    BY <1>2, <2>2, <2>4, ImportsStill
  <2>6. Working(o) /\ rec.pc # "idle" /\ rec.pc \in {"idle", "refuse", "row", "store", "auto"}
    BY <2>1, <2>2 DEF Working
  <2>7. QED
    BY <1>2, <2>1, <2>3, <2>5, <2>6, PaymentBooks
<1>5. QED
  BY <1>1, <1>3, <1>4, StoresLemma

\* A match begins: what the request takes for the balance and for the status is what they come to.
LEMMA MatchBegins ==
  ASSUME TypeInv, UNCHANGED <<charges, paying, matched, ledger>>, NEW r \in RequestRows, Books(r),
         r.pc \in {"idle", "auto"}, NEW row \in Rows, NEW f \in Payers, NEW amount \in Nat \ {0},
         NEW rec \in RequestRows, Matches(rec, r, row, f, amount)
  PROVE  Books(rec)'
<1>1. /\ rec.pc = "insert" /\ rec.row = row /\ rec.payer = f /\ rec.amount = amount
      /\ DOMAIN rec.after = {f} /\ rec.after[f] = Balance(f) - amount /\ rec.import = r.import
      /\ rec.status = IF MatchedOf(row) + amount >= Absolute(Row[row].amount)
                      THEN "rozliczona" ELSE "czesciowo_rozliczona"
  BY DEF Matches
<1>2. UNCHANGED <<imports, transaction>>
  BY DEF paying
<1>3. \A x \in Rows : MatchedOf(x)' = MatchedOf(x)
  BY DEF MatchedOf
<1>4. ImportsEnd(rec)'
  <2>1. OnPayment(rec)
    BY <1>1 DEF OnPayment
  <2>2. QED
    BY <1>1, <1>2, <2>1, ImportsStill DEF Books, PayPart
<1>5. Settled(rec)'
  <2>1. MatchedOf(row) \in Nat
    BY MatchedLemma DEF TypeInv
  <2>2. rec.status = StatusOf(row, MatchedOf(row) + amount)
    BY <1>1, <2>1 DEF StatusOf
  <2>3. \A x \in Rows : transaction[x].status = StatusOf(x, MatchedOf(x))
    BY DEF Books, PayPart, Settled
  <2>4. QED
    BY <1>1, <1>2, <1>3, <2>2, <2>3 DEF Settled, StatusOf
<1>6. Posted(rec)'
  <2>1. ~Unsettled(r) /\ ~Unsettled(rec) /\ ~ChargePosts(r) /\ ~ChargePosts(rec)
    BY <1>1 DEF Unsettled, MatchPosts, ChargePosts
  <2>2. Unposted(r) = {} /\ Unposted(rec) = {}
    BY <1>1, <2>1, NothingPosts
  <2>3. \A g : Owed(r, g) = 0 /\ Owed(rec, g) = 0
    BY <2>2, NothingOwed
  <2>4. \A g \in Payers : Returned(r, g) = 0 /\ Returned(rec, g) = 0
    BY <2>1 DEF Returned
  <2>5. ASSUME NEW g \in Payers
        PROVE  ledger[g].after = ledger[g].posted /\ ledger[g].posted = Balance(g)
    <3>1. ledger[g].posted \in Int
      BY DEF TypeInv, TablesInv, LedgerRows
    <3>2. ledger[g].after = ledger[g].posted /\ ledger[g].posted + 0 - 0 = Balance(g)
      BY <2>3, <2>4 DEF Books, Posted
    <3>3. QED
      BY <3>1, <3>2
  <2>6. ASSUME NEW g \in Payers
        PROVE  Balance(g)' = Balance(g) /\ Balance(g) \in Int
    BY BalanceLemma DEF Balance, Charged, Paid, ChargesOf, TypeInv
  <2>7. SUFFICES ASSUME NEW g \in Payers
                 PROVE  /\ ledger'[g].after = ledger'[g].posted
                        /\ ledger'[g].posted + Owed(rec, g) - Returned(rec, g) = Balance(g)'
                        /\ (ChargePosts(rec) /\ g \in DOMAIN rec.after) => rec.after[g] = ledger'[g].posted
                        /\ g = rec.payer => rec.after[g] = ledger'[g].posted - rec.amount
    BY DEF Posted, Owed, Returned, TotalOf, PlacesOf, Unposted, ChargePosts, Unsettled, MatchPosts
  <2>8. ledger'[g].posted + 0 - 0 = Balance(g)'
    BY <2>5, <2>6
  <2>9. QED
    BY <1>1, <2>1, <2>3, <2>4, <2>5, <2>6, <2>8
<1>7. StillFresh(rec)'
  BY <1>1 DEF StillFresh, OnCharges
<1>8. QED
  BY <1>4, <1>5, <1>6, <1>7 DEF Books, PayPart

LEMMA AutoBooks ==
  ASSUME BooksInv, ChargeInv', NEW o \in Operators, AutoMatch(o)
  PROVE  BooksInv'
<1>1. TypeInv /\ TypeInv'
  BY DEF BooksInv, ChargeInv
<1>2. UNCHANGED <<charges, paying, imports, transaction, matched, ledger>> /\ Continue
  BY <1>1, AutoMatchesLemma DEF charging, paying
<1>3. PICK r \in RequestRows, rec \in RequestRows :
        /\ Charger(o, r, rec) /\ r.pc = "auto" /\ AtRow(r)
        /\ \/ TakesNext(r, rec)
           \/ \E f \in Payers, amount \in Nat \ {0} : Matches(rec, r, r.row, f, amount)
  BY <1>1, AutoMatchesLemma
<1>4. r = request[o] /\ Moves(o, rec) /\ Working(o) /\ r.row \in Rows
  BY <1>3 DEF Charger, Working, AtRow
<1>5. CASE TakesNext(r, rec)
  <2>1. rec.pc = "row" /\ rec.import = r.import
    BY <1>5 DEF TakesNext
  <2>2. OnPayment(rec)
    BY <2>1 DEF OnPayment
  <2>3. ImportsEnd(r) => ImportsEnd(rec)'
    BY <1>2, <2>1, <2>2, ImportsStill
  <2>4. rec.pc # "idle" /\ rec.pc \in {"idle", "refuse", "row", "store", "auto"}
    BY <2>1
  <2>5. QED
    BY <1>2, <1>3, <1>4, <2>3, <2>4, PaymentBooks
<1>6. ASSUME NEW f \in Payers, NEW amount \in Nat \ {0}, Matches(rec, r, r.row, f, amount)
      PROVE  BooksInv'
  <2>1. Books(r) => Books(rec)'
    BY <1>1, <1>2, <1>3, <1>4, <1>6, MatchBegins
  <2>2. rec.pc # "dead" /\ rec.pc # "idle"
    BY <1>6 DEF Matches
  <2>3. QED
    BY <1>2, <1>4, <2>1, <2>2, BooksStep
<1>7. QED
  BY <1>3, <1>5, <1>6

LEMMA HandBooks ==
  ASSUME BooksInv, ChargeInv', NEW o \in Operators, NEW row \in Rows, NEW f \in Payers, NEW amount \in Amounts,
         MatchByHand(o, row, f, amount)
  PROVE  BooksInv'
<1>1. TypeInv /\ TypeInv'
  BY DEF BooksInv, ChargeInv
<1>2. UNCHANGED <<charges, paying, matched, ledger>> /\ Begin(o) /\ amount \in Nat \ {0}
  BY <1>1, HandMatchesLemma DEF charging, paying
<1>3. PICK r \in RequestRows, rec \in RequestRows : StartsMatch(o, r, rec, row, f, amount) /\ r.pc = "idle"
  BY <1>1, HandMatchesLemma
<1>4. r = request[o] /\ Moves(o, rec) /\ Matches(rec, r, row, f, amount)
  BY <1>3 DEF StartsMatch, Charger
<1>5. Books(r) => Books(rec)'
  BY <1>1, <1>2, <1>3, <1>4, MatchBegins
<1>6. rec.pc # "dead" /\ rec.pc # "idle"
  BY <1>4 DEF Matches
<1>7. QED
  BY <1>2, <1>4, <1>5, <1>6, BooksStep

\* One match more is its amount more for the payment, and less in the balance of the family.
LEMMA MatchedGains ==
  ASSUME TypeInv, UNCHANGED charges, NEW row \in Rows, NEW f \in Payers, NEW amount \in Nat,
         matched' = [matched EXCEPT ![row][f] = @ + amount]
  PROVE  /\ MatchedOf(row)' = MatchedOf(row) + amount /\ Balance(f)' = Balance(f) - amount
         /\ \A x \in Rows \ {row} : MatchedOf(x)' = MatchedOf(x)
         /\ \A g \in Payers \ {f} : Balance(g)' = Balance(g)
<1>1. matched \in [Rows -> [Payers -> Nat]]
  BY DEF TypeInv, TablesInv
<1>2. /\ matched' \in [Rows -> [Payers -> Nat]] /\ matched'[row][f] = matched[row][f] + amount
      /\ \A x \in Rows, g \in Payers : (x # row \/ g # f) => matched'[x][g] = matched[x][g]
      /\ \A x \in Rows \ {row} : matched'[x] = matched[x]
  BY <1>1
<1>3. matched[row][f] \in Nat
  BY <1>1
<1>4. MatchedOf(row)' = MatchedOf(row) + amount
  <2>1. PICK before, after : before = matched[row] /\ after = matched'[row]
    OBVIOUS
  <2>2. Summable(before, Payers)
    BY <1>1, <2>1, BillingAssumption DEF Summable
  <2>3. after[f] \in Int /\ \A g \in Payers \ {f} : after[g] = before[g]
    BY <1>2, <1>3, <2>1
  <2>4. SumFunctionOnSet(after, Payers) = (SumFunctionOnSet(before, Payers) - before[f]) + after[f]
    BY <2>2, <2>3, SumChange
  <2>5. MatchedOf(row) = SumFunctionOnSet(before, Payers) /\ MatchedOf(row)' = SumFunctionOnSet(after, Payers)
    BY <2>1 DEF MatchedOf
  <2>6. MatchedOf(row) \in Nat
    BY MatchedLemma DEF TypeInv
  <2>7. before[f] \in Nat /\ after[f] = before[f] + amount
    BY <1>2, <1>3, <2>1
  <2>8. QED
    BY <2>4, <2>5, <2>6, <2>7
<1>5. \A g : Charged(g)' = Charged(g)
  BY DEF Charged, ChargesOf
<1>6. Balance(f)' = Balance(f) - amount
  <2>1. PICK before, after : before = [x \in Rows |-> matched[x][f]] /\ after = [x \in Rows |-> matched'[x][f]]
    OBVIOUS
  <2>2. Summable(before, Rows)
    BY <1>1, <2>1, BillingAssumption DEF Summable
  <2>3. after[row] \in Int /\ \A x \in Rows \ {row} : after[x] = before[x]
    BY <1>2, <1>3, <2>1
  <2>4. SumFunctionOnSet(after, Rows) = (SumFunctionOnSet(before, Rows) - before[row]) + after[row]
    BY <2>2, <2>3, SumChange
  <2>5. Paid(f) = SumFunctionOnSet(before, Rows) /\ Paid(f)' = SumFunctionOnSet(after, Rows)
    BY <2>1 DEF Paid
  <2>6. Paid(f) \in Nat /\ Charged(f) \in Nat
    BY BalanceLemma DEF TypeInv
  <2>7. before[row] \in Nat /\ after[row] = before[row] + amount
    BY <1>2, <1>3, <2>1
  <2>8. Paid(f)' = Paid(f) + amount
    BY <2>4, <2>5, <2>6, <2>7
  <2>9. QED
    BY <1>5, <2>6, <2>8 DEF Balance
<1>7. \A g \in Payers \ {f} : Balance(g)' = Balance(g)
  <2> SUFFICES ASSUME NEW g \in Payers \ {f}
               PROVE  Balance(g)' = Balance(g)
    OBVIOUS
  <2>1. [x \in Rows |-> matched[x][g]] = [x \in Rows |-> matched'[x][g]]
    BY <1>2
  <2>2. Paid(g)' = Paid(g)
    BY <2>1 DEF Paid
  <2>3. QED
    BY <1>5, <2>2 DEF Balance
<1>8. \A x \in Rows \ {row} : MatchedOf(x)' = MatchedOf(x)
  BY <1>2 DEF MatchedOf
<1>9. QED
  BY <1>4, <1>6, <1>7, <1>8

LEMMA InsertBooks ==
  ASSUME BooksInv, ChargeInv', NEW o \in Operators, InsertMatch(o)
  PROVE  BooksInv'
<1>1. TypeInv /\ TypeInv'
  BY DEF BooksInv, ChargeInv
<1>2. UNCHANGED <<charges, imports, transaction, ledger>> /\ Continue
  BY <1>1, InsertsMatchLemma DEF charging
<1>3. PICK r \in RequestRows, rec \in RequestRows : InsertsMatch(o, r, rec)
  BY <1>1, InsertsMatchLemma
<1>4. /\ r = request[o] /\ Moves(o, rec) /\ r.pc = "insert" /\ rec.pc = "status" /\ SameMatch(r, rec)
      /\ matched' = [matched EXCEPT ![r.row][r.payer] = @ + r.amount]
  BY <1>3 DEF InsertsMatch, Charger
<1>5. PICK row \in Rows, f \in Payers, amount \in Nat : row = r.row /\ f = r.payer /\ amount = r.amount
  BY <1>3 DEF InsertsMatch, Matcher
<1>6. /\ rec.row = row /\ rec.payer = f /\ rec.amount = amount /\ rec.after = r.after /\ rec.status = r.status
      /\ rec.import = r.import
  BY <1>4, <1>5 DEF SameMatch
<1>7. matched' = [matched EXCEPT ![row][f] = @ + amount]
  BY <1>4, <1>5
<1>8. /\ MatchedOf(row)' = MatchedOf(row) + amount /\ Balance(f)' = Balance(f) - amount
      /\ \A x \in Rows \ {row} : MatchedOf(x)' = MatchedOf(x)
      /\ \A g \in Payers \ {f} : Balance(g)' = Balance(g)
  BY <1>1, <1>2, <1>7, MatchedGains
<1>9. ASSUME Books(r)
      PROVE  Books(rec)'
  <2>1. ImportsEnd(rec)'
    <3>1. OnPayment(rec) /\ rec.pc # "store"
      BY <1>4 DEF OnPayment
    <3>2. QED
      BY <1>2, <1>5, <1>6, <1>9, <3>1, ImportsStill DEF Books, PayPart
  <2>2. Settled(rec)'
    <3>1. \A x \in Rows : transaction[x].status = StatusOf(x, MatchedOf(x))
      BY <1>4, <1>9 DEF Books, PayPart, Settled
    <3>2. r.status = StatusOf(row, MatchedOf(row) + amount)
      BY <1>4, <1>5, <1>9 DEF Books, PayPart, Settled
    <3>3. \A x \in Rows : x = row \/ transaction'[x].status = StatusOf(x, MatchedOf(x)')
      BY <1>2, <1>8, <3>1
    <3>4. rec.status = StatusOf(row, MatchedOf(row)')
      BY <1>6, <1>8, <3>2
    <3>5. QED
      BY <1>4, <1>6, <3>3, <3>4 DEF Settled, StatusOf
  <2>3. Posted(rec)'
    <3>1. ~Unsettled(r) /\ Unsettled(rec) /\ ~ChargePosts(r) /\ ~ChargePosts(rec)
      BY <1>4 DEF Unsettled, MatchPosts, ChargePosts
    <3>2. Unposted(r) = {} /\ Unposted(rec) = {}
      BY <1>4, <3>1, NothingPosts
    <3>3. \A g : Owed(r, g) = 0 /\ Owed(rec, g) = 0
      BY <3>2, NothingOwed
    <3>4. SUFFICES ASSUME NEW g \in Payers
                   PROVE  /\ ledger'[g].after = ledger'[g].posted
                          /\ ledger'[g].posted + Owed(rec, g) - Returned(rec, g) = Balance(g)'
                          /\ g = rec.payer => rec.after[g] = ledger'[g].posted - rec.amount
      BY <3>1 DEF Posted, Owed, Returned, TotalOf, PlacesOf, Unposted, ChargePosts, Unsettled, MatchPosts
    <3>5. ledger[g].posted \in Int
      BY <1>1 DEF TypeInv, TablesInv, LedgerRows
    <3>6. Returned(r, g) = 0
      BY <3>1 DEF Returned
    <3>7. ledger[g].after = ledger[g].posted /\ ledger[g].posted + 0 - 0 = Balance(g)
      BY <1>9, <3>3, <3>6 DEF Books, Posted
    <3>8. g = f => r.after[g] = ledger[g].posted - amount
      BY <1>4, <1>5, <1>9 DEF Books, Posted
    <3>9. Returned(rec, g) = IF g = f THEN amount ELSE 0
      BY <1>6, <3>1 DEF Returned
    <3>10. Balance(g)' = Balance(g) - (IF g = f THEN amount ELSE 0)
      BY <1>8, <3>5, <3>7
    <3>11. ledger[g].posted + 0 - Returned(rec, g) = Balance(g)'
      BY <3>5, <3>7, <3>9, <3>10
    <3>12. QED
      BY <1>2, <1>6, <3>3, <3>7, <3>8, <3>11
  <2>4. StillFresh(rec)'
    BY <1>4 DEF StillFresh, OnCharges
  <2>5. QED
    BY <2>1, <2>2, <2>3, <2>4 DEF Books, PayPart
<1>10. Working(o) /\ rec.pc # "dead" /\ rec.pc # "idle"
  BY <1>4 DEF Working
<1>11. QED
  BY <1>2, <1>4, <1>9, <1>10, BooksStep

LEMMA UpdateBooks ==
  ASSUME BooksInv, ChargeInv', NEW o \in Operators, UpdateTransaction(o)
  PROVE  BooksInv'
<1>1. TypeInv /\ TypeInv'
  BY DEF BooksInv, ChargeInv
<1>2. UNCHANGED <<charges, imports, matched, ledger>> /\ Continue
  BY <1>1, UpdatesLemma DEF charging
<1>3. PICK r \in RequestRows, rec \in RequestRows : Updates(o, r, rec)
  BY <1>1, UpdatesLemma
<1>4. /\ r = request[o] /\ Moves(o, rec) /\ r.pc = "status" /\ rec.pc = "entry" /\ SameMatch(r, rec)
      /\ transaction' = [transaction EXCEPT ![r.row].status = r.status] /\ r.row \in Rows
  BY <1>3 DEF Updates, Matcher, Charger
<1>5. /\ rec.row = r.row /\ rec.payer = r.payer /\ rec.amount = r.amount /\ rec.after = r.after
      /\ rec.import = r.import
  BY <1>4 DEF SameMatch
<1>6. MatchPosts(rec) /\ ~ChargePosts(rec) /\ ~ChargePosts(r)
  <2>1. r.row # NoState
    BY <1>4, BillingAssumption
  <2>2. QED
    BY <1>4, <1>5, <2>1 DEF MatchPosts, ChargePosts
<1>7. ASSUME Books(r)
      PROVE  Books(rec)'
  <2>1. ImportsEnd(rec)'
    <3>1. OnPayment(rec) /\ rec.pc # "store"
      BY <1>4, <1>6 DEF OnPayment
    <3>2. QED
      BY <1>2, <1>5, <1>7, <3>1, ImportsStill DEF Books, PayPart
  <2>2. Settled(rec)'
    <3>1. \A x \in Rows : x = r.row \/ transaction[x].status = StatusOf(x, MatchedOf(x))
      BY <1>4, <1>7 DEF Books, PayPart, Settled
    <3>2. r.status = StatusOf(r.row, MatchedOf(r.row))
      BY <1>4, <1>7 DEF Books, PayPart, Settled
    <3>3. transaction'[r.row].status = r.status /\ \A x \in Rows \ {r.row} : transaction'[x] = transaction[x]
      <4>1. transaction \in [Rows -> TransactionRows]
        BY <1>1 DEF TypeInv, TablesInv
      <4>2. QED
        BY <1>4, <4>1 DEF TransactionRows
    <3>4. \A x \in Rows : transaction'[x].status = StatusOf(x, MatchedOf(x))
      BY <3>1, <3>2, <3>3
    <3>5. \A x \in Rows : MatchedOf(x)' = MatchedOf(x)
      BY <1>2 DEF MatchedOf
    <3>6. QED
      BY <1>4, <3>4, <3>5 DEF Settled, StatusOf
  <2>3. Posted(rec)'
    <3>1. Unsettled(r) /\ Unsettled(rec) /\ rec.pc # "insert"
      BY <1>4, <1>6 DEF Unsettled
    <3>2. Unposted(r) = {} /\ Unposted(rec) = {}
      BY <1>4, <1>6, NothingPosts
    <3>3. \A g : Owed(r, g) = 0 /\ Owed(rec, g) = 0
      BY <3>2, NothingOwed
    <3>4. SUFFICES ASSUME NEW g \in Payers
                   PROVE  /\ ledger'[g].after = ledger'[g].posted
                          /\ ledger'[g].posted + Owed(rec, g) - Returned(rec, g) = Balance(g)'
                          /\ g = rec.payer => rec.after[g] = ledger'[g].posted - rec.amount
      BY <1>6, <3>1 DEF Posted, Owed, Returned, TotalOf, PlacesOf, Unposted, ChargePosts, Unsettled, MatchPosts
    <3>5. Balance(g)' = Balance(g)
      BY <1>2 DEF Balance, Charged, Paid, ChargesOf
    <3>6. Returned(rec, g) = Returned(r, g)
      BY <1>5, <3>1 DEF Returned
    <3>7. /\ ledger[g].after = ledger[g].posted /\ ledger[g].posted + 0 - Returned(r, g) = Balance(g)
          /\ g = r.payer => r.after[g] = ledger[g].posted - r.amount
      BY <1>7, <3>1, <3>3 DEF Books, Posted
    <3>8. QED
      BY <1>2, <1>5, <3>3, <3>5, <3>6, <3>7
  <2>4. StillFresh(rec)'
    BY <1>4 DEF StillFresh, OnCharges
  <2>5. QED
    BY <2>1, <2>2, <2>3, <2>4 DEF Books, PayPart
<1>8. Working(o) /\ rec.pc # "dead" /\ rec.pc # "idle"
  BY <1>4 DEF Working
<1>9. QED
  BY <1>2, <1>4, <1>7, <1>8, BooksStep

LEMMA PostMatchBooks ==
  ASSUME BooksInv, ChargeInv', NEW o \in Operators, PostMatch(o)
  PROVE  BooksInv'
<1>1. TypeInv /\ TypeInv'
  BY DEF BooksInv, ChargeInv
<1>2. UNCHANGED <<charges, imports, transaction, matched>> /\ Continue
  BY <1>1, PostsMatchLemma DEF charging, paying
<1>3. PICK r \in RequestRows, rec \in RequestRows : PostsMatch(o, r, rec)
  BY <1>1, PostsMatchLemma
<1>4. r = request[o] /\ Moves(o, rec) /\ r.pc = "entry" /\ r.row # NoState
  BY <1>3 DEF PostsMatch, Charger
<1>5. PICK f \in Payers, amount \in Nat, after \in Int : f = r.payer /\ amount = r.amount /\ after = r.after[f]
  BY <1>3 DEF PostsMatch, Matcher
<1>6. /\ ledger'[f] = [posted |-> ledger[f].posted + (-amount), after |-> after]
      /\ \A g \in Payers \ {f} : ledger'[g] = ledger[g]
  <2>1. PICK delta \in Int : delta = -amount
    OBVIOUS
  <2>2. ledger' = [ledger EXCEPT ![f] = Entry(f, delta, after)]
    BY <1>3, <1>5, <2>1 DEF PostsMatch
  <2>3. ledger'[f] = [posted |-> ledger[f].posted + delta, after |-> after]
        /\ \A g \in Payers \ {f} : ledger'[g] = ledger[g]
    BY <1>1, <2>2, EntryLemma
  <2>4. QED
    BY <2>1, <2>3
<1>7. rec.pc \in {"idle", "row"} /\ (rec.pc = "idle" => rec = Idle /\ r.import = 0) /\ (rec.pc = "row" => rec.import = r.import)
  BY <1>3, IdleLemma DEF PostsMatch, TakesNext
<1>8. MatchPosts(r) /\ Unsettled(r) /\ ~ChargePosts(r) /\ ~Unsettled(rec) /\ ~ChargePosts(rec)
  BY <1>4, <1>7 DEF MatchPosts, Unsettled, ChargePosts
<1>9. ASSUME Books(r)
      PROVE  Books(rec)'
  <2>1. ImportsEnd(rec)'
    <3>1. CASE rec.pc = "row"
      <4>1. OnPayment(rec)
        BY <3>1 DEF OnPayment
      <4>2. QED
        BY <1>2, <1>7, <1>9, <3>1, <4>1, ImportsStill DEF Books, PayPart
    <3>2. CASE rec.pc = "idle"
      <4>1. \A n \in DOMAIN imports : n # 0
        BY <1>1 DEF TypeInv, TablesInv
      <4>2. \A n \in DOMAIN imports : imports[n].status # "przetwarzany"
        BY <1>7, <1>9, <3>2, <4>1 DEF Books, PayPart, ImportsEnd
      <4>3. QED
        BY <1>2, <3>2, <4>2 DEF ImportsEnd
    <3>3. QED
      BY <1>7, <3>1, <3>2
  <2>2. Settled(rec)'
    BY <1>2, <1>4, <1>7, <1>9, SettledStill DEF Books, PayPart
  <2>3. Posted(rec)'
    <3>1. Unposted(r) = {} /\ Unposted(rec) = {}
      BY <1>4, <1>7, <1>8, NothingPosts
    <3>2. \A g : Owed(r, g) = 0 /\ Owed(rec, g) = 0
      BY <3>1, NothingOwed
    <3>3. SUFFICES ASSUME NEW g \in Payers
                   PROVE  /\ ledger'[g].after = ledger'[g].posted
                          /\ ledger'[g].posted + Owed(rec, g) - Returned(rec, g) = Balance(g)'
      BY <1>7, <1>8 DEF Posted, Owed, Returned, TotalOf, PlacesOf, Unposted, ChargePosts, Unsettled, MatchPosts
    <3>4. Balance(g)' = Balance(g)
      BY <1>2 DEF Balance, Charged, Paid, ChargesOf
    <3>5. Returned(rec, g) = 0 /\ Returned(r, g) = IF g = f THEN amount ELSE 0
      BY <1>5, <1>8 DEF Returned
    <3>6. PICK posted \in Int : posted = ledger[g].posted
      BY <1>1 DEF TypeInv, TablesInv, LedgerRows
    <3>7. ledger[g].after = posted /\ posted + 0 - Returned(r, g) = Balance(g) /\ (g = f => after = posted - amount)
      BY <1>5, <1>8, <1>9, <3>2, <3>6 DEF Books, Posted
    <3>8. CASE g = f
      <4>1. ledger'[g].posted = posted + (-amount) /\ ledger'[g].after = after
        BY <1>6, <3>6, <3>8
      <4>2. Balance(g) = posted - amount
        BY <3>5, <3>7, <3>8
      <4>3. ledger'[g].after = ledger'[g].posted /\ ledger'[g].posted + 0 - 0 = Balance(g)
        BY <3>7, <3>8, <4>1, <4>2
      <4>4. QED
        BY <3>2, <3>4, <3>5, <4>3
    <3>9. CASE g # f
      <4>1. ledger'[g].posted = posted /\ ledger'[g].after = posted
        BY <1>6, <3>6, <3>7, <3>9
      <4>2. posted + 0 - 0 = Balance(g)
        BY <3>5, <3>7, <3>9
      <4>3. QED
        BY <3>2, <3>4, <3>5, <4>1, <4>2
    <3>10. QED
      BY <3>8, <3>9
  <2>4. StillFresh(rec)'
    BY <1>7 DEF StillFresh, OnCharges
  <2>5. QED
    BY <2>1, <2>2, <2>3, <2>4 DEF Books, PayPart
<1>10. Working(o) /\ rec.pc # "dead" /\ (rec.pc = "idle" => rec = Idle)
  BY <1>4, <1>7 DEF Working
<1>11. QED
  BY <1>2, <1>4, <1>9, <1>10, BooksStep

LEMMA DieBooks ==
  ASSUME BooksInv, ChargeInv', NEW o \in Operators, Die(o)
  PROVE  BooksInv'
<1>1. ~Alone'
  BY Zenon DEF Die, Alone
<1>2. QED
  BY <1>1 DEF BooksInv, LoneInv

LEMMA NextBooks ==
  ASSUME BooksInv, [Next]_vars
  PROVE  BooksInv'
<1>1. ChargeInv'
  BY NextRoster DEF BooksInv
<1>2. CASE UNCHANGED vars
  <2>1. ASSUME NEW r, Books(r)
        PROVE  Books(r)'
    <3>1. UNCHANGED <<studentState, payerState, charges, paying, ledger>>
      BY <1>2 DEF vars, paying
    <3>2. QED
      BY <2>1, <3>1, BooksKept
  <2>2. UNCHANGED <<request, mixed, died>>
    BY <1>2 DEF vars
  <2>3. QED
    BY <1>1, <2>1, <2>2 DEF BooksInv, LoneInv, Alone, Working, OthersIdle, Quiet
<1>3. ASSUME NEW o \in Operators, Registration(o)
      PROVE  BooksInv'
  <2>1. UNCHANGED <<studentState, payerState, charges, paying, ledger, request>> /\ Begin(o)
    BY <1>3, RegistrationMoves DEF charging
  <2>2. QED
    BY <1>1, <2>1, BooksSame
<1>4. ASSUME NEW o \in Operators, Charging(o)
      PROVE  BooksInv'
  BY <1>1, <1>4, GenerateBooks, ReadCardBooks, DraftBooks, BatchBooks, CreateBooks, SaveBooks, SaveCardBooks, ReadBooks,
     PostBooks DEF Charging
<1>5. ASSUME NEW o \in Operators, Paying(o)
      PROVE  BooksInv'
  BY <1>1, <1>5, ImportBooks, LookBooks, StoreBooks, AutoBooks, EndBooks, HandBooks, InsertBooks, UpdateBooks,
     PostMatchBooks DEF Paying
<1>6. QED
  BY <1>1, <1>2, <1>3, <1>4, <1>5, SteppingBooks, DieBooks DEF Next

LEMMA InitBooks ==
  ASSUME Init
  PROVE  BooksInv
<1>1. ChargeInv /\ TypeInv
  BY InitRoster, InitTyped
<1>2. PICK idle \in RequestRows : idle = Idle /\ idle.pc = "idle"
  BY IdleLemma
<1>3. \A o \in Operators : request[o].pc = "idle"
  BY <1>2 DEF Init
<1>4. LoneInv
  BY <1>3 DEF LoneInv, Working
<1>5. ~OnPayment(idle) /\ ~OnCharges(idle) /\ ~Unsettled(idle) /\ ~ChargePosts(idle)
  BY <1>2 DEF OnPayment, OnCharges, Unsettled, MatchPosts, ChargePosts
<1>6. \A row \in Rows : MatchedOf(row) = 0
  <2> SUFFICES ASSUME NEW row \in Rows
               PROVE  MatchedOf(row) = 0
    OBVIOUS
  <2>1. \A f \in Payers : matched[row][f] = 0
    BY DEF Init
  <2>2. QED
    BY <2>1, SumZero, BillingAssumption DEF MatchedOf
<1>7. \A f \in Payers : Balance(f) = 0
  <2> SUFFICES ASSUME NEW f \in Payers
               PROVE  Balance(f) = 0
    OBVIOUS
  <2>1. \A row \in Rows : [x \in Rows |-> matched[x][f]][row] = 0
    BY DEF Init
  <2>2. Paid(f) = 0
    BY <2>1, SumZero, BillingAssumption DEF Paid
  <2>3. ChargesOf(f) = {}
    BY DEF Init, ChargesOf
  <2>4. Charged(f) = 0
    BY <2>3, SumNone DEF Charged
  <2>5. QED
    BY <2>2, <2>4 DEF Balance
<1>8. PayPart(idle)
  <2>1. ImportsEnd(idle)
    BY <1>2 DEF ImportsEnd, Init
  <2>2. \A row \in Rows : transaction[row].status = "nieprzypisana"
    BY DEF Init
  <2>3. Settled(idle)
    BY <1>2, <1>6, <2>2 DEF Settled, StatusOf
  <2>4. QED
    BY <2>1, <2>3 DEF PayPart
<1>9. Posted(idle)
  <2>1. Unposted(idle) = {}
    BY <1>2, <1>5, NothingPosts
  <2>2. \A f \in Payers : Owed(idle, f) = 0 /\ Returned(idle, f) = 0
    BY <1>5, <2>1, NothingOwed DEF Returned
  <2>3. \A f \in Payers : ledger[f].posted = 0 /\ ledger[f].after = 0
    BY DEF Init
  <2>4. QED
    BY <1>2, <1>5, <1>7, <2>2, <2>3 DEF Posted
<1>10. StillFresh(idle)
  BY <1>2, <1>5 DEF StillFresh
<1>11. Books(Idle)
  BY <1>2, <1>8, <1>9, <1>10 DEF Books
<1>12. QED
  BY <1>1, <1>3, <1>4, <1>11 DEF BooksInv, Working

\* A finished import has stored every row of its statement, and after requests one after another
\* the status of a payment agrees with its matches, and the ledger with the balance.
THEOREM BooksStayInAgreement == Spec => []BooksAgree
<1>1. ASSUME StoredInv, BooksInv
      PROVE  BooksAgree
  <2>1. \A n \in DOMAIN imports : imports[n].status = "zaimportowany" =>
          \A i \in DOMAIN Statements[imports[n].statement] :
            transaction[Statements[imports[n].statement][i]].stored
    BY <1>1 DEF StoredInv, Imported, RowsOf
  <2>2. ASSUME Orderly
        PROVE  /\ \A n \in DOMAIN imports : imports[n].status # "przetwarzany"
               /\ \A r \in Rows : transaction[r].status = StatusOf(r, MatchedOf(r))
               /\ \A f \in Payers : ledger[f].posted = Balance(f) /\ ledger[f].after = Balance(f)
    <3>1. PICK idle \in RequestRows : idle = Idle /\ idle.pc = "idle"
      BY IdleLemma
    <3>2. Alone /\ Quiet
      BY <2>2, Zenon DEF Orderly, Alone
    <3>3. Books(idle)
      BY <1>1, <3>1, <3>2 DEF BooksInv
    <3>4. ~OnPayment(idle) /\ ~Unsettled(idle) /\ ~ChargePosts(idle)
      BY <3>1 DEF OnPayment, Unsettled, MatchPosts, ChargePosts
    <3>5. ASSUME NEW f \in Payers
          PROVE  ledger[f].posted = Balance(f) /\ ledger[f].after = Balance(f)
      <4>1. Owed(idle, f) = 0 /\ Returned(idle, f) = 0
        BY <3>1, <3>4, NothingPosts, NothingOwed DEF Returned
      <4>2. ledger[f].posted \in Int
        BY <1>1 DEF StoredInv, TypeInv, TablesInv, LedgerRows
      <4>3. ledger[f].after = ledger[f].posted /\ ledger[f].posted + 0 - 0 = Balance(f)
        BY <3>3, <4>1 DEF Books, Posted
      <4>4. QED
        BY <4>2, <4>3
    <3>6. QED
      BY <3>1, <3>3, <3>4, <3>5 DEF Books, PayPart, ImportsEnd, Settled
  <2>3. QED
    BY <2>1, <2>2 DEF BooksAgree, StatusOf
<1>2. Init => StoredInv /\ BooksInv
  BY InitStored, InitBooks
<1>3. StoredInv /\ [Next]_vars => StoredInv'
  BY NextStoredInv
<1>4. BooksInv /\ [Next]_vars => BooksInv'
  BY NextBooks
<1>5. QED
  BY <1>1, <1>2, <1>3, <1>4, PTL DEF Spec

-----------------------------------------------------------------------------
(* Every discount is spent once                                              *)

Mine(s) == {c \in charges : c.student = s}
Intro(s) == SumFunctionOnSet([c \in charges |-> c.intro], Mine(s))
Sibling(s) == SumFunctionOnSet([c \in charges |-> c.sibling], Mine(s))
Large(f) == SumFunctionOnSet([c \in charges |-> c.large], ChargesOf(f))

\* What free lessons of a student are worth.
Free(s, lessons) == lessons * Model[Student[s].model].rate

\* What the charges of a student took and what is left are what the model grants.
Granted(s, intro, sibling) ==
  /\ Intro(s) + Free(s, intro) = Free(s, Model[Student[s].model].intro)
  /\ Student[s].order > 1 => Sibling(s) + sibling = Model[Student[s].model].sibling

Booked(s) == IF studentState[s] = NoState THEN Mine(s) = {}
             ELSE Granted(s, studentState[s].intro, studentState[s].sibling)

\* A draft splits what its student has left.
Splits(d) == /\ d.intro + Free(d.student, d.introLeft) = Free(d.student, StateOf(d.student).intro)
             /\ d.sibling + d.siblingLeft = StateOf(d.student).sibling

\* The drafts whose charges are still to be written; those that are written, but whose student's
\* state is not.
Unwritten(r) == {k \in DOMAIN r.drafts : r.pc \in {"draft", "batch"} \/ (r.pc = "charge" /\ k >= r.i)}
Unsaved(r) == {k \in DOMAIN r.drafts : (r.pc = "charge" /\ k < r.i) \/ (r.pc = "student" /\ k >= r.i)}

StudentsBooked(r) ==
  /\ \A s \in Students : (\A k \in Unsaved(r) : r.drafts[k].student # s) => Booked(s)
  /\ \A k \in Unsaved(r) : Granted(r.drafts[k].student, r.drafts[k].introLeft, r.drafts[k].siblingLeft)
  /\ \A k \in Unwritten(r) : Splits(r.drafts[k])

FamilyBooked(f) == IF payerState[f] = NoState THEN Large(f) = 0
                   ELSE \E m \in Models : Large(f) + payerState[f] = Model[m].large

LargeOf(ds, K, f) == SumFunctionOnSet([k \in DOMAIN ds |-> ds[k].large], PlacesOf(ds, K, f))

\* What a family has left is what its card was read with, less what the drafts take of it.
FamiliesBooked(r) ==
  /\ \A f \in Payers : (f \notin DOMAIN r.cards \/ r.pc \notin {"charge", "student", "payer"}) => FamilyBooked(f)
  /\ OnCharges(r) => \A f \in DOMAIN r.cards : \E m \in Models :
       Large(f) + r.cards[f] + LargeOf(r.drafts, Unwritten(r), f) = Model[m].large
  /\ r.pc \in {"draft", "batch", "charge"} => \A k \in DOMAIN r.drafts :
       Student[r.drafts[k].student].payer \notin DOMAIN r.cards => r.drafts[k].large = 0

Spent(r) == StudentsBooked(r) /\ FamiliesBooked(r)

AllBooked == (\A s \in Students : Booked(s)) /\ \A f \in Payers : FamilyBooked(f)

SpentInv ==
  /\ BooksInv
  /\ Alone => \A o \in Operators : Working(o) => Spent(request[o])
  /\ (Alone /\ Quiet) => AllBooked

\* h goes on from the values g has in C with the value n of c.
GoesOnWith(h, g, C, c, n) ==
  IsFiniteSet(C) /\ c \notin C /\ n \in Nat /\ h[c] = n /\ \A e \in C : g[e] \in Nat /\ h[e] = g[e]

\* A row more in a table, and in the sums over it.
LEMMA SumGains ==
  ASSUME NEW C, NEW c, NEW g, NEW h, NEW n, GoesOnWith(h, g, C, c, n), NEW S \in SUBSET C
  PROVE  /\ SumFunctionOnSet(g, S) \in Nat
         /\ SumFunctionOnSet(h, S) = SumFunctionOnSet(g, S)
         /\ SumFunctionOnSet(h, S \cup {c}) = SumFunctionOnSet(g, S) + n
<1>0. IsFiniteSet(C) /\ c \notin C /\ n \in Nat /\ h[c] = n /\ \A e \in C : g[e] \in Nat /\ h[e] = g[e]
  BY DEF GoesOnWith
<1>1. IsFiniteSet(S) /\ IsFiniteSet(S \cup {c}) /\ c \notin S
  BY <1>0, FS_Subset, FS_AddElement
<1>2. SumFunctionOnSet(g, S) \in Nat
  BY <1>0, <1>1, SumNat
<1>3. Summable(g, S) /\ Summable(h, S)
  BY <1>0, <1>1 DEF Summable
<1>4. SumFunctionOnSet(h, S) = SumFunctionOnSet(g, S)
  BY <1>0, <1>3, SumSame
<1>5. Summable(h, S \cup {c})
  BY <1>0, <1>1 DEF Summable
<1>6. SumFunctionOnSet(h, S \cup {c}) = h[c] + SumFunctionOnSet(h, S)
  BY <1>1, <1>5, SumAdd
<1>7. QED
  BY <1>0, <1>2, <1>4, <1>6

\* The discounts that charges took.
LEMMA TakenLemma ==
  ASSUME TablesInv
  PROVE  /\ \A s : Intro(s) \in Nat /\ Sibling(s) \in Nat
         /\ \A f : Large(f) \in Nat
<1>1. \A c \in charges : c.intro \in Nat /\ c.sibling \in Nat /\ c.large \in Nat
  BY DEF TablesInv, ChargeRows
<1>2. ASSUME NEW s
      PROVE  Intro(s) \in Nat /\ Sibling(s) \in Nat
  <2>1. IsFiniteSet(Mine(s)) /\ Mine(s) \in SUBSET charges
    BY FS_Subset DEF TablesInv, Mine
  <2>2. \A c \in Mine(s) : [e \in charges |-> e.intro][c] \in Nat /\ [e \in charges |-> e.sibling][c] \in Nat
    BY <1>1, <2>1
  <2>3. QED
    BY <2>1, <2>2, SumNat DEF Intro, Sibling
<1>3. ASSUME NEW f
      PROVE  Large(f) \in Nat
  <2>1. IsFiniteSet(ChargesOf(f)) /\ ChargesOf(f) \in SUBSET charges
    BY FS_Subset DEF TablesInv, ChargesOf
  <2>2. \A c \in ChargesOf(f) : [e \in charges |-> e.large][c] \in Nat
    BY <1>1, <2>1
  <2>3. QED
    BY <2>1, <2>2, SumNat DEF Large
<1>4. QED
  BY <1>2, <1>3

LEMMA FreeLemma ==
  ASSUME NEW s \in Students, NEW lessons \in Nat
  PROVE  Free(s, lessons) \in Nat
<1>1. PICK rate \in Nat : rate = Model[Student[s].model].rate
  BY BillingAssumption
<1>2. lessons * rate \in Nat
  OBVIOUS
<1>3. QED
  BY <1>1, <1>2 DEF Free

\* One charge more is what it took more, for its student and its family alone.
LEMMA TakenGains ==
  ASSUME TypeInv, TypeInv', NEW c \in ChargeRows, c \notin charges, charges' = charges \cup {c}
  PROVE  /\ Intro(c.student)' = Intro(c.student) + c.intro /\ Sibling(c.student)' = Sibling(c.student) + c.sibling
         /\ \A s : s # c.student => Mine(s)' = Mine(s) /\ Intro(s)' = Intro(s) /\ Sibling(s)' = Sibling(s)
         /\ \A f : Large(f)' = Large(f) + (IF Student[c.student].payer = f THEN c.large ELSE 0)
<1>1. /\ \A e \in charges \cup {c} : e.intro \in Nat /\ e.sibling \in Nat /\ e.large \in Nat
      /\ IsFiniteSet(charges)
  BY DEF TypeInv, TablesInv, ChargeRows
<1>2. PICK s \in Students : s = c.student
  BY DEF ChargeRows
<1>3. PICK intro \in Nat, sibling \in Nat, large \in Nat : intro = c.intro /\ sibling = c.sibling /\ large = c.large
  BY <1>1
<1>4. PICK g1, h1 : g1 = [e \in charges |-> e.intro] /\ h1 = [e \in charges \cup {c} |-> e.intro]
  OBVIOUS
<1>5. PICK g2, h2 : g2 = [e \in charges |-> e.sibling] /\ h2 = [e \in charges \cup {c} |-> e.sibling]
  OBVIOUS
<1>6. PICK g3, h3 : g3 = [e \in charges |-> e.large] /\ h3 = [e \in charges \cup {c} |-> e.large]
  OBVIOUS
<1>7. GoesOnWith(h1, g1, charges, c, intro)
  BY <1>1, <1>3, <1>4 DEF GoesOnWith
<1>8. GoesOnWith(h2, g2, charges, c, sibling)
  BY <1>1, <1>3, <1>5 DEF GoesOnWith
<1>9. GoesOnWith(h3, g3, charges, c, large)
  BY <1>1, <1>3, <1>6 DEF GoesOnWith
<1>10. Mine(s)' = Mine(s) \cup {c} /\ Mine(s) \in SUBSET charges
  BY <1>2 DEF Mine
<1>11. /\ Intro(s) = SumFunctionOnSet(g1, Mine(s)) /\ Intro(s)' = SumFunctionOnSet(h1, Mine(s) \cup {c})
       /\ Sibling(s) = SumFunctionOnSet(g2, Mine(s)) /\ Sibling(s)' = SumFunctionOnSet(h2, Mine(s) \cup {c})
  BY <1>4, <1>5, <1>10 DEF Intro, Sibling
<1>12. Intro(s)' = Intro(s) + intro
  <2>1. SumFunctionOnSet(h1, Mine(s) \cup {c}) = SumFunctionOnSet(g1, Mine(s)) + intro
    BY <1>7, <1>10, SumGains
  <2>2. QED
    BY <1>11, <2>1
<1>13. Sibling(s)' = Sibling(s) + sibling
  <2>1. SumFunctionOnSet(h2, Mine(s) \cup {c}) = SumFunctionOnSet(g2, Mine(s)) + sibling
    BY <1>8, <1>10, SumGains
  <2>2. QED
    BY <1>11, <2>1
<1>14. ASSUME NEW x, x # s
       PROVE  Mine(x)' = Mine(x) /\ Intro(x)' = Intro(x) /\ Sibling(x)' = Sibling(x)
  <2>1. PICK mine \in SUBSET charges : mine = Mine(x) /\ Mine(x)' = mine
    BY <1>2, <1>14 DEF Mine
  <2>2. /\ SumFunctionOnSet(g1, mine) \in Nat /\ SumFunctionOnSet(h1, mine) = SumFunctionOnSet(g1, mine)
        /\ SumFunctionOnSet(h1, mine \cup {c}) = SumFunctionOnSet(g1, mine) + intro
    BY <1>7, SumGains
  <2>3. /\ SumFunctionOnSet(g2, mine) \in Nat /\ SumFunctionOnSet(h2, mine) = SumFunctionOnSet(g2, mine)
        /\ SumFunctionOnSet(h2, mine \cup {c}) = SumFunctionOnSet(g2, mine) + sibling
    BY <1>8, SumGains
  <2>4. /\ Intro(x) = SumFunctionOnSet(g1, mine) /\ Intro(x)' = SumFunctionOnSet(h1, mine)
        /\ Sibling(x) = SumFunctionOnSet(g2, mine) /\ Sibling(x)' = SumFunctionOnSet(h2, mine)
    BY <1>4, <1>5, <2>1 DEF Intro, Sibling
  <2>5. QED
    BY <2>1, <2>2, <2>3, <2>4
<1>15. ASSUME NEW f
       PROVE  Large(f)' = Large(f) + (IF Student[s].payer = f THEN large ELSE 0)
  <2>1. PICK mine \in SUBSET charges : mine = ChargesOf(f)
    BY DEF ChargesOf
  <2>2. /\ SumFunctionOnSet(g3, mine) \in Nat /\ SumFunctionOnSet(h3, mine) = SumFunctionOnSet(g3, mine)
        /\ SumFunctionOnSet(h3, mine \cup {c}) = SumFunctionOnSet(g3, mine) + large
    BY <1>9, SumGains
  <2>3. Large(f) = SumFunctionOnSet(g3, mine)
    BY <1>6, <2>1 DEF Large
  <2>4. CASE Student[s].payer = f
    <3>1. ChargesOf(f)' = mine \cup {c}
      BY <1>2, <2>1, <2>4 DEF ChargesOf
    <3>2. QED
      BY <1>6, <2>2, <2>3, <2>4, <3>1 DEF Large
  <2>5. CASE Student[s].payer # f
    <3>1. ChargesOf(f)' = mine
      BY <1>2, <2>1, <2>5 DEF ChargesOf
    <3>2. QED
      BY <1>6, <2>2, <2>3, <2>5, <3>1 DEF Large
  <2>6. QED
    BY <2>4, <2>5
<1>16. QED
  BY <1>2, <1>3, <1>12, <1>13, <1>14, <1>15

\* What the drafts of a family at some places take of its discount; one draft more takes more.
LargeGain(d, f) == IF Student[d.student].payer = f THEN d.large ELSE 0

LEMMA LargeLemma ==
  ASSUME NEW ds \in Seq(Drafts), NEW K \in SUBSET DOMAIN ds, NEW f
  PROVE  LargeOf(ds, K, f) \in Nat /\ LargeOf(ds, {}, f) = 0
<1>1. \A k \in DOMAIN ds : ds[k].large \in Nat
  <2>1. \A k \in DOMAIN ds : ds[k] \in Drafts
    OBVIOUS
  <2>2. QED
    BY <2>1 DEF Drafts
<1>2. IsFiniteSet(PlacesOf(ds, K, f)) /\ PlacesOf(ds, K, f) \in SUBSET DOMAIN ds
  BY DraftsLemma DEF PlacesOf
<1>3. \A k \in PlacesOf(ds, K, f) : [j \in DOMAIN ds |-> ds[j].large][k] \in Nat
  BY <1>1, <1>2
<1>4. PlacesOf(ds, {}, f) = {}
  BY DEF PlacesOf
<1>5. QED
  BY <1>2, <1>3, <1>4, SumNat, SumNone DEF LargeOf

LEMMA LargeGains ==
  ASSUME NEW ds \in Seq(Drafts), NEW K \in SUBSET DOMAIN ds, NEW k \in DOMAIN ds, k \notin K, NEW f
  PROVE  LargeOf(ds, K \cup {k}, f) = LargeOf(ds, K, f) + LargeGain(ds[k], f) /\ LargeGain(ds[k], f) \in Nat
<1>1. PICK larges : larges = [j \in DOMAIN ds |-> ds[j].large]
  OBVIOUS
<1>2. \A j \in DOMAIN ds : larges[j] = ds[j].large /\ larges[j] \in Nat
  <2>1. \A j \in DOMAIN ds : ds[j] \in Drafts
    OBVIOUS
  <2>2. QED
    BY <1>1, <2>1 DEF Drafts
<1>3. LargeOf(ds, K, f) \in Nat
  BY LargeLemma
<1>4. CASE Student[ds[k].student].payer = f
  <2>1. PlacesOf(ds, K \cup {k}, f) = PlacesOf(ds, K, f) \cup {k} /\ k \notin PlacesOf(ds, K, f)
    BY <1>4 DEF PlacesOf
  <2>2. PlacesOf(ds, K \cup {k}, f) \in SUBSET DOMAIN ds /\ IsFiniteSet(PlacesOf(ds, K \cup {k}, f))
    <3>1. K \cup {k} \in SUBSET DOMAIN ds
      OBVIOUS
    <3>2. QED
      BY <3>1, DraftsLemma DEF PlacesOf
  <2>3. PICK all \in SUBSET DOMAIN ds : all = PlacesOf(ds, K, f) \cup {k} /\ IsFiniteSet(all)
    BY <2>1, <2>2
  <2>4. Summable(larges, all)
    BY <1>2, <2>3 DEF Summable
  <2>5. SumFunctionOnSet(larges, PlacesOf(ds, K, f) \cup {k}) = larges[k] + SumFunctionOnSet(larges, PlacesOf(ds, K, f))
    BY <2>1, <2>3, <2>4, SumAdd
  <2>6. LargeOf(ds, K \cup {k}, f) = ds[k].large + LargeOf(ds, K, f)
    BY <1>1, <1>2, <2>1, <2>5 DEF LargeOf
  <2>7. QED
    BY <1>2, <1>3, <1>4, <2>6 DEF LargeGain
<1>5. CASE Student[ds[k].student].payer # f
  <2>1. PlacesOf(ds, K \cup {k}, f) = PlacesOf(ds, K, f)
    BY <1>5 DEF PlacesOf
  <2>2. QED
    BY <1>3, <1>5, <2>1 DEF LargeOf, LargeGain
<1>6. QED
  BY <1>4, <1>5

\* Drafts that take nothing.
LEMMA LargeNothing ==
  ASSUME NEW ds \in Seq(Drafts), NEW f, \A k \in DOMAIN ds : Student[ds[k].student].payer = f => ds[k].large = 0,
         NEW K \in SUBSET DOMAIN ds
  PROVE  LargeOf(ds, K, f) = 0
<1>1. PICK larges : larges = [j \in DOMAIN ds |-> ds[j].large]
  OBVIOUS
<1>2. IsFiniteSet(PlacesOf(ds, K, f)) /\ PlacesOf(ds, K, f) \in SUBSET DOMAIN ds
  BY DraftsLemma DEF PlacesOf
<1>3. \A k \in PlacesOf(ds, K, f) : larges[k] = 0
  BY <1>1, <1>2 DEF PlacesOf
<1>4. QED
  BY <1>1, <1>2, <1>3, SumZero DEF LargeOf

\* The draft that is added is the last; what the others take stays.
LEMMA LargeDrafted ==
  ASSUME NEW ds \in Seq(Drafts), NEW d \in Drafts, NEW f
  PROVE  LargeOf(Append(ds, d), DOMAIN Append(ds, d), f) = LargeOf(ds, DOMAIN ds, f) + LargeGain(d, f)
<1>1. PICK n \in Nat, all \in Seq(Drafts) : n = Len(ds) /\ all = Append(ds, d)
  BY AppendLemma
<1>2. /\ DOMAIN ds = 1..n /\ DOMAIN all = 1..(n + 1) /\ all[n + 1] = d
      /\ \A k \in DOMAIN ds : k \in DOMAIN all /\ all[k] = ds[k]
  BY <1>1
<1>3. PICK K \in SUBSET DOMAIN all : K = DOMAIN ds
  BY <1>2
<1>4. DOMAIN all = K \cup {n + 1} /\ n + 1 \notin K /\ n + 1 \in DOMAIN all
  BY <1>2, <1>3
<1>5. LargeOf(all, K \cup {n + 1}, f) = LargeOf(all, K, f) + LargeGain(d, f)
  BY <1>2, <1>4, LargeGains
<1>6. LargeOf(all, K, f) = LargeOf(ds, DOMAIN ds, f)
  <2>1. PICK places : places = PlacesOf(ds, DOMAIN ds, f)
    OBVIOUS
  <2>2. PlacesOf(all, K, f) = places /\ places \in SUBSET DOMAIN ds /\ IsFiniteSet(places)
    <3>1. IsFiniteSet(places) /\ places \in SUBSET DOMAIN ds
      BY <2>1, DraftsLemma DEF PlacesOf
    <3>2. QED
      BY <1>2, <1>3, <2>1, <3>1 DEF PlacesOf
  <2>3. PICK g, h : g = [j \in DOMAIN ds |-> ds[j].large] /\ h = [j \in DOMAIN all |-> all[j].large]
    OBVIOUS
  <2>4. \A k \in places : g[k] \in Int /\ h[k] = g[k]
    <3>1. \A k \in DOMAIN ds : ds[k] \in Drafts
      OBVIOUS
    <3>2. QED
      BY <1>2, <2>2, <2>3, <3>1 DEF Drafts
  <2>5. Summable(g, places)
    BY <2>2, <2>4 DEF Summable
  <2>6. SumFunctionOnSet(g, places) = SumFunctionOnSet(h, places)
    BY <2>4, <2>5, SumSame
  <2>7. QED
    BY <2>1, <2>2, <2>3, <2>6 DEF LargeOf
<1>7. QED
  BY <1>1, <1>4, <1>5, <1>6

-----------------------------------------------------------------------------
(* Steps that spend nothing *)

\* Everything said of what was spent is read from these tables.
LEMMA SpentSame ==
  ASSUME UNCHANGED <<charges, studentState, payerState>>
  PROVE  /\ \A s, intro, sibling : Granted(s, intro, sibling) => Granted(s, intro, sibling)'
         /\ \A s : Booked(s) => Booked(s)'
         /\ \A d : Splits(d) => Splits(d)'
         /\ \A f : Large(f)' = Large(f) /\ (FamilyBooked(f) => FamilyBooked(f)')
<1>1. /\ \A s : Mine(s)' = Mine(s) /\ Intro(s)' = Intro(s) /\ Sibling(s)' = Sibling(s)
      /\ \A f : Large(f)' = Large(f)
  BY DEF Mine, Intro, Sibling, Large, ChargesOf
<1>2. \A s, intro, sibling : Granted(s, intro, sibling) => Granted(s, intro, sibling)'
  BY <1>1 DEF Granted, Free
<1>3. ASSUME NEW s, Booked(s)
      PROVE  Booked(s)'
  BY <1>1, <1>2, <1>3 DEF Booked
<1>4. ASSUME NEW d, Splits(d)
      PROVE  Splits(d)'
  BY <1>4 DEF Splits, Free, StateOf
<1>5. ASSUME NEW f, FamilyBooked(f)
      PROVE  FamilyBooked(f)'
  BY <1>1, <1>5 DEF FamilyBooked
<1>6. QED
  BY <1>1, <1>2, <1>3, <1>4, <1>5

\* A request that charges nothing: everything is booked, before the step and after it.
Away(r) == /\ r.pc \notin {"charge", "student", "payer"}
           /\ r.pc \in {"draft", "batch"} => r.drafts = <<>> /\ DOMAIN r.cards = {}

LEMMA AwayLemma ==
  ASSUME NEW r, r.pc \notin {"charge", "student", "payer"}
  PROVE  /\ Spent(r) => AllBooked
         /\ Spent(r)' => AllBooked'
         /\ Away(r) /\ AllBooked => Spent(r)
         /\ Away(r) /\ AllBooked' => Spent(r)'
<1>1. Unsaved(r) = {}
  BY DEF Unsaved
<1>2. Spent(r) => AllBooked
  BY <1>1 DEF Spent, StudentsBooked, FamiliesBooked, AllBooked
<1>3. Spent(r)' => AllBooked'
  BY <1>1 DEF Spent, StudentsBooked, FamiliesBooked, AllBooked, Unsaved
<1>4. ASSUME Away(r)
      PROVE  Unwritten(r) = {} /\ (OnCharges(r) => DOMAIN r.cards = {})
             /\ (r.pc \in {"draft", "batch", "charge"} => DOMAIN r.drafts = {})
  BY <1>4 DEF Away, Unwritten, OnCharges
<1>5. Away(r) /\ AllBooked => Spent(r)
  BY <1>1, <1>4 DEF Spent, StudentsBooked, FamiliesBooked, AllBooked
<1>6. Away(r) /\ AllBooked' => Spent(r)'
  BY <1>1, <1>4 DEF Spent, StudentsBooked, FamiliesBooked, AllBooked, Unsaved, Unwritten, OnCharges
<1>7. QED
  BY <1>2, <1>3, <1>5, <1>6

\* The step of one request keeps the accounts if it takes its own from before to after.
LEMMA SpentStep ==
  ASSUME SpentInv, BooksInv', NEW o \in Operators, NEW r, r = request[o], NEW rec, Moves(o, rec), rec.pc # "dead",
         Begin(o) \/ (Continue /\ Working(o)), Alone => (Books(r) /\ Spent(r) => Spent(rec)')
  PROVE  SpentInv'
<1>0. BooksInv
  BY DEF SpentInv
<1>1. CASE ~Alone'
  BY <1>1 DEF SpentInv
<1>2. CASE Alone'
  <2>1. Alone /\ OthersIdle(o) /\ OthersIdle(o)' /\ (Working(o) \/ request[o].pc = "idle")
    BY <1>0, <1>2, LoneLemma DEF BooksInv
  <2>2. Spent(rec)'
    <3>1. CASE Working(o)
      <4>1. Books(r) /\ Spent(r)
        BY <1>0, <2>1, <3>1 DEF BooksInv, SpentInv
      <4>2. QED
        BY <2>1, <4>1
    <3>2. CASE r.pc = "idle"
      <4>1. Quiet
        BY <2>1, <3>2 DEF Quiet, Working, OthersIdle
      <4>2. AllBooked /\ Books(Idle)
        BY <1>0, <2>1, <4>1 DEF BooksInv, SpentInv
      <4>3. Spent(r)
        BY <3>2, <4>2, AwayLemma DEF Away
      <4>4. r \in RequestRows
        BY <1>0 DEF BooksInv, ChargeInv, TypeInv, RequestInv
      <4>5. Books(r)
        BY <3>2, <4>2, <4>4, IdleBooks
      <4>6. QED
        BY <2>1, <4>3, <4>5
    <3>3. QED
      BY <2>1, <3>1, <3>2
  <2>3. request'[o] = rec
    BY DEF Moves
  <2>4. ASSUME NEW p \in Operators, Working(p)'
        PROVE  Spent(request[p])'
    <3>1. p = o
      BY <2>1, <2>4 DEF OthersIdle, Working
    <3>2. Spent(request[o])'
      BY <2>2, <2>3 DEF Spent, StudentsBooked, FamiliesBooked, Unsaved, Unwritten, OnCharges
    <3>3. QED
      BY <3>1, <3>2
  <2>5. ASSUME Quiet'
        PROVE  AllBooked'
    <3>1. rec.pc = "idle"
      BY <2>3, <2>5 DEF Quiet, Working
    <3>2. QED
      BY <2>2, <3>1, AwayLemma
  <2>6. QED
    BY <2>4, <2>5 DEF SpentInv
<1>3. QED
  BY <1>1, <1>2

\* Steps that leave every table of charges alone, of requests that are not charging.
LEMMA SpentAway ==
  ASSUME SpentInv, BooksInv', UNCHANGED <<charges, studentState, payerState>>, NEW o \in Operators,
         request[o].pc \notin {"charge", "student", "payer"}, NEW rec, Moves(o, rec), rec.pc # "dead", Away(rec),
         Begin(o) \/ (Continue /\ Working(o))
  PROVE  SpentInv'
<1>1. PICK r : r = request[o]
  OBVIOUS
<1>2. ASSUME Spent(r)
      PROVE  Spent(rec)'
  <2>1. AllBooked
    BY <1>1, <1>2, AwayLemma
  <2>2. AllBooked'
    BY <2>1, SpentSame DEF AllBooked
  <2>3. QED
    BY <2>2, AwayLemma DEF Away
<1>3. QED
  BY <1>1, <1>2, SpentStep

\* Steps of one transaction that leave every request as it is.
LEMMA SpentStill ==
  ASSUME SpentInv, BooksInv', UNCHANGED <<charges, studentState, payerState, request>>, Alone' => Alone
  PROVE  SpentInv'
<1>1. ASSUME NEW r, Spent(r)
      PROVE  Spent(r)'
  BY <1>1, SpentSame DEF Spent, StudentsBooked, FamiliesBooked, Unsaved, Unwritten, OnCharges
<1>2. AllBooked => AllBooked'
  BY SpentSame DEF AllBooked
<1>3. Quiet' => Quiet
  BY DEF Quiet, Working
<1>4. ASSUME NEW o \in Operators, Alone', Working(o)'
      PROVE  Spent(request[o])'
  <2>1. PICK r : r = request[o] /\ request'[o] = r
    OBVIOUS
  <2>2. Spent(r)
    BY <1>4, <2>1 DEF SpentInv, Working
  <2>3. Spent(r)'
    BY <1>1, <2>2
  <2>4. QED
    BY <2>1, <2>3 DEF Spent, StudentsBooked, FamiliesBooked, Unsaved, Unwritten, OnCharges
<1>5. QED
  BY <1>2, <1>3, <1>4 DEF SpentInv

\* The discount of a family is read: nothing is drafted for it yet.
LEMMA ReadCardSpent ==
  ASSUME SpentInv, BooksInv', NEW o \in Operators, ReadCard(o)
  PROVE  SpentInv'
<1>1. TypeInv /\ TypeInv'
  BY DEF SpentInv, BooksInv, ChargeInv
<1>2. UNCHANGED <<charges, studentState, payerState>> /\ Continue
  BY <1>1, TakesCardLemma DEF charging
<1>3. PICK r \in RequestRows, rec \in RequestRows, f \in Payers, card \in Nat : TakesCard(o, r, rec, f, card)
  BY <1>1, TakesCardLemma
<1>4. /\ r = request[o] /\ Moves(o, rec) /\ r.pc = "draft" /\ rec.pc = "draft" /\ rec.drafts = r.drafts
      /\ f \notin DOMAIN r.cards /\ card = CardLeft(f, r.model) /\ rec.cards = WithCard(r.cards, f, card)
      /\ r.model \in Models
  BY <1>3 DEF TakesCard, Charger, StageOK, ChargeStage
<1>5. DOMAIN rec.cards = DOMAIN r.cards \cup {f} /\ rec.cards[f] = card
      /\ \A g \in DOMAIN r.cards : rec.cards[g] = r.cards[g]
  BY <1>4 DEF WithCard
<1>6. PICK ds \in Seq(Drafts) : ds = r.drafts
  BY DEF RequestRows
<1>7. Unwritten(r) = DOMAIN ds /\ Unwritten(rec) = DOMAIN ds /\ Unsaved(r) = {} /\ Unsaved(rec) = {}
  BY <1>4, <1>6 DEF Unwritten, Unsaved
<1>8. ASSUME Spent(r)
      PROVE  Spent(rec)'
  <2>1. StudentsBooked(rec)'
    <3>1. (\A s \in Students : Booked(s)) /\ \A k \in DOMAIN ds : Splits(ds[k])
      BY <1>6, <1>7, <1>8 DEF Spent, StudentsBooked
    <3>2. (\A s \in Students : Booked(s)') /\ \A k \in DOMAIN ds : Splits(ds[k])'
      BY <1>2, <3>1, SpentSame
    <3>3. QED
      BY <1>4, <1>6, <3>2 DEF StudentsBooked, Unsaved, Unwritten
  <2>2. \A g \in Payers : FamilyBooked(g)
    BY <1>4, <1>8 DEF Spent, FamiliesBooked
  <2>3. \A g \in DOMAIN r.cards : \E m \in Models : Large(g) + r.cards[g] + LargeOf(ds, DOMAIN ds, g) = Model[m].large
    BY <1>4, <1>6, <1>7, <1>8 DEF Spent, FamiliesBooked, OnCharges
  <2>4. \A k \in DOMAIN ds : Student[ds[k].student].payer \notin DOMAIN r.cards => ds[k].large = 0
    BY <1>4, <1>6, <1>8 DEF Spent, FamiliesBooked
  <2>5. \E m \in Models : Large(f) + card + LargeOf(ds, DOMAIN ds, f) = Model[m].large
    <3>1. \A k \in DOMAIN ds : Student[ds[k].student].payer = f => ds[k].large = 0
      BY <1>4, <2>4
    <3>2. LargeOf(ds, DOMAIN ds, f) = 0
      BY <3>1, LargeNothing
    <3>3. Large(f) \in Nat
      BY <1>1, TakenLemma DEF TypeInv
    <3>4. \E m \in Models : Large(f) + card = Model[m].large
      <4>1. CASE payerState[f] = NoState
        <5>1. Large(f) = 0 /\ card = Model[r.model].large
          BY <1>4, <2>2, <4>1 DEF FamilyBooked, CardLeft
        <5>2. QED
          BY <1>4, <5>1
      <4>2. CASE payerState[f] # NoState
        BY <1>4, <2>2, <4>2 DEF FamilyBooked, CardLeft
      <4>3. QED
        BY <4>1, <4>2
    <3>5. QED
      BY <3>2, <3>3, <3>4
  <2>6. \A g \in DOMAIN rec.cards :
          \E m \in Models : Large(g) + rec.cards[g] + LargeOf(ds, DOMAIN ds, g) = Model[m].large
    BY <1>5, <2>3, <2>5
  <2>7. \A g \in Payers : FamilyBooked(g)' /\ Large(g)' = Large(g)
    BY <1>2, <2>2, SpentSame
  <2>8. \A g \in DOMAIN rec.cards :
          \E m \in Models : Large(g)' + rec.cards[g] + LargeOf(ds, DOMAIN ds, g) = Model[m].large
    <3>1. DOMAIN rec.cards \subseteq Payers
      BY PartialLemma DEF RequestRows
    <3>2. QED
      BY <2>6, <2>7, <3>1
  <2>9. FamiliesBooked(rec)'
    <3>1. \A k \in DOMAIN ds : Student[ds[k].student].payer \notin DOMAIN rec.cards => ds[k].large = 0
      BY <1>5, <2>4
    <3>2. \A g : LargeOf(rec.drafts, Unwritten(rec), g)' = LargeOf(ds, DOMAIN ds, g)
      BY <1>4, <1>6, <1>7 DEF LargeOf, PlacesOf, Unwritten
    <3>3. \A g \in DOMAIN rec.cards : \E m \in Models :
            Large(g)' + rec.cards[g] + LargeOf(rec.drafts, Unwritten(rec), g)' = Model[m].large
      BY <2>8, <3>2
    <3>4. \A g \in Payers : FamilyBooked(g)'
      BY <2>7
    <3>5. rec.drafts = ds
      BY <1>4, <1>6
    <3>6. QED
      BY <3>1, <3>3, <3>4, <3>5 DEF FamiliesBooked
  <2>10. QED
    BY <2>1, <2>9 DEF Spent
<1>9. Working(o) /\ rec.pc # "dead"
  BY <1>4 DEF Working
<1>10. QED
  BY <1>2, <1>4, <1>8, <1>9, SpentStep

\* A draft splits what its student has left, and takes from the card what it gives.
LEMMA DraftSpent ==
  ASSUME SpentInv, BooksInv', NEW o \in Operators, DraftCharge(o)
  PROVE  SpentInv'
<1>1. TypeInv /\ TypeInv' /\ ChargeInv
  BY DEF SpentInv, BooksInv, ChargeInv
<1>2. UNCHANGED <<charges, studentState, payerState>> /\ Continue
  BY <1>1, DraftedLemma DEF charging
<1>3. PICK r \in RequestRows, rec \in RequestRows, s \in Students, d \in Drafts, card \in Nat :
        Drafted(o, r, rec, s, d, card)
  BY <1>1, DraftedLemma
<1>4. PICK f \in Payers : f = Student[s].payer
  BY BillingAssumption
<1>5. /\ r = request[o] /\ Moves(o, rec) /\ r.pc = "draft" /\ rec.pc \in {"draft", "batch"}
      /\ s = NextPupil(o) /\ d = Draft(s, r.model, card) /\ rec.drafts = Append(r.drafts, d) /\ r.model \in Models
      /\ card = (IF f \in DOMAIN r.cards THEN r.cards[f] ELSE 0)
      /\ rec.cards = (IF f \in DOMAIN r.cards THEN WithCard(r.cards, f, r.cards[f] - d.large) ELSE r.cards)
  BY <1>3, <1>4 DEF Drafted, Charger, StageOK, ChargeStage
<1>6. DOMAIN rec.cards = DOMAIN r.cards /\ (f \in DOMAIN r.cards => rec.cards[f] = r.cards[f] - d.large)
      /\ \A g \in DOMAIN r.cards : g # f => rec.cards[g] = r.cards[g]
  BY <1>5 DEF WithCard
<1>7. Student[s].model = r.model
  <2>1. NextPlace(o) \in r.left
    BY <1>1, <1>5, NextPupilLemma
  <2>2. StillToDraft(r)
    BY <1>1, <1>5 DEF ChargeInv, Rostered
  <2>3. QED
    BY <1>5, <2>1, <2>2 DEF StillToDraft, NextPupil
<1>8. /\ d.student = s /\ d.large <= card
      /\ d.intro + d.introLeft * Model[r.model].rate = StateOf(s).intro * Model[r.model].rate
      /\ d.sibling + d.siblingLeft = StateOf(s).sibling
  BY <1>1, <1>5, DraftLemma DEF TypeInv
<1>9. Splits(d) /\ LargeGain(d, f) = d.large /\ \A g : g # f => LargeGain(d, g) = 0
  BY <1>4, <1>7, <1>8 DEF Splits, Free, LargeGain
<1>10. PICK ds \in Seq(Drafts), all \in Seq(Drafts) : ds = r.drafts /\ all = Append(ds, d) /\ all = rec.drafts
  BY <1>5 DEF RequestRows
<1>11. \A k \in DOMAIN all : (k \in DOMAIN ds /\ all[k] = ds[k]) \/ all[k] = d
  <2>1. PICK n \in Nat : n = Len(ds) /\ DOMAIN ds = 1..n
    OBVIOUS
  <2>2. DOMAIN all = 1..(n + 1) /\ all[n + 1] = d /\ \A k \in 1..n : all[k] = ds[k]
    <3>1. all = Append(ds, d)
      BY <1>10
    <3>2. QED
      BY <2>1, <3>1
  <2>3. \A k \in 1..(n + 1) : k \in 1..n \/ k = n + 1
    OBVIOUS
  <2>4. QED
    BY <2>1, <2>2, <2>3
<1>12. Unwritten(r) = DOMAIN ds /\ Unwritten(rec) = DOMAIN all /\ Unsaved(r) = {} /\ Unsaved(rec) = {}
  BY <1>5, <1>10 DEF Unwritten, Unsaved
<1>13. d.large \in Nat /\ r.cards \in [DOMAIN r.cards -> Nat] /\ DOMAIN r.cards \subseteq Payers
  BY PartialLemma DEF RequestRows, Drafts
<1>14. ASSUME Spent(r)
       PROVE  Spent(rec)'
  <2>1. StudentsBooked(rec)'
    <3>1. (\A x \in Students : Booked(x)) /\ \A k \in DOMAIN ds : Splits(ds[k])
      BY <1>10, <1>12, <1>14 DEF Spent, StudentsBooked
    <3>2. \A k \in DOMAIN all : Splits(all[k])
      BY <1>9, <1>11, <3>1
    <3>3. (\A x \in Students : Booked(x)') /\ \A k \in DOMAIN all : Splits(all[k])'
      BY <1>2, <3>1, <3>2, SpentSame
    <3>4. QED
      BY <1>5, <1>10, <3>3 DEF StudentsBooked, Unsaved, Unwritten
  <2>2. \A g \in Payers : FamilyBooked(g)' /\ Large(g)' = Large(g)
    <3>1. \A g \in Payers : FamilyBooked(g)
      BY <1>5, <1>14 DEF Spent, FamiliesBooked
    <3>2. QED
      BY <1>2, <3>1, SpentSame
  <2>3. \A g \in DOMAIN r.cards : \E m \in Models : Large(g) + r.cards[g] + LargeOf(ds, DOMAIN ds, g) = Model[m].large
    BY <1>5, <1>10, <1>12, <1>14 DEF Spent, FamiliesBooked, OnCharges
  <2>4. \A k \in DOMAIN ds : Student[ds[k].student].payer \notin DOMAIN r.cards => ds[k].large = 0
    BY <1>5, <1>10, <1>14 DEF Spent, FamiliesBooked
  <2>5. \A k \in DOMAIN all : Student[all[k].student].payer \notin DOMAIN rec.cards => all[k].large = 0
    <3>1. f \notin DOMAIN r.cards => d.large = 0
      BY <1>5, <1>8, <1>13
    <3>2. QED
      BY <1>4, <1>6, <1>8, <1>11, <2>4, <3>1
  <2>6. ASSUME NEW g \in DOMAIN rec.cards
        PROVE  \E m \in Models : Large(g)' + rec.cards[g] + LargeOf(all, DOMAIN all, g) = Model[m].large
    <3>1. g \in DOMAIN r.cards /\ g \in Payers /\ r.cards[g] \in Nat
      BY <1>6, <1>13
    <3>2. PICK m \in Models : Large(g) + r.cards[g] + LargeOf(ds, DOMAIN ds, g) = Model[m].large
      BY <2>3, <3>1
    <3>3. LargeOf(all, DOMAIN all, g) = LargeOf(ds, DOMAIN ds, g) + LargeGain(d, g)
      <4>1. LargeOf(Append(ds, d), DOMAIN Append(ds, d), g) = LargeOf(ds, DOMAIN ds, g) + LargeGain(d, g)
        BY LargeDrafted, Zenon
      <4>2. QED
        BY <1>10, <4>1, Zenon
    <3>4. LargeOf(ds, DOMAIN ds, g) \in Nat /\ Large(g) \in Nat
      BY <1>1, LargeLemma, TakenLemma DEF TypeInv
    <3>5. rec.cards[g] = r.cards[g] - LargeGain(d, g) /\ LargeGain(d, g) \in Nat
      BY <1>6, <1>9, <1>13, <3>1
    <3>6. Large(g)' + rec.cards[g] + LargeOf(all, DOMAIN all, g) = Model[m].large
      BY <2>2, <3>1, <3>2, <3>3, <3>4, <3>5
    <3>7. QED
      BY <3>6
  <2>7. \A g : LargeOf(rec.drafts, Unwritten(rec), g)' = LargeOf(all, DOMAIN all, g)
    BY <1>10, <1>12 DEF LargeOf, PlacesOf, Unwritten
  <2>8. FamiliesBooked(rec)'
    BY <1>5, <1>10, <2>2, <2>5, <2>6, <2>7 DEF FamiliesBooked, OnCharges
  <2>9. QED
    BY <2>1, <2>8 DEF Spent
<1>15. Working(o) /\ rec.pc # "dead"
  BY <1>5 DEF Working
<1>16. QED
  BY <1>2, <1>5, <1>14, <1>15, SpentStep

LEMMA BatchSpent ==
  ASSUME SpentInv, BooksInv', NEW o \in Operators, CreateBatch(o)
  PROVE  SpentInv'
<1>1. TypeInv /\ TypeInv'
  BY DEF SpentInv, BooksInv, ChargeInv
<1>2. UNCHANGED <<charges, studentState, payerState>> /\ Continue
  BY <1>1, BatchedLemma
<1>3. ASSUME Moves(o, Idle), request[o].pc = "batch"
      PROVE  SpentInv'
  <2>1. Idle.pc = "idle" /\ Away(Idle) /\ Working(o)
    BY <1>3, IdleLemma DEF Away, Working
  <2>2. QED
    BY <1>2, <1>3, <2>1, SpentAway
<1>4. ASSUME NEW r \in RequestRows, NEW rec \in RequestRows, NEW b \in BatchRows, NEW n \in Nat, Batched(o, r, rec, b, n)
      PROVE  SpentInv'
  <2>1. /\ r = request[o] /\ Moves(o, rec) /\ r.pc = "batch" /\ rec.pc = "charge" /\ rec.i = 1
        /\ rec.drafts = r.drafts /\ rec.cards = r.cards
    BY <1>4 DEF Batched, Charger
  <2>2. PICK ds \in Seq(Drafts) : ds = r.drafts /\ \A k \in DOMAIN ds : k >= 1 /\ ~(k < 1)
    BY DEF RequestRows
  <2>3. Unwritten(r) = DOMAIN ds /\ Unsaved(r) = {}
    BY <2>1, <2>2 DEF Unwritten, Unsaved
  <2>4. Unwritten(rec) = DOMAIN ds /\ Unsaved(rec) = {}
    BY <2>1, <2>2 DEF Unwritten, Unsaved
  <2>5. ASSUME Spent(r)
        PROVE  Spent(rec)'
    <3>1. StudentsBooked(rec)'
      <4>1. (\A s \in Students : Booked(s)) /\ \A k \in DOMAIN ds : Splits(ds[k])
        BY <2>2, <2>3, <2>5 DEF Spent, StudentsBooked
      <4>2. (\A s \in Students : Booked(s)') /\ \A k \in DOMAIN ds : Splits(ds[k])'
        BY <1>2, <4>1, SpentSame
      <4>3. Unsaved(rec)' = {} /\ Unwritten(rec)' = DOMAIN ds
        BY <2>4 DEF Unsaved, Unwritten
      <4>4. QED
        BY <2>1, <2>2, <4>2, <4>3 DEF StudentsBooked
    <3>2. \A g \in Payers : FamilyBooked(g)' /\ Large(g)' = Large(g)
      <4>1. \A g \in Payers : FamilyBooked(g)
        BY <2>1, <2>5 DEF Spent, FamiliesBooked
      <4>2. QED
        BY <1>2, <4>1, SpentSame
    <3>3. \A g \in DOMAIN r.cards : \E m \in Models : Large(g) + r.cards[g] + LargeOf(ds, DOMAIN ds, g) = Model[m].large
      BY <2>1, <2>2, <2>3, <2>5 DEF Spent, FamiliesBooked, OnCharges
    <3>4. \A k \in DOMAIN ds : Student[ds[k].student].payer \notin DOMAIN r.cards => ds[k].large = 0
      BY <2>1, <2>2, <2>5 DEF Spent, FamiliesBooked
    <3>5. DOMAIN r.cards \subseteq Payers
      BY PartialLemma DEF RequestRows
    <3>6. \A g \in DOMAIN rec.cards : \E m \in Models : Large(g)' + rec.cards[g] + LargeOf(ds, DOMAIN ds, g) = Model[m].large
      BY <2>1, <3>2, <3>3, <3>5
    <3>7. \A g : LargeOf(rec.drafts, Unwritten(rec), g)' = LargeOf(ds, DOMAIN ds, g)
      BY <2>1, <2>2, <2>4 DEF LargeOf, PlacesOf, Unwritten
    <3>8. FamiliesBooked(rec)'
      BY <2>1, <2>2, <3>2, <3>4, <3>6, <3>7 DEF FamiliesBooked, OnCharges
    <3>9. QED
      BY <3>1, <3>8 DEF Spent
  <2>6. Working(o) /\ rec.pc # "dead"
    BY <2>1 DEF Working
  <2>7. QED
    BY <1>2, <2>1, <2>5, <2>6, SpentStep
<1>5. QED
  BY <1>1, <1>3, <1>4, BatchedLemma

\* With the charge of a draft that splits what its student had left, the student's account is that
\* of the state the draft leaves.
LEMMA GrantedLemma ==
  ASSUME TypeInv, TypeInv', NEW d \in Drafts, Splits(d), Booked(d.student), NEW c \in ChargeRows, c \notin charges,
         charges' = charges \cup {c}, c.student = d.student, c.intro = d.intro, c.sibling = d.sibling
  PROVE  Granted(d.student, d.introLeft, d.siblingLeft)'
<1>1. PICK s \in Students : s = d.student /\ s = c.student
  BY DEF Drafts
<1>2. PICK intro \in Nat, sibling \in Nat, introLeft \in Nat, siblingLeft \in Nat :
        intro = d.intro /\ sibling = d.sibling /\ introLeft = d.introLeft /\ siblingLeft = d.siblingLeft
  BY DEF Drafts
<1>3. Intro(s)' = Intro(s) + intro /\ Sibling(s)' = Sibling(s) + sibling
  BY <1>1, <1>2, TakenGains
<1>4. Intro(s) \in Nat /\ Sibling(s) \in Nat
  BY <1>1, TakenLemma DEF TypeInv
<1>5. PICK m : m = Model[Student[s].model] /\ m.intro \in Nat /\ m.sibling \in Nat
  BY <1>1, BillingAssumption
<1>6. /\ intro + Free(s, introLeft) = Free(s, StateOf(s).intro)
      /\ sibling + siblingLeft = StateOf(s).sibling
  BY <1>1, <1>2 DEF Splits
<1>7. Intro(s) + Free(s, StateOf(s).intro) = Free(s, m.intro)
      /\ (Student[s].order > 1 => Sibling(s) + StateOf(s).sibling = m.sibling)
  <2>1. CASE studentState[s] = NoState
    <3>1. Mine(s) = {}
      BY <1>1, <2>1 DEF Booked
    <3>2. Intro(s) = 0 /\ Sibling(s) = 0
      BY <3>1, SumNone DEF Intro, Sibling
    <3>3. StateOf(s).intro = m.intro /\ (Student[s].order > 1 => StateOf(s).sibling = m.sibling)
      BY <1>1, <1>5, <2>1, BillingAssumption DEF StateOf
    <3>4. Free(s, m.intro) \in Nat
      BY <1>1, <1>5, FreeLemma
    <3>5. QED
      BY <1>5, <3>2, <3>3, <3>4
  <2>2. CASE studentState[s] # NoState
    <3>1. Granted(s, studentState[s].intro, studentState[s].sibling)
      BY <1>1, <2>2 DEF Booked
    <3>2. studentState[s].sibling \in Nat
      BY <1>1, <2>2 DEF TypeInv, TablesInv, StudentStates
    <3>3. Student[s].order > 1 => Sibling(s) + studentState[s].sibling = m.sibling
      BY <1>5, <3>1 DEF Granted
    <3>4. Intro(s) + Free(s, StateOf(s).intro) = Free(s, m.intro)
      BY <1>5, <2>2, <3>1 DEF Granted, StateOf
    <3>5. Student[s].order > 1 => StateOf(s).sibling = (IF m.sibling = 0 THEN 0 ELSE studentState[s].sibling)
      BY <1>1, <1>5, <2>2, BillingAssumption DEF StateOf
    <3>6. QED
      BY <1>4, <3>2, <3>3, <3>4, <3>5
  <2>3. QED
    BY <2>1, <2>2
<1>8. Free(s, introLeft) \in Nat /\ Free(s, m.intro) \in Nat /\ Free(s, StateOf(s).intro) \in Nat
  BY <1>1, <1>2, <1>5, FreeLemma, StateLemma DEF TypeInv
<1>9. Intro(s)' + Free(s, introLeft) = Free(s, m.intro)
  BY <1>2, <1>3, <1>4, <1>6, <1>7, <1>8
<1>10. Student[s].order > 1 => Sibling(s)' + siblingLeft = m.sibling
  BY <1>2, <1>3, <1>4, <1>5, <1>6, <1>7
<1>11. QED
  BY <1>1, <1>2, <1>5, <1>9, <1>10 DEF Granted, Free

LEMMA CreateSpent ==
  ASSUME SpentInv, BooksInv', NEW o \in Operators, CreateCharge(o)
  PROVE  SpentInv'
<1>1. TypeInv /\ TypeInv' /\ ChargeInv
  BY DEF SpentInv, BooksInv, ChargeInv
<1>2. UNCHANGED <<studentState, payerState>> /\ Continue
  BY <1>1, ChargesLemma
<1>3. PICK r \in RequestRows, rec \in RequestRows, d \in Drafts, c \in ChargeRows : Charges1(o, r, rec, d, c)
  BY <1>1, ChargesLemma
<1>4. /\ r = request[o] /\ Moves(o, rec) /\ r.pc = "charge" /\ GoesOn(r, rec, "student")
      /\ d = r.drafts[r.i] /\ charges' = charges \cup {c}
  BY <1>3 DEF Charges1, Charger
<1>5. rec.pc \in {"charge", "student"} /\ rec.drafts = r.drafts /\ rec.cards = r.cards
  BY <1>4 DEF GoesOn
<1>6. PICK ds \in Seq(Drafts), i \in Nat : ds = r.drafts /\ i = r.i /\ i \in DOMAIN ds
  BY <1>3, <1>4 DEF Charges1, Charger, StageOK, ChargeStage, RequestRows
<1>7. DOMAIN ds = 1..Len(ds) /\ Len(ds) \in Nat
  OBVIOUS
<1>8. PICK K \in SUBSET DOMAIN ds, U \in SUBSET DOMAIN ds : K = {k \in DOMAIN ds : k >= i + 1} /\ U = {k \in DOMAIN ds : k < i}
  OBVIOUS
<1>9. Unwritten(r) = K \cup {i} /\ i \notin K /\ Unsaved(r) = U /\ i \notin U
  <2>1. Unwritten(r) = {k \in DOMAIN ds : k >= i} /\ Unsaved(r) = {k \in DOMAIN ds : k < i}
    BY <1>4, <1>6 DEF Unwritten, Unsaved
  <2>2. QED
    BY <1>6, <1>7, <1>8, <2>1
<1>10. Unwritten(rec) = K /\ Unsaved(rec) = U \cup {i}
  <2>1. CASE i < Len(ds)
    <3>1. rec.pc = "charge" /\ rec.i = i + 1
      BY <1>4, <1>6, <2>1 DEF GoesOn
    <3>2. Unwritten(rec) = {k \in DOMAIN ds : k >= i + 1} /\ Unsaved(rec) = {k \in DOMAIN ds : k < i + 1}
      BY <1>5, <1>6, <3>1 DEF Unwritten, Unsaved
    <3>3. QED
      BY <1>6, <1>7, <1>8, <3>2
  <2>2. CASE ~(i < Len(ds))
    <3>1. rec.pc = "student" /\ rec.i = 1
      BY <1>4, <1>6, <2>2 DEF GoesOn
    <3>2. Unwritten(rec) = {} /\ Unsaved(rec) = {k \in DOMAIN ds : k >= 1}
      BY <1>5, <1>6, <3>1 DEF Unwritten, Unsaved
    <3>3. QED
      BY <1>6, <1>7, <1>8, <2>2, <3>2
  <2>3. QED
    BY <2>1, <2>2
<1>11. Unwritten(rec)' = K /\ Unsaved(rec)' = U \cup {i}
  BY <1>10 DEF Unwritten, Unsaved
<1>12. /\ c.student = d.student /\ c.intro = d.intro /\ c.sibling = d.sibling /\ c.large = d.large
       /\ c \notin charges /\ d = ds[i] /\ DraftsOnce(r)
  BY <1>1, <1>3, <1>4, <1>6, NewChargeLemma DEF ChargeInv, Rostered
<1>13. \A k \in DOMAIN ds : ds[k].student = d.student => k = i
  BY <1>6, <1>12 DEF DraftsOnce
<1>14. /\ \A s : s # d.student => Mine(s)' = Mine(s) /\ Intro(s)' = Intro(s) /\ Sibling(s)' = Sibling(s)
       /\ \A f : Large(f)' = Large(f) + LargeGain(d, f)
  BY <1>1, <1>4, <1>12, TakenGains DEF LargeGain
<1>15. \A s, intro, sibling : (s # d.student /\ Granted(s, intro, sibling)) => Granted(s, intro, sibling)'
  BY <1>14 DEF Granted, Free
<1>16. \A x : StateOf(x)' = StateOf(x)
  BY <1>2 DEF StateOf
<1>17. ASSUME Spent(r)
       PROVE  Spent(rec)'
  <2>1. /\ \A s \in Students : (\A k \in U : ds[k].student # s) => Booked(s)
        /\ \A k \in U : Granted(ds[k].student, ds[k].introLeft, ds[k].siblingLeft)
        /\ \A k \in K \cup {i} : Splits(ds[k])
    BY <1>6, <1>9, <1>17 DEF Spent, StudentsBooked
  <2>2. Granted(d.student, d.introLeft, d.siblingLeft)'
    <3>1. Splits(d)
      BY <1>12, <2>1
    <3>2. Booked(d.student)
      <4>1. d.student \in Students /\ \A k \in U : ds[k].student # d.student
        BY <1>9, <1>13 DEF Drafts
      <4>2. QED
        BY <2>1, <4>1
    <3>3. QED
      BY <1>1, <1>4, <1>12, <3>1, <3>2, GrantedLemma
  <2>3. ASSUME NEW s \in Students, \A k \in U \cup {i} : ds[k].student # s
        PROVE  Booked(s)'
    <3>1. s # d.student /\ Booked(s)
      BY <1>12, <2>1, <2>3
    <3>2. Mine(s)' = Mine(s) /\ \A intro, sibling : Granted(s, intro, sibling) => Granted(s, intro, sibling)'
      BY <1>14, <1>15, <3>1
    <3>3. QED
      BY <1>2, <3>1, <3>2 DEF Booked
  <2>4. ASSUME NEW k \in U \cup {i}
        PROVE  Granted(ds[k].student, ds[k].introLeft, ds[k].siblingLeft)'
    <3>1. CASE k = i
      BY <1>12, <2>2, <3>1
    <3>2. CASE k # i
      <4>1. k \in U /\ ds[k].student # d.student
        BY <1>13, <2>4, <3>2
      <4>2. Granted(ds[k].student, ds[k].introLeft, ds[k].siblingLeft)
        BY <2>1, <4>1
      <4>3. QED
        BY <1>15, <4>1, <4>2
    <3>3. QED
      BY <3>1, <3>2
  <2>5. ASSUME NEW k \in K
        PROVE  Splits(ds[k])'
    <3>1. Splits(ds[k])
      BY <2>1, <2>5
    <3>2. QED
      BY <1>16, <3>1 DEF Splits, Free
  <2>6. StudentsBooked(rec)'
    BY <1>5, <1>6, <1>11, <2>3, <2>4, <2>5 DEF StudentsBooked
  <2>7. \A k \in DOMAIN ds : Student[ds[k].student].payer \notin DOMAIN r.cards => ds[k].large = 0
    BY <1>4, <1>6, <1>17 DEF Spent, FamiliesBooked
  <2>8. ASSUME NEW f \in Payers, f \notin DOMAIN r.cards
        PROVE  FamilyBooked(f)'
    <3>1. FamilyBooked(f)
      BY <1>17, <2>8 DEF Spent, FamiliesBooked
    <3>2. LargeGain(d, f) = 0
      BY <1>6, <1>12, <2>7, <2>8 DEF LargeGain
    <3>3. Large(f) \in Nat
      BY <1>1, TakenLemma DEF TypeInv
    <3>4. Large(f)' = Large(f)
      BY <1>14, <3>2, <3>3
    <3>5. QED
      BY <1>2, <3>1, <3>4 DEF FamilyBooked
  <2>9. ASSUME NEW g \in DOMAIN r.cards
        PROVE  \E m \in Models : Large(g)' + r.cards[g] + LargeOf(ds, K, g) = Model[m].large
    <3>1. PICK m \in Models : Large(g) + r.cards[g] + LargeOf(ds, K \cup {i}, g) = Model[m].large
      BY <1>4, <1>6, <1>9, <1>17 DEF Spent, FamiliesBooked, OnCharges
    <3>2. LargeOf(ds, K \cup {i}, g) = LargeOf(ds, K, g) + LargeGain(d, g) /\ LargeGain(d, g) \in Nat
      <4>1. i \in DOMAIN ds /\ i \notin K
        BY <1>6, <1>9
      <4>2. LargeOf(ds, K \cup {i}, g) = LargeOf(ds, K, g) + LargeGain(ds[i], g) /\ LargeGain(ds[i], g) \in Nat
        BY <4>1, LargeGains
      <4>3. QED
        BY <1>12, <4>2
    <3>3. LargeOf(ds, K, g) \in Nat /\ Large(g) \in Nat /\ r.cards[g] \in Nat
      <4>1. r.cards \in [DOMAIN r.cards -> Nat]
        BY PartialLemma DEF RequestRows
      <4>2. QED
        BY <1>1, <4>1, LargeLemma, TakenLemma DEF TypeInv
    <3>4. Large(g)' = Large(g) + LargeGain(d, g)
      BY <1>14
    <3>5. Large(g)' + r.cards[g] + LargeOf(ds, K, g) = Model[m].large
      BY <3>1, <3>2, <3>3, <3>4
    <3>6. QED
      BY <3>5
  <2>10. \A g : LargeOf(rec.drafts, Unwritten(rec), g)' = LargeOf(ds, K, g)
    BY <1>5, <1>6, <1>10 DEF LargeOf, PlacesOf, Unwritten
  <2>11. FamiliesBooked(rec)'
    BY <1>5, <1>6, <2>7, <2>8, <2>9, <2>10 DEF FamiliesBooked, OnCharges
  <2>12. QED
    BY <2>6, <2>11 DEF Spent
<1>18. Working(o) /\ rec.pc # "dead"
  BY <1>4, <1>5 DEF Working
<1>19. QED
  BY <1>2, <1>4, <1>17, <1>18, SpentStep

\* The state a draft leaves is stored: with the charges it is what the model grants.
LEMMA SaveSpent ==
  ASSUME SpentInv, BooksInv', NEW o \in Operators, SaveStudent(o)
  PROVE  SpentInv'
<1>1. TypeInv /\ TypeInv' /\ ChargeInv
  BY DEF SpentInv, BooksInv, ChargeInv
<1>2. UNCHANGED <<charges, payerState>> /\ Continue
  BY <1>1, SavesLemma
<1>3. ASSUME NEW r \in RequestRows, NEW d \in Drafts, Refused(o, r, d)
      PROVE  SpentInv'
  <2>1. /\ r = request[o] /\ r.pc = "student" /\ r.i \in DOMAIN r.drafts /\ r.i \in Nat /\ d = r.drafts[r.i]
        /\ d.fresh /\ studentState[d.student] # NoState /\ Moves(o, Idle)
    BY <1>3 DEF Refused, RequestRows
  <2>2. ~Books(r)
    BY <2>1 DEF Books, StillFresh
  <2>3. Working(o) /\ Idle.pc = "idle"
    BY <2>1, IdleLemma DEF Working
  <2>4. QED
    BY <1>2, <2>1, <2>2, <2>3, SpentStep
<1>4. ASSUME NEW r \in RequestRows, NEW rec \in RequestRows, NEW d \in Drafts, Saves(o, r, rec, d)
      PROVE  SpentInv'
  <2>1. /\ r = request[o] /\ Moves(o, rec) /\ r.pc = "student" /\ rec.drafts = r.drafts
        /\ rec.cards = r.cards /\ rec.pc \in {"student", "payer", "balance"}
        /\ studentState' = [studentState EXCEPT ![d.student] = [intro |-> d.introLeft, sibling |-> d.siblingLeft]]
    BY <1>4 DEF Saves, Charger, GoesOn
  <2>2. PICK ds \in Seq(Drafts), i \in Nat : ds = r.drafts /\ i = r.i /\ i \in DOMAIN ds /\ d = ds[i]
    BY <1>4 DEF Saves, Charger, StageOK, ChargeStage, RequestRows
  <2>3. /\ rec.pc = "student" => rec.i = i + 1 /\ i < Len(ds)
        /\ rec.pc # "student" => ~(i < Len(ds))
        /\ rec.pc = "balance" => DOMAIN r.cards = {}
    BY <1>4, <2>1, <2>2 DEF Saves, GoesOn
  <2>4. DraftsOnce(r)
    BY <1>1, <2>1 DEF ChargeInv, Rostered
  <2>5. PICK U \in SUBSET DOMAIN ds : U = {k \in DOMAIN ds : k >= i + 1}
    OBVIOUS
  <2>6. DOMAIN ds = 1..Len(ds) /\ Len(ds) \in Nat
    OBVIOUS
  <2>7. Unsaved(r) = U \cup {i} /\ i \notin U /\ Unwritten(r) = {}
    <3>1. Unsaved(r) = {k \in DOMAIN ds : k >= i} /\ Unwritten(r) = {}
      BY <2>1, <2>2 DEF Unsaved, Unwritten
    <3>2. QED
      BY <2>2, <2>5, <2>6, <3>1
  <2>8. Unsaved(rec) = U /\ Unwritten(rec) = {}
    <3>1. CASE rec.pc = "student"
      BY <2>1, <2>2, <2>3, <2>5, <3>1 DEF Unsaved, Unwritten
    <3>2. CASE rec.pc # "student"
      <4>1. Unsaved(rec) = {} /\ Unwritten(rec) = {}
        BY <2>1, <3>2 DEF Unsaved, Unwritten
      <4>2. U = {}
        BY <2>2, <2>3, <2>5, <2>6, <3>2
      <4>3. QED
        BY <4>1, <4>2
    <3>3. QED
      BY <3>1, <3>2
  <2>9. Unsaved(rec)' = U /\ Unwritten(rec)' = {}
    BY <2>8 DEF Unsaved, Unwritten
  <2>10. /\ \A s : Mine(s)' = Mine(s) /\ Intro(s)' = Intro(s) /\ Sibling(s)' = Sibling(s)
         /\ \A f : Large(f)' = Large(f)
    BY <1>2 DEF Mine, Intro, Sibling, Large, ChargesOf
  <2>11. \A s, intro, sibling : Granted(s, intro, sibling) => Granted(s, intro, sibling)'
    BY <2>10 DEF Granted, Free
  <2>12. PICK state \in StudentStates : state = [intro |-> d.introLeft, sibling |-> d.siblingLeft]
    BY DEF Drafts, StudentStates
  <2>13. state.intro = d.introLeft /\ state.sibling = d.siblingLeft /\ state # NoState
    <3>1. state.intro = d.introLeft /\ state.sibling = d.siblingLeft
      BY <2>12
    <3>2. QED
      BY <3>1, BillingAssumption
  <2>14. /\ studentState'[d.student] = state
         /\ \A s \in Students : s # d.student => studentState'[s] = studentState[s]
    <3>1. d.student \in DOMAIN studentState
      BY <1>1 DEF TypeInv, TablesInv, Drafts
    <3>2. QED
      BY <1>1, <2>1, <2>12, <3>1 DEF TypeInv, TablesInv
  <2>15. ASSUME Spent(r)
         PROVE  Spent(rec)'
    <3>1. /\ \A s \in Students : (\A k \in U \cup {i} : ds[k].student # s) => Booked(s)
          /\ \A k \in U \cup {i} : Granted(ds[k].student, ds[k].introLeft, ds[k].siblingLeft)
      BY <2>2, <2>7, <2>15 DEF Spent, StudentsBooked
    <3>2. ASSUME NEW s \in Students, \A k \in U : ds[k].student # s
          PROVE  Booked(s)'
      <4>1. CASE s = d.student
        <5>1. Granted(s, state.intro, state.sibling)
          BY <2>2, <2>13, <3>1, <4>1
        <5>2. Granted(s, state.intro, state.sibling)'
          BY <2>11, <5>1
        <5>3. studentState'[s] = state
          BY <2>14, <4>1
        <5>4. QED
          BY <2>13, <5>2, <5>3 DEF Booked
      <4>2. CASE s # d.student
        <5>1. Booked(s) /\ studentState'[s] = studentState[s]
          BY <2>2, <2>14, <3>1, <3>2, <4>2
        <5>2. QED
          BY <2>10, <2>11, <5>1 DEF Booked
      <4>3. QED
        BY <4>1, <4>2
    <3>3. \A k \in U : Granted(ds[k].student, ds[k].introLeft, ds[k].siblingLeft)'
      BY <2>11, <3>1
    <3>4. StudentsBooked(rec)'
      BY <2>1, <2>2, <2>9, <3>2, <3>3 DEF StudentsBooked
    <3>5. \A f \in Payers : f \notin DOMAIN r.cards => FamilyBooked(f)
      BY <2>15 DEF Spent, FamiliesBooked
    <3>6. \A f \in Payers : f \notin DOMAIN r.cards => FamilyBooked(f)'
      BY <1>2, <2>10, <3>5 DEF FamilyBooked
    <3>7. \A g \in DOMAIN r.cards : \E m \in Models : Large(g)' + r.cards[g] + LargeOf(ds, {}, g) = Model[m].large
      BY <2>1, <2>2, <2>7, <2>10, <2>15 DEF Spent, FamiliesBooked, OnCharges
    <3>8. \A g : LargeOf(rec.drafts, Unwritten(rec), g)' = LargeOf(ds, {}, g)
      BY <2>1, <2>2, <2>8 DEF LargeOf, PlacesOf, Unwritten
    <3>9. FamiliesBooked(rec)'
      BY <2>1, <2>3, <3>6, <3>7, <3>8 DEF FamiliesBooked, OnCharges
    <3>10. QED
      BY <3>4, <3>9 DEF Spent
  <2>16. Working(o) /\ rec.pc # "dead"
    BY <2>1 DEF Working
  <2>17. QED
    BY <1>2, <2>1, <2>15, <2>16, SpentStep
<1>5. QED
  BY <1>1, <1>3, <1>4, SavesLemma

\* What is left of a family's discount is stored.
LEMMA SaveCardSpent ==
  ASSUME SpentInv, BooksInv', NEW o \in Operators, SavePayer(o)
  PROVE  SpentInv'
<1>1. TypeInv /\ TypeInv'
  BY DEF SpentInv, BooksInv, ChargeInv
<1>2. UNCHANGED <<charges, studentState>> /\ Continue
  BY <1>1, SavesCardLemma
<1>3. ASSUME NEW r \in RequestRows, NEW f \in Payers, RefusedCard(o, r, f)
      PROVE  SpentInv'
  <2>1. /\ r = request[o] /\ r.pc = "payer" /\ f \in DOMAIN r.cards
        /\ f \in r.freshCards /\ payerState[f] # NoState /\ Moves(o, Idle)
    BY <1>3 DEF RefusedCard
  <2>2. ~Books(r)
    BY <2>1 DEF Books, StillFresh, OnCharges
  <2>3. Working(o) /\ Idle.pc = "idle"
    BY <2>1, IdleLemma DEF Working
  <2>4. QED
    BY <1>2, <2>1, <2>2, <2>3, SpentStep
<1>4. ASSUME NEW r \in RequestRows, NEW rec \in RequestRows, NEW f \in Payers, SavesCard(o, r, rec, f)
      PROVE  SpentInv'
  <2>1. /\ r = request[o] /\ Moves(o, rec) /\ r.pc = "payer" /\ rec.drafts = r.drafts /\ f \in DOMAIN r.cards
        /\ rec.cards = [g \in DOMAIN r.cards \ {f} |-> r.cards[g]]
        /\ rec.pc = (IF DOMAIN r.cards \ {f} = {} THEN "balance" ELSE "payer")
        /\ payerState' = [payerState EXCEPT ![f] = r.cards[f]]
    BY <1>4 DEF SavesCard, Charger
  <2>2. PICK ds \in Seq(Drafts) : ds = r.drafts
    BY DEF RequestRows
  <2>3. rec.pc \in {"payer", "balance"} /\ (rec.pc = "balance" => DOMAIN r.cards \ {f} = {})
    BY <2>1
  <2>4. Unsaved(r) = {} /\ Unwritten(r) = {} /\ Unsaved(rec) = {} /\ Unwritten(rec) = {}
    BY <2>1, <2>3 DEF Unsaved, Unwritten
  <2>5. Unsaved(rec)' = {} /\ Unwritten(rec)' = {}
    BY <2>4 DEF Unsaved, Unwritten
  <2>6. /\ \A s : Mine(s)' = Mine(s) /\ Intro(s)' = Intro(s) /\ Sibling(s)' = Sibling(s)
        /\ \A g : Large(g)' = Large(g)
    BY <1>2 DEF Mine, Intro, Sibling, Large, ChargesOf
  <2>7. r.cards[f] \in Nat /\ r.cards[f] # NoState
    <3>1. r.cards \in [DOMAIN r.cards -> Nat]
      BY PartialLemma DEF RequestRows
    <3>2. QED
      BY <2>1, <3>1, BillingAssumption
  <2>8. payerState'[f] = r.cards[f] /\ \A g \in Payers : g # f => payerState'[g] = payerState[g]
    BY <1>1, <2>1 DEF TypeInv, TablesInv
  <2>9. ASSUME Spent(r)
        PROVE  Spent(rec)'
    <3>1. \A s \in Students : Booked(s)
      BY <2>4, <2>9 DEF Spent, StudentsBooked
    <3>2. \A s \in Students : Booked(s)'
      <4>1. \A s, intro, sibling : Granted(s, intro, sibling) => Granted(s, intro, sibling)'
        BY <2>6 DEF Granted, Free
      <4>2. QED
        BY <1>2, <2>6, <3>1, <4>1 DEF Booked
    <3>3. StudentsBooked(rec)'
      BY <2>5, <3>2 DEF StudentsBooked
    <3>4. \A g \in DOMAIN r.cards : \E m \in Models : Large(g) + r.cards[g] + LargeOf(ds, {}, g) = Model[m].large
      BY <2>1, <2>2, <2>4, <2>9 DEF Spent, FamiliesBooked, OnCharges
    <3>5. FamilyBooked(f)'
      <4>1. PICK m \in Models : Large(f) + r.cards[f] + LargeOf(ds, {}, f) = Model[m].large
        BY <2>1, <3>4
      <4>2. {} \in SUBSET DOMAIN ds
        OBVIOUS
      <4>3. LargeOf(ds, {}, f) = 0 /\ Large(f) \in Nat
        BY <1>1, <4>2, LargeLemma, TakenLemma DEF TypeInv
      <4>4. Large(f) + r.cards[f] = Model[m].large
        BY <2>7, <4>1, <4>3
      <4>5. QED
        BY <2>6, <2>7, <2>8, <4>4 DEF FamilyBooked
    <3>6. ASSUME NEW g \in Payers, g \notin DOMAIN rec.cards
          PROVE  FamilyBooked(g)'
      <4>1. CASE g # f
        <5>1. FamilyBooked(g)
          BY <2>1, <2>9, <3>6, <4>1 DEF Spent, FamiliesBooked
        <5>2. QED
          BY <2>6, <2>8, <4>1, <5>1 DEF FamilyBooked
      <4>2. QED
        BY <3>5, <4>1
    <3>7. \A g \in DOMAIN rec.cards : \E m \in Models : Large(g)' + rec.cards[g] + LargeOf(ds, {}, g) = Model[m].large
      BY <2>1, <2>6, <3>4
    <3>8. \A g : LargeOf(rec.drafts, Unwritten(rec), g)' = LargeOf(ds, {}, g)
      BY <2>1, <2>2, <2>4 DEF LargeOf, PlacesOf, Unwritten
    <3>9. rec.pc = "balance" => DOMAIN rec.cards = {}
      BY <2>1, <2>3
    <3>10. FamiliesBooked(rec)'
      BY <2>3, <3>6, <3>7, <3>8, <3>9 DEF FamiliesBooked, OnCharges
    <3>11. QED
      BY <3>3, <3>10 DEF Spent
  <2>10. Working(o) /\ rec.pc # "dead"
    BY <2>1, <2>3 DEF Working
  <2>11. QED
    BY <1>2, <2>1, <2>9, <2>10, SpentStep
<1>5. QED
  BY <1>1, <1>3, <1>4, SavesCardLemma

\* Every other step of a request begins or ends the charging, or has nothing to do with it.
LEMMA ChargingSpent ==
  ASSUME SpentInv, BooksInv', NEW o \in Operators, Charging(o)
  PROVE  SpentInv'
<1>1. TypeInv /\ TypeInv'
  BY DEF SpentInv, BooksInv, ChargeInv
<1>2. ASSUME NEW m \in Models, NEW p \in Periods, Generate(o, m, p)
      PROVE  SpentInv'
  <2>1. UNCHANGED <<charges, studentState, payerState>> /\ Begin(o) /\ request[o].pc = "idle"
    BY <1>1, <1>2, BeginsLemma DEF charging, Begin
  <2>2. PICK rec \in RequestRows : Moves(o, rec) /\ rec.pc = "draft" /\ rec.drafts = <<>> /\ DOMAIN rec.cards = {}
    BY <1>1, <1>2, BeginsLemma DEF Begins
  <2>3. Away(rec)
    BY <2>2 DEF Away
  <2>4. QED
    BY <2>1, <2>2, <2>3, SpentAway
<1>3. ASSUME ReadBalances(o)
      PROVE  SpentInv'
  <2>1. UNCHANGED <<charges, studentState, payerState>> /\ Continue
    BY <1>1, <1>3, ReadsBalancesLemma DEF charging
  <2>2. PICK r, rec : r = request[o] /\ Moves(o, rec) /\ r.pc = "balance" /\ rec.pc = "entry"
    BY <1>1, <1>3, ReadsBalancesLemma DEF ReadsBalances, Charger
  <2>3. Away(rec) /\ Working(o)
    BY <2>2 DEF Away, Working
  <2>4. QED
    BY <2>1, <2>2, <2>3, SpentAway
<1>4. ASSUME PostCharge(o)
      PROVE  SpentInv'
  <2>1. UNCHANGED <<charges, studentState, payerState>> /\ Continue
    BY <1>1, <1>4, PostsLemma DEF charging
  <2>2. PICK r \in RequestRows, rec \in RequestRows, f \in Payers, total \in Nat, after \in Int :
          Posts(o, r, rec, f, total, after)
    BY <1>1, <1>4, PostsLemma
  <2>3. r = request[o] /\ Moves(o, rec) /\ r.pc = "entry"
    BY <2>2 DEF Posts, Charger
  <2>4. rec.pc = "entry" \/ rec = Idle
    BY <2>2, Zenon DEF Posts
  <2>5. rec.pc \in {"entry", "idle"}
    BY <2>4, IdleLemma
  <2>6. Away(rec) /\ Working(o) /\ rec.pc # "dead"
    BY <2>3, <2>5 DEF Away, Working
  <2>7. QED
    BY <2>1, <2>3, <2>6, SpentAway
<1>5. QED
  BY <1>2, <1>3, <1>4, ReadCardSpent, DraftSpent, BatchSpent, CreateSpent, SaveSpent, SaveCardSpent DEF Charging

LEMMA PayingSpent ==
  ASSUME SpentInv, BooksInv', NEW o \in Operators, Paying(o)
  PROVE  SpentInv'
<1>1. TypeInv
  BY DEF SpentInv, BooksInv, ChargeInv
<1>2. UNCHANGED <<charges, studentState, payerState>>
  BY <1>1, PayingMoves DEF charging
<1>3. PICK rec : Moves(o, rec) /\ rec.pc \in PayStages
  BY <1>1, PayingMoves
<1>4. /\ request[o].pc \in PayStages
      /\ Begin(o) \/ (Continue /\ Working(o))
  <2>1. ASSUME NEW k, ImportStatement(o, k)
        PROVE  request[o].pc = "idle" /\ Begin(o)
    BY <2>1 DEF ImportStatement, Begin
  <2>2. ASSUME NEW r, NEW f, NEW amount, MatchByHand(o, r, f, amount)
        PROVE  request[o].pc = "idle" /\ Begin(o)
    BY <2>2 DEF MatchByHand, Begin
  <2>3. ASSUME LookUpRow(o) \/ StoreRow(o) \/ AutoMatch(o) \/ FinishImport(o) \/ RefuseImport(o)
        PROVE  request[o].pc \in {"refuse", "row", "store", "auto"} /\ Continue
    BY <2>3 DEF LookUpRow, StoreRow, AutoMatch, FinishImport, RefuseImport, EndImport
  <2>4. ASSUME InsertMatch(o) \/ UpdateTransaction(o) \/ PostMatch(o)
        PROVE  request[o].pc \in {"insert", "status", "entry"} /\ Continue
    BY <2>4 DEF InsertMatch, UpdateTransaction, PostMatch
  <2>5. QED
    BY <2>1, <2>2, <2>3, <2>4 DEF Paying, PayStages, Working
<1>5. Away(rec) /\ rec.pc # "dead" /\ request[o].pc \notin {"charge", "student", "payer"}
  BY <1>3, <1>4 DEF Away, PayStages
<1>6. QED
  BY <1>2, <1>3, <1>4, <1>5, SpentAway

LEMMA SteppingSpent ==
  ASSUME SpentInv, BooksInv', NEW o \in Operators, Stepping(o)
  PROVE  SpentInv'
<1>1. TypeInv
  BY DEF SpentInv, BooksInv, ChargeInv
<1>2. UNCHANGED <<charges, studentState, payerState>>
  BY <1>1, SteppingMoves DEF charging
<1>3. /\ request[o].pc \in {"idle", "step"}
      /\ Begin(o) \/ (Continue /\ Working(o))
  <2>1. ASSUME NEW d, PlanStep(o, d)
        PROVE  request[o].pc = "idle" /\ Begin(o)
    BY <2>1 DEF PlanStep, Begin
  <2>2. ASSUME NEW n, NEW action, NEW d, CheckStep(o, n, action, d)
        PROVE  request[o].pc = "idle" /\ Begin(o)
    BY <2>2 DEF CheckStep, Begin
  <2>3. ASSUME InsertStep(o)
        PROVE  request[o].pc = "step" /\ Continue
    BY <2>3 DEF InsertStep
  <2>4. QED
    BY <2>1, <2>2, <2>3 DEF Stepping, Working
<1>4. PICK rec : Moves(o, rec) /\ rec.pc \in {"idle", "step"}
  BY <1>1, <1>3, SteppingMoves
<1>5. Away(rec) /\ rec.pc # "dead" /\ request[o].pc \notin {"charge", "student", "payer"}
  BY <1>3, <1>4 DEF Away
<1>6. QED
  BY <1>2, <1>3, <1>4, <1>5, SpentAway

LEMMA NextSpent ==
  ASSUME SpentInv, [Next]_vars
  PROVE  SpentInv'
<1>1. BooksInv'
  BY NextBooks DEF SpentInv
<1>2. CASE UNCHANGED vars
  <2>1. UNCHANGED <<charges, studentState, payerState, request>> /\ (Alone' => Alone)
    BY <1>2 DEF vars, Alone
  <2>2. QED
    BY <1>1, <2>1, SpentStill
<1>3. ASSUME NEW o \in Operators, Registration(o)
      PROVE  SpentInv'
  <2>1. UNCHANGED <<charges, studentState, payerState, request>> /\ Begin(o)
    BY <1>3, RegistrationMoves DEF charging
  <2>2. (mixed => mixed') /\ (died => died')
    BY <2>1, Zenon DEF Begin
  <2>3. Alone' => Alone
    BY <2>2 DEF Alone
  <2>4. QED
    BY <1>1, <2>1, <2>3, SpentStill
<1>4. ASSUME NEW o \in Operators, Die(o)
      PROVE  SpentInv'
  <2>1. ~Alone'
    BY <1>4, Zenon DEF Die, Alone
  <2>2. QED
    BY <1>1, <2>1 DEF SpentInv
<1>5. QED
  BY <1>1, <1>2, <1>3, <1>4, ChargingSpent, PayingSpent, SteppingSpent DEF Next

LEMMA InitSpent ==
  ASSUME Init
  PROVE  SpentInv
<1>1. BooksInv
  BY InitBooks
<1>2. PICK idle : idle = Idle /\ idle.pc = "idle"
  BY IdleLemma
<1>3. \A o \in Operators : ~Working(o)
  BY <1>2 DEF Init, Working
<1>4. \A s \in Students : Booked(s)
  BY DEF Init, Booked, Mine
<1>5. ASSUME NEW f \in Payers
      PROVE  FamilyBooked(f)
  <2>1. payerState[f] = NoState /\ ChargesOf(f) = {}
    BY DEF Init, ChargesOf
  <2>2. Large(f) = 0
    BY <2>1, SumNone DEF Large
  <2>3. QED
    BY <2>1, <2>2 DEF FamilyBooked
<1>6. QED
  BY <1>1, <1>3, <1>4, <1>5 DEF SpentInv, AllBooked

\* Requests one after another spend each discount exactly once: what the charges of a year took
\* and what is left together are what the model grants, for free lessons, siblings and families.
THEOREM DiscountsAreAccounted == Spec => []DiscountsAccounted
<1>1. SpentInv => DiscountsAccounted
  <2> SUFFICES ASSUME SpentInv, Orderly
               PROVE  /\ \A s \in Students : Booked(s)
                      /\ \A f \in Payers : FamilyBooked(f)
    BY DEF DiscountsAccounted, Booked, Granted, Free, Intro, Sibling, Mine, FamilyBooked, Large
  <2>1. Alone /\ Quiet
    BY Zenon DEF Orderly, Alone
  <2>2. QED
    BY <2>1 DEF SpentInv, AllBooked
<1>2. Init => SpentInv
  BY InitSpent
<1>3. SpentInv /\ [Next]_vars => SpentInv'
  BY NextSpent
<1>4. QED
  BY <1>1, <1>2, <1>3, PTL DEF Spec

===============================================================================
