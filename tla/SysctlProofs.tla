---------------------------- MODULE SysctlProofs ----------------------------
(***************************************************************************)
(* ScopedSysctl, for any machine, any values and any number of guards,     *)
(* when signals arrive outside the constructor: scopes nest, and the       *)
(* machine is left as it was found.                                        *)
(***************************************************************************)
EXTENDS ScopedSysctl, FiniteSetTheorems, SequenceTheorems, NaturalsInduction, WellFoundedInduction, TLAPS

\* The live guards of a knob without the innermost guard of all.
Under(n) == OkGuards(n) \ {Len(guards)}

\* Each live guard remembers what the one below it set, the lowest what the
\* machine had.
Chain ==
    \A n \in Knobs : \A k \in OkGuards(n) :
        /\ (\A j \in OkGuards(n) : k <= j) => guards[k].original = Initial[n]
        /\ \A i \in OkGuards(n) :
              (i < k /\ \A j \in OkGuards(n) : j <= i \/ k <= j) => guards[k].original = guards[i].value

\* The value v is what the live guards S of a knob give it.
ValueAt(v, gs, n, S) ==
    /\ S = {} => v = Initial[n]
    /\ \A k \in S : (\A j \in S : j <= k) => v = gs[k].value

\* The table counts the guards S and holds the machine's value.
EntryAt(table, n, S) ==
    /\ n \in DOMAIN table <=> S # {}
    /\ n \in DOMAIN table =>
          table[n].depth = Cardinality(S) /\ table[n].original = Initial[n]

ValueOK(n) == ValueAt(knob[n], guards, n, OkGuards(n))
EntryOK(n) == EntryAt(pending, n, OkGuards(n))

\* Between statements of the experiment, and before sysctl_set().
Settled ==
    /\ \A n \in Knobs : ValueOK(n) /\ EntryOK(n)
    /\ armed \/ \A n \in Knobs : OkGuards(n) = {}

\* In the constructor, after sysctl_set().
Constructing ==
    /\ Top.ok
    /\ \A n \in Knobs : ValueOK(n)
    /\ \A n \in Knobs \ {Top.name} : EntryOK(n)
    /\ pc = "insert" => EntryAt(pending, Top.name, Under(Top.name))
    /\ pc \in {"original", "depth"} =>
          /\ Top.name \in DOMAIN pending
          /\ pending[Top.name].depth = Cardinality(Under(Top.name))
    /\ (pc = "original" /\ Under(Top.name) # {}) => pending[Top.name].original = Initial[Top.name]
    /\ pc = "depth" => pending[Top.name].original = Initial[Top.name]
    /\ pc = "arm" => EntryOK(Top.name)

\* In the destructor, between sysctl_set() and the table.
Retiring ==
    /\ Top.ok /\ armed
    /\ \A n \in Knobs \ {Top.name} : ValueOK(n)
    /\ ValueAt(knob[Top.name], guards, Top.name, Under(Top.name))
    /\ \A n \in Knobs : EntryOK(n)

ScopeInv ==
    /\ TypeOK
    /\ Chain
    /\ pc \in {"run", "set"} => Settled
    /\ pc = "set" => ~ Top.ok /\ Top.original = knob[Top.name]
    /\ pc \in {"insert", "original", "depth", "arm"} => Constructing
    /\ pc = "retire" => Retiring
    /\ pc = "dead" => knob = Initial

-----------------------------------------------------------------------------
(* The stack of guards *)

\* The stack of guards, its top, and what is under it.
LEMMA StackFacts ==
  ASSUME TypeOK
  PROVE  /\ guards \in Seq(Guard) /\ Len(guards) \in Nat /\ DOMAIN guards = 1 .. Len(guards)
         /\ \A k \in 1 .. Len(guards) : guards[k] \in Guard
         /\ guards # <<>> =>
               /\ Len(guards) \in Nat \ {0} /\ Len(guards) \in 1 .. Len(guards)
               /\ Top \in Guard /\ Top.name \in Knobs
<1>1. guards \in Seq(Guard)
  BY DEF TypeOK
<1>2. Len(guards) \in Nat /\ DOMAIN guards = 1 .. Len(guards)
  BY <1>1
<1>3. \A k \in 1 .. Len(guards) : guards[k] \in Guard
  BY <1>1, ElementOfSeq
<1>4. ASSUME guards # <<>>
      PROVE  /\ Len(guards) \in Nat \ {0} /\ Len(guards) \in 1 .. Len(guards)
             /\ Top \in Guard /\ Top.name \in Knobs
  <2>1. Len(guards) \in Nat \ {0}
    BY <1>1, <1>4, EmptySeq
  <2>2. Len(guards) \in 1 .. Len(guards)
    BY <2>1
  <2>3. Top \in Guard
    BY <1>3, <2>2 DEF Top
  <2> QED
    BY <2>1, <2>2, <2>3 DEF Guard
<1> QED
  BY <1>1, <1>2, <1>3, <1>4

\* A set of guards that is not empty has an innermost one.
LEMMA Innermost ==
  ASSUME NEW m \in Nat, NEW S, S \subseteq 1 .. m, S # {}
  PROVE  \E k \in S : \A j \in S : j <= k
<1> DEFINE T == {x \in Nat : m - x \in S}
<1>0. PICK s \in S : TRUE
  OBVIOUS
<1>a. m - s \in Nat /\ m - (m - s) = s
  BY <1>0
<1>1. T \subseteq Nat /\ T # {}
  BY <1>0, <1>a
<1>2. PICK x \in T : \A y \in T : ~ (<<y, x>> \in OpToRel(<, Nat))
  BY <1>1, NatLessThanWellFounded, WFMin
<1>3. ASSUME NEW y \in T PROVE x <= y
  <2>1. ~ (<<y, x>> \in OpToRel(<, Nat)) /\ y \in Nat /\ x \in Nat
    BY <1>2
  <2>2. ~ (y < x)
    BY <2>1 DEF OpToRel
  <2>3. x \in Nat /\ y \in Nat
    OBVIOUS
  <2> QED
    BY <2>2, <2>3
<1>4. m - x \in S /\ x \in Nat
  OBVIOUS
<1>5. ASSUME NEW j \in S PROVE j <= m - x
  <2>1. m - j \in Nat /\ m - (m - j) = j
    OBVIOUS
  <2>2. x <= m - j
    BY <1>3, <2>1
  <2> QED
    BY <1>4, <2>1, <2>2
<1> QED
  BY <1>4, <1>5

\* The live guards of a knob are finitely many.
LEMMA LiveFinite ==
  ASSUME TypeOK, NEW n
  PROVE  /\ OkGuards(n) \subseteq 1 .. Len(guards) /\ OkGuards(n) \subseteq Nat
         /\ IsFiniteSet(OkGuards(n)) /\ Cardinality(OkGuards(n)) \in Nat
         /\ IsFiniteSet(Under(n)) /\ Cardinality(Under(n)) \in Nat
         /\ Under(n) = {} <=> Cardinality(Under(n)) = 0
         /\ OkGuards(n) = {} <=> Cardinality(OkGuards(n)) = 0
         /\ Cardinality(OkGuards(n)) =
               Cardinality(Under(n)) + IF Len(guards) \in OkGuards(n) THEN 1 ELSE 0
<1>1. Len(guards) \in Nat
  BY StackFacts
<1>2. OkGuards(n) \subseteq 1 .. Len(guards) /\ OkGuards(n) \subseteq Nat
  BY <1>1 DEF OkGuards
<1>3. IsFiniteSet(1 .. Len(guards))
  BY <1>1, FS_Interval
<1>4. IsFiniteSet(OkGuards(n))
  BY <1>2, <1>3, FS_Subset
<1>5. /\ IsFiniteSet(Under(n))
      /\ Cardinality(Under(n)) = IF Len(guards) \in OkGuards(n)
                                 THEN Cardinality(OkGuards(n)) - 1 ELSE Cardinality(OkGuards(n))
  BY <1>4, FS_RemoveElement DEF Under
<1>6. Cardinality(OkGuards(n)) \in Nat /\ Cardinality(Under(n)) \in Nat
  BY <1>4, <1>5, FS_CardinalityType
<1>7. /\ Under(n) = {} <=> Cardinality(Under(n)) = 0
      /\ OkGuards(n) = {} <=> Cardinality(OkGuards(n)) = 0
  BY <1>4, <1>5, FS_EmptySet
<1> QED
  BY <1>2, <1>4, <1>5, <1>6, <1>7

\* A new guard is not live yet.
LEMMA Pushed ==
  ASSUME TypeOK, NEW g \in Guard, ~ g.ok, guards' = Append(guards, g)
  PROVE  /\ guards' \in Seq(Guard) /\ guards' # <<>> /\ Top' = g
         /\ \A n : OkGuards(n)' = OkGuards(n)
         /\ \A n : \A k \in OkGuards(n) : guards'[k] = guards[k]
<1>1. guards \in Seq(Guard) /\ Len(guards) \in Nat
  BY StackFacts
<1>2. /\ guards' \in Seq(Guard) /\ Len(guards') = Len(guards) + 1 /\ guards'[Len(guards) + 1] = g
      /\ \A k \in 1 .. Len(guards) : guards'[k] = guards[k]
  BY <1>1
<1>3. guards' # <<>> /\ Top' = g
  BY <1>1, <1>2 DEF Top
<1>4. ASSUME NEW n PROVE OkGuards(n)' = OkGuards(n)
  BY <1>1, <1>2 DEF OkGuards
<1>5. ASSUME NEW n, NEW k \in OkGuards(n) PROVE guards'[k] = guards[k]
  BY <1>2 DEF OkGuards
<1> QED
  BY <1>2, <1>3, <1>4, <1>5

\* The innermost guard becomes live.
LEMMA TopOk ==
  ASSUME TypeOK, guards # <<>>, guards' = [guards EXCEPT ![Len(guards)].ok = TRUE]
  PROVE  /\ guards' \in Seq(Guard) /\ Len(guards') = Len(guards)
         /\ Top' = [Top EXCEPT !.ok = TRUE]
         /\ \A k \in 1 .. Len(guards) : k # Len(guards) => guards'[k] = guards[k]
<1>1. /\ guards \in Seq(Guard) /\ Len(guards) \in Nat /\ DOMAIN guards = 1 .. Len(guards)
      /\ Len(guards) \in 1 .. Len(guards) /\ Top \in Guard
  BY StackFacts
<1>2. /\ Len(guards') = Len(guards) /\ DOMAIN guards' = 1 .. Len(guards)
      /\ guards'[Len(guards)] = [Top EXCEPT !.ok = TRUE]
      /\ \A k \in 1 .. Len(guards) : k # Len(guards) => guards'[k] = guards[k]
  BY <1>1 DEF Top
<1>3. [Top EXCEPT !.ok = TRUE] \in Guard
  BY <1>1 DEF Guard
<1>4. guards' \in Seq(Guard)
  <2>1. \A k \in 1 .. Len(guards) : guards[k] \in Guard
    BY StackFacts
  <2> QED
    BY <1>1, <1>2, <1>3, <2>1
<1>5. Top' = [Top EXCEPT !.ok = TRUE]
  BY <1>2 DEF Top
<1> QED
  BY <1>2, <1>4, <1>5

\* The guard under construction becomes live.
LEMMA Enlivened ==
  ASSUME TypeOK, guards # <<>>, ~ Top.ok,
         guards' \in Seq(Guard), Len(guards') = Len(guards), Top'.ok, Top'.name = Top.name,
         \A k \in 1 .. Len(guards) : k # Len(guards) => guards'[k] = guards[k]
  PROVE  /\ \A n : Len(guards) \notin OkGuards(n) /\ Under(n)' = OkGuards(n)
         /\ \A n : n # Top.name => OkGuards(n)' = OkGuards(n)
         /\ OkGuards(Top.name)' = OkGuards(Top.name) \cup {Len(guards)}
         /\ \A n : \A k \in OkGuards(n) : guards'[k] = guards[k]
<1>1. Len(guards) \in Nat /\ Len(guards) \in 1 .. Len(guards)
  BY StackFacts
<1>7. ASSUME NEW n
      PROVE  /\ Len(guards) \notin OkGuards(n)
             /\ n # Top.name => OkGuards(n)' = OkGuards(n)
             /\ n = Top.name => OkGuards(n)' = OkGuards(n) \cup {Len(guards)}
             /\ \A k \in OkGuards(n) : guards'[k] = guards[k]
  <2>1. Len(guards) \notin OkGuards(n)
    BY DEF OkGuards, Top
  <2>2. \A k \in 1 .. Len(guards) : k # Len(guards) =>
           (k \in OkGuards(n)' <=> k \in OkGuards(n))
    BY DEF OkGuards
  <2>3. Len(guards) \in OkGuards(n)' <=> n = Top.name
    BY <1>1 DEF OkGuards, Top
  <2>4. OkGuards(n)' \subseteq 1 .. Len(guards) /\ OkGuards(n) \subseteq 1 .. Len(guards)
    BY DEF OkGuards
  <2>5. \A k \in OkGuards(n) : guards'[k] = guards[k]
    BY <2>1, <2>4
  <2>6. ASSUME n # Top.name PROVE OkGuards(n)' = OkGuards(n)
    <3>1. OkGuards(n)' \subseteq OkGuards(n)
      BY <2>2, <2>3, <2>4, <2>6
    <3>2. OkGuards(n) \subseteq OkGuards(n)'
      BY <2>1, <2>2, <2>4
    <3> QED
      BY <3>1, <3>2, Zenon
  <2>7. n = Top.name => OkGuards(n)' = OkGuards(n) \cup {Len(guards)}
    BY <1>1, <2>1, <2>2, <2>3, <2>4
  <2> QED
    BY <2>1, <2>5, <2>6, <2>7
<1>8. ASSUME NEW n PROVE Under(n)' = OkGuards(n)
  BY <1>7 DEF Under
<1> QED
  BY <1>7, <1>8

\* The innermost guard is gone.
LEMMA Popped ==
  ASSUME TypeOK, guards # <<>>, guards' = Pop
  PROVE  /\ guards' \in Seq(Guard)
         /\ \A n : OkGuards(n)' = Under(n)
         /\ \A n : \A k \in Under(n) : guards'[k] = guards[k]
         /\ \A n : n # Top.name \/ ~ Top.ok => Under(n) = OkGuards(n)
<1>1. guards \in Seq(Guard) /\ Len(guards) \in Nat \ {0}
  BY StackFacts
<1>2. /\ guards' \in Seq(Guard) /\ Len(guards') = Len(guards) - 1
      /\ \A k \in 1 .. Len(guards) - 1 : guards'[k] = guards[k]
  <2>1. \A k \in 1 .. Len(guards) - 1 : guards[k] \in Guard
    BY <1>1, ElementOfSeq
  <2>2. PICK m \in Nat : m = Len(guards) - 1
    BY <1>1
  <2>3. Pop = SubSeq(guards, 1, m)
    BY <2>2 DEF Pop
  <2>4. Pop \in Seq(Guard)
    BY <1>1, <2>1, <2>2, <2>3
  <2>5. Len(Pop) = m
    BY <1>1, <2>2, <2>3
  <2>6. \A k \in 1 .. m : Pop[k] = guards[k]
    BY <1>1, <2>2, <2>3
  <2> QED
    BY <1>1, <2>2, <2>3, <2>4, <2>5, <2>6
<1>3. ASSUME NEW n PROVE OkGuards(n)' = Under(n)
  BY <1>1, <1>2 DEF OkGuards, Under
<1>4. ASSUME NEW n, NEW k \in Under(n) PROVE guards'[k] = guards[k]
  BY <1>1, <1>2 DEF OkGuards, Under
<1>5. ASSUME NEW n, n # Top.name \/ ~ Top.ok PROVE Under(n) = OkGuards(n)
  BY <1>5 DEF OkGuards, Under, Top
<1> QED
  BY <1>2, <1>3, <1>4, <1>5

\* Nothing happens to the guards.
LEMMA Untouched ==
  ASSUME guards' = guards
  PROVE  /\ Top' = Top /\ \A n : OkGuards(n)' = OkGuards(n) /\ Under(n)' = Under(n)
         /\ Chain => Chain'
<1>1. Top' = Top
  BY DEF Top
<1>2. ASSUME NEW n PROVE OkGuards(n)' = OkGuards(n) /\ Under(n)' = Under(n)
  BY DEF OkGuards, Under
<1>3. Chain => Chain'
  BY DEF Chain, OkGuards
<1> QED
  BY <1>1, <1>2, <1>3

-----------------------------------------------------------------------------
(* The chain of remembered values *)

\* Chain after a step, from its two parts.
LEMMA ChainAfter ==
  ASSUME ASSUME NEW n \in Knobs, NEW k \in OkGuards(n)', \A j \in OkGuards(n)' : k <= j
         PROVE  guards'[k].original = Initial[n],
         ASSUME NEW n \in Knobs, NEW k \in OkGuards(n)', NEW i \in OkGuards(n)',
                i < k, \A j \in OkGuards(n)' : j <= i \/ k <= j
         PROVE  guards'[k].original = guards'[i].value
  PROVE  Chain'
  BY Zenon DEF Chain

\* A new guard that is not live yet leaves the chain alone.
LEMMA ChainPushed ==
  ASSUME Chain, \A n : OkGuards(n)' = OkGuards(n),
         \A n : \A k \in OkGuards(n) : guards'[k] = guards[k]
  PROVE  Chain'
<1>1. ASSUME NEW n \in Knobs, NEW k \in OkGuards(n)', \A j \in OkGuards(n)' : k <= j
      PROVE  guards'[k].original = Initial[n]
  <2>1. k \in OkGuards(n) /\ guards'[k] = guards[k] /\ \A j \in OkGuards(n) : k <= j
    BY <1>1
  <2> QED
    BY <2>1 DEF Chain
<1>2. ASSUME NEW n \in Knobs, NEW k \in OkGuards(n)', NEW i \in OkGuards(n)',
             i < k, \A j \in OkGuards(n)' : j <= i \/ k <= j
      PROVE  guards'[k].original = guards'[i].value
  <2>1. /\ k \in OkGuards(n) /\ guards'[k] = guards[k] /\ i \in OkGuards(n)
        /\ guards'[i] = guards[i] /\ \A j \in OkGuards(n) : j <= i \/ k <= j
    BY <1>2
  <2> QED
    BY <1>2, <2>1 DEF Chain
<1> QED
  BY <1>1, <1>2, ChainAfter, Zenon

\* A new live guard remembers the value that the live ones below it gave.
LEMMA ChainEnlivened ==
  ASSUME TypeOK, Chain, guards # <<>>, Top.original = knob[Top.name],
         Top'.original = Top.original, Len(guards') = Len(guards),
         ValueOK(Top.name),
         \A n : n # Top.name => OkGuards(n)' = OkGuards(n),
         OkGuards(Top.name)' = OkGuards(Top.name) \cup {Len(guards)},
         \A n : Len(guards) \notin OkGuards(n),
         \A n : \A k \in OkGuards(n) : guards'[k] = guards[k]
  PROVE  Chain'
<1>0. /\ Len(guards) \in Nat /\ Len(guards) \in OkGuards(Top.name)'
      /\ \A n : \A k \in OkGuards(n) : k \in Nat /\ k < Len(guards)
  <2>1. Len(guards) \in Nat
    BY StackFacts
  <2>2. Len(guards) \in OkGuards(Top.name)'
    OBVIOUS
  <2>3. ASSUME NEW n, NEW k \in OkGuards(n) PROVE k \in Nat /\ k < Len(guards)
    <3>1. k \in 1 .. Len(guards) /\ k # Len(guards)
      BY Zenon DEF OkGuards
    <3> QED
      BY <2>1, <3>1
  <2> QED
    BY <2>1, <2>2, <2>3, Zenon
<1>a. guards'[Len(guards)].original = knob[Top.name]
  BY DEF Top
<1>1. ASSUME NEW n \in Knobs, NEW k \in OkGuards(n)', \A j \in OkGuards(n)' : k <= j
      PROVE  guards'[k].original = Initial[n]
  <2>1. CASE k \in OkGuards(n)
    <3>1. \A j \in OkGuards(n) : j \in OkGuards(n)'
      BY Zenon
    <3>2. \A j \in OkGuards(n) : k <= j
      BY <1>1, <3>1
    <3>3. guards[k].original = Initial[n]
      BY <2>1, <3>2 DEF Chain
    <3> QED
      BY <2>1, <3>3
  <2>2. CASE k \notin OkGuards(n)
    <3>1. n = Top.name /\ k = Len(guards)
      BY <2>2
    <3>2. OkGuards(n) = {}
      <4>1. ASSUME NEW j \in OkGuards(n) PROVE FALSE
        <5>1. j \in OkGuards(n)'
          BY <3>1
        <5>2. k <= j
          BY <1>1, <5>1
        <5> QED
          BY <1>0, <3>1, <5>2
      <4> QED
        BY <4>1
    <3> QED
      BY <1>a, <3>1, <3>2 DEF ValueOK, ValueAt
  <2> QED
    BY <2>1, <2>2
<1>2. ASSUME NEW n \in Knobs, NEW k \in OkGuards(n)', NEW i \in OkGuards(n)',
             i < k, \A j \in OkGuards(n)' : j <= i \/ k <= j
      PROVE  guards'[k].original = guards'[i].value
  <2>0. \A j \in OkGuards(n) : j \in OkGuards(n)'
    BY Zenon
  <2>1. CASE k \in OkGuards(n)
    <3>1. i \in OkGuards(n)
      <4>1. i # Len(guards)
        BY <1>0, <1>2, <2>1
      <4> QED
        BY <4>1
    <3>2. \A j \in OkGuards(n) : j <= i \/ k <= j
      BY <1>2, <2>0
    <3>3. guards[k].original = guards[i].value
      BY <1>2, <2>1, <3>1, <3>2 DEF Chain
    <3> QED
      BY <2>1, <3>1, <3>3
  <2>2. CASE k \notin OkGuards(n)
    <3>1. n = Top.name /\ k = Len(guards)
      BY <2>2
    <3>2. i \in OkGuards(n)
      BY <1>0, <1>2, <3>1
    <3>3. \A j \in OkGuards(n) : j <= i
      <4>1. ASSUME NEW j \in OkGuards(n) PROVE j <= i
        <5>1. j <= i \/ k <= j
          BY <1>2, <2>0
        <5> QED
          BY <1>0, <3>1, <5>1
      <4> QED
        BY <4>1
    <3> QED
      BY <1>a, <3>1, <3>2, <3>3 DEF ValueOK, ValueAt
  <2> QED
    BY <2>1, <2>2
<1> QED
  BY <1>1, <1>2, ChainAfter, Zenon

\* The innermost live guard leaves the chain.
LEMMA ChainPopped ==
  ASSUME TypeOK, Chain, guards # <<>>, \A n : OkGuards(n)' = Under(n),
         \A n : \A k \in Under(n) : guards'[k] = guards[k]
  PROVE  Chain'
<1>0. /\ Len(guards) \in Nat
      /\ \A n : \A k \in OkGuards(n) : k \in Nat /\ k <= Len(guards)
      /\ \A n : \A k \in OkGuards(n) : k \in Under(n) \/ k = Len(guards)
      /\ \A n : Under(n) \subseteq OkGuards(n)
  <2>1. Len(guards) \in Nat
    BY StackFacts
  <2> QED
    BY <2>1 DEF OkGuards, Under
<1>1. ASSUME NEW n \in Knobs, NEW k \in OkGuards(n)', \A j \in OkGuards(n)' : k <= j
      PROVE  guards'[k].original = Initial[n]
  <2>1. k \in Under(n) /\ guards'[k] = guards[k] /\ \A j \in Under(n) : k <= j
    BY <1>1
  <2>2. k \in OkGuards(n) /\ \A j \in OkGuards(n) : k <= j
    BY <1>0, <2>1
  <2> QED
    BY <2>1, <2>2 DEF Chain
<1>2. ASSUME NEW n \in Knobs, NEW k \in OkGuards(n)', NEW i \in OkGuards(n)',
             i < k, \A j \in OkGuards(n)' : j <= i \/ k <= j
      PROVE  guards'[k].original = guards'[i].value
  <2>1. /\ k \in Under(n) /\ guards'[k] = guards[k] /\ i \in Under(n)
        /\ guards'[i] = guards[i] /\ \A j \in Under(n) : j <= i \/ k <= j
    BY <1>2
  <2>2. k \in OkGuards(n) /\ i \in OkGuards(n) /\ \A j \in OkGuards(n) : j <= i \/ k <= j
    BY <1>0, <2>1
  <2> QED
    BY <1>2, <2>1, <2>2 DEF Chain
<1> QED
  BY <1>1, <1>2, ChainAfter, Zenon

-----------------------------------------------------------------------------
(* What the steps leave alone *)

\* A value a set of guards accounts for, when those guards are left alone.
LEMMA ValueFrame ==
  ASSUME NEW v, NEW gs, NEW hs, NEW n, NEW S, ValueAt(v, gs, n, S), \A k \in S : hs[k] = gs[k]
  PROVE  ValueAt(v, hs, n, S)
  BY DEF ValueAt

\* The same for the table's entry.
LEMMA EntryFrame ==
  ASSUME NEW t, NEW u, NEW n, NEW S, EntryAt(t, n, S), n \in DOMAIN t <=> n \in DOMAIN u,
         n \in DOMAIN t => u[n] = t[n]
  PROVE  EntryAt(u, n, S)
  BY DEF EntryAt

\* A knob whose value and live guards are left alone.
LEMMA ValueKept ==
  ASSUME NEW n, ValueOK(n), knob'[n] = knob[n], OkGuards(n)' = OkGuards(n),
         \A k \in OkGuards(n) : guards'[k] = guards[k]
  PROVE  ValueOK(n)'
<1>1. ValueAt(knob'[n], guards', n, OkGuards(n))
  BY ValueFrame DEF ValueOK
<1> QED
  BY <1>1 DEF ValueOK

\* A knob whose entry and live guards are left alone.
LEMMA EntryKept ==
  ASSUME NEW n, EntryOK(n), OkGuards(n)' = OkGuards(n), n \in DOMAIN pending' <=> n \in DOMAIN pending,
         n \in DOMAIN pending => pending'[n] = pending[n]
  PROVE  EntryOK(n)'
<1>1. EntryAt(pending', n, OkGuards(n))
  BY EntryFrame DEF EntryOK
<1> QED
  BY <1>1 DEF EntryOK

\* A step that touches neither knobs, table nor live guards.
LEMMA SettledKept ==
  ASSUME Settled, knob' = knob, pending' = pending, armed' = armed,
         \A n : OkGuards(n)' = OkGuards(n),
         \A n : \A k \in OkGuards(n) : guards'[k] = guards[k]
  PROVE  Settled'
<1>1. ASSUME NEW n \in Knobs PROVE ValueOK(n)' /\ EntryOK(n)'
  BY ValueKept, EntryKept, Zenon DEF Settled
<1>2. armed' \/ \A n \in Knobs : OkGuards(n)' = {}
  BY Zenon DEF Settled
<1> QED
  BY <1>1, <1>2, Zenon DEF Settled

\* An entry of the table.
LEMMA PendingType ==
  ASSUME TypeOK, NEW n \in DOMAIN pending
  PROVE  /\ pending[n] \in [original : Int, depth : Int] /\ n \in Knobs
         /\ pending[n].original \in Int /\ pending[n].depth \in Int
<1>1. pending[n] \in [original : Int, depth : Int] /\ n \in Knobs
  BY DEF TypeOK
<1> QED
  BY <1>1

-----------------------------------------------------------------------------
(* The constructor *)

\* The constructor is entered.
LEMMA ConstructStep ==
  ASSUME ScopeInv, NEW name \in Knobs, NEW value \in Values, Construct(name, value)
  PROVE  ScopeInv'
<1> PICK g : g = [name |-> name, value |-> value, original |-> knob[name], ok |-> FALSE]
  OBVIOUS
<1>1. TypeOK /\ Chain /\ Settled
  BY DEF ScopeInv, Construct
<1>2. g \in Guard /\ ~ g.ok /\ g.original = knob[name] /\ g.name = name
  BY <1>1 DEF TypeOK, Guard
<1>3. guards' = Append(guards, g) /\ knob' = knob /\ pending' = pending /\ armed' = armed
  BY DEF Construct
<1>4. /\ guards' \in Seq(Guard) /\ guards' # <<>> /\ Top' = g
      /\ \A n : OkGuards(n)' = OkGuards(n)
      /\ \A n : \A k \in OkGuards(n) : guards'[k] = guards[k]
  BY <1>1, <1>2, <1>3, Pushed
<1>5. pc' \in {"run", "set"}
  BY DEF Construct
<1>6. TypeOK'
  BY <1>1, <1>3, <1>4, <1>5 DEF TypeOK, Places
<1>7. Chain'
  BY <1>1, <1>4, ChainPushed
<1>8. Settled'
  BY <1>1, <1>3, <1>4, SettledKept
<1>9. ~ Top'.ok /\ Top'.original = knob'[Top'.name]
  BY <1>2, <1>3, <1>4
<1> QED
  BY <1>5, <1>6, <1>7, <1>8, <1>9 DEF ScopeInv

\* It sets the knob.
LEMMA CtorSetStep ==
  ASSUME ScopeInv, CtorSet
  PROVE  ScopeInv'
<1>1. TypeOK /\ Chain /\ Settled /\ ~ Top.ok /\ Top.original = knob[Top.name] /\ pc = "set"
  BY DEF ScopeInv, CtorSet
<1>2. guards # <<>>
  BY <1>1 DEF TypeOK
<1>3. /\ Len(guards) \in Nat \ {0} /\ Top \in Guard /\ Top.name \in Knobs
      /\ Top.value \in Values
  BY <1>1, <1>2, StackFacts DEF Guard
<1>4. /\ guards' \in Seq(Guard) /\ Len(guards') = Len(guards)
      /\ Top' = [Top EXCEPT !.ok = TRUE]
      /\ \A k \in 1 .. Len(guards) : k # Len(guards) => guards'[k] = guards[k]
  BY <1>1, <1>2, TopOk DEF CtorSet
<1>5. /\ Top'.ok /\ Top'.name = Top.name /\ Top'.value = Top.value /\ Top'.original = Top.original
  BY <1>3, <1>4 DEF Guard
<1>6. /\ \A n : Len(guards) \notin OkGuards(n) /\ Under(n)' = OkGuards(n)
      /\ \A n : n # Top.name => OkGuards(n)' = OkGuards(n)
      /\ OkGuards(Top.name)' = OkGuards(Top.name) \cup {Len(guards)}
      /\ \A n : \A k \in OkGuards(n) : guards'[k] = guards[k]
  BY <1>1, <1>2, <1>4, <1>5, Enlivened
<1>t. PICK t \in Knobs : t = Top.name
  BY <1>3
<1>u. /\ Top'.name = t /\ OkGuards(t)' = OkGuards(t) \cup {Len(guards)}
      /\ Under(t)' = OkGuards(t)
  BY <1>5, <1>6, <1>t
<1>7. guards' # <<>>
  BY <1>3, <1>4, EmptySeq
<1>8. /\ knob' = [knob EXCEPT ![Top.name] = Top.value] /\ pc' = "insert"
      /\ pending' = pending /\ armed' = armed
  BY DEF CtorSet
<1>9. TypeOK'
  <2>1. knob' \in [Knobs -> Int]
    BY <1>1, <1>3, <1>8, GuardsAssumption DEF TypeOK
  <2> QED
    BY <1>1, <1>4, <1>7, <1>8, <2>1 DEF TypeOK, Places
<1>10. ValueOK(Top.name)
  BY <1>1, <1>3 DEF Settled
<1>11. Chain'
  BY <1>1, <1>2, <1>4, <1>5, <1>6, <1>10, ChainEnlivened
<1>12. ASSUME NEW n \in Knobs, n # t PROVE ValueOK(n)' /\ EntryOK(n)'
  <2>1. /\ OkGuards(n)' = OkGuards(n) /\ \A k \in OkGuards(n) : guards'[k] = guards[k]
        /\ ValueOK(n) /\ EntryOK(n)
    BY <1>1, <1>6, <1>12, <1>t, Zenon DEF Settled
  <2>2. knob'[n] = knob[n]
    BY <1>1, <1>8, <1>12, <1>t DEF TypeOK
  <2>3. n \in DOMAIN pending' <=> n \in DOMAIN pending /\ pending'[n] = pending[n]
    BY <1>8, Zenon
  <2> QED
    BY <1>8, <2>1, <2>2, <2>3, ValueKept, EntryKept, Zenon
<1>13. ValueOK(t)'
  <2>1. PICK S : S = OkGuards(t)'
    OBVIOUS
  <2>2. knob'[t] = Top.value
    BY <1>1, <1>8, <1>t DEF TypeOK
  <2>3. guards'[Len(guards)].value = Top.value
    BY <1>4, <1>5, <1>t DEF Top
  <2>4. S # {} /\ \A k \in S : (\A j \in S : j <= k) => k = Len(guards)
    <3>1. Len(guards) \in S /\ \A k \in S : k \in Nat /\ k <= Len(guards)
      BY <1>3, <1>4, <1>u, <2>1 DEF OkGuards
    <3> QED
      BY <1>3, <3>1
  <2>5. ValueAt(knob'[t], guards', t, S)
    BY <2>2, <2>3, <2>4 DEF ValueAt
  <2> QED
    BY <2>1, <2>5 DEF ValueOK
<1>14. EntryAt(pending', t, Under(t)')
  <2>1. EntryOK(t) /\ Under(t)' = OkGuards(t)
    BY <1>1, <1>u DEF Settled
  <2> QED
    BY <1>8, <2>1 DEF EntryOK
<1>15. Constructing'
  <2>1. ASSUME NEW n \in Knobs PROVE ValueOK(n)'
    BY <1>12, <1>13
  <2>2. EntryAt(pending, Top.name, Under(Top.name))'
    BY <1>14, <1>u
  <2>3. ASSUME NEW n \in Knobs \ {Top'.name} PROVE EntryOK(n)'
    BY <1>12, <1>u
  <2> QED
    BY <1>5, <1>8, <2>1, <2>2, <2>3 DEF Constructing
<1> QED
  BY <1>8, <1>9, <1>11, <1>15 DEF ScopeInv

\* It cannot set the knob.
LEMMA CtorSetFailsStep ==
  ASSUME ScopeInv, CtorSetFails
  PROVE  ScopeInv'
<1>1. TypeOK /\ Chain /\ Settled
  BY DEF ScopeInv, CtorSetFails
<1>2. guards' = guards /\ knob' = knob /\ pending' = pending /\ armed' = armed /\ pc' = "run"
  BY DEF CtorSetFails
<1>3. TypeOK'
  BY <1>1, <1>2 DEF TypeOK, Places
<1>4. Chain' /\ \A n : OkGuards(n)' = OkGuards(n)
  BY <1>1, <1>2, Untouched
<1>5. Settled'
  BY <1>1, <1>2, <1>4, SettledKept
<1> QED
  BY <1>2, <1>3, <1>4, <1>5 DEF ScopeInv

\* The statements of the constructor that touch its own entry only.
LEMMA CtorTable ==
  ASSUME TypeOK, Chain, Constructing, guards # <<>>, guards' = guards, knob' = knob,
         \A n \in Knobs : n # Top.name =>
            /\ n \in DOMAIN pending' <=> n \in DOMAIN pending
            /\ n \in DOMAIN pending => pending'[n] = pending[n]
  PROVE  /\ Chain' /\ Top' = Top /\ Top.name \in Knobs
         /\ \A n : OkGuards(n)' = OkGuards(n) /\ Under(n)' = Under(n)
         /\ \A n \in Knobs : ValueOK(n)'
         /\ \A n \in Knobs \ {Top.name} : EntryOK(n)'
         /\ Len(guards) \in OkGuards(Top.name)
         /\ Cardinality(OkGuards(Top.name)) = Cardinality(Under(Top.name)) + 1
<1>1. /\ Chain' /\ Top' = Top
      /\ \A n : OkGuards(n)' = OkGuards(n) /\ Under(n)' = Under(n)
  BY Untouched
<1>2. Top.name \in Knobs /\ Len(guards) \in 1 .. Len(guards)
  BY StackFacts
<1>3. ASSUME NEW n \in Knobs PROVE ValueOK(n)'
  BY <1>1, ValueKept DEF Constructing
<1>4. ASSUME NEW n \in Knobs, n # Top.name PROVE EntryOK(n)'
  <2>1. EntryOK(n)
    BY <1>4 DEF Constructing
  <2> QED
    BY <1>1, <1>4, <2>1, EntryKept
<1>5. Len(guards) \in OkGuards(Top.name)
  BY <1>2 DEF Constructing, OkGuards, Top
<1>6. Cardinality(OkGuards(Top.name)) = Cardinality(Under(Top.name)) + 1
  BY <1>5, LiveFinite
<1> QED
  BY <1>1, <1>2, <1>3, <1>4, <1>5, <1>6

\* It makes the table's entry.
LEMMA CtorInsertStep ==
  ASSUME ScopeInv, CtorInsert
  PROVE  ScopeInv'
<1>1. TypeOK /\ Chain /\ Constructing /\ pc = "insert"
  BY DEF ScopeInv, CtorInsert
<1>2. guards' = guards /\ knob' = knob /\ armed' = armed /\ pc' = "original"
  BY DEF CtorInsert
<1>3. guards # <<>> /\ Top.name \in Knobs
  BY <1>1, StackFacts DEF TypeOK
<1>4. /\ DOMAIN pending' = DOMAIN pending \cup {Top.name}
      /\ \A n \in DOMAIN pending : pending'[n] = pending[n]
      /\ Top.name \notin DOMAIN pending => pending'[Top.name] = [original |-> 0, depth |-> 0]
  BY DEF CtorInsert
<1>5. TypeOK'
  <2>1. pending' \in [DOMAIN pending' -> [original : Int, depth : Int]]
    BY <1>1 DEF CtorInsert, TypeOK
  <2>2. DOMAIN pending' \subseteq Knobs
    BY <1>1, <1>3, <1>4 DEF TypeOK
  <2> QED
    BY <1>1, <1>2, <1>3, <2>1, <2>2 DEF TypeOK, Places
<1>6. /\ Chain' /\ Top' = Top
      /\ \A n : OkGuards(n)' = OkGuards(n) /\ Under(n)' = Under(n)
      /\ \A n \in Knobs : ValueOK(n)'
      /\ \A n \in Knobs \ {Top.name} : EntryOK(n)'
  BY <1>1, <1>2, <1>3, <1>4, CtorTable
<1>7. EntryAt(pending, Top.name, Under(Top.name))
  BY <1>1 DEF Constructing
<1>8. pending'[Top.name].depth = Cardinality(Under(Top.name))
  BY <1>1, <1>4, <1>7, LiveFinite DEF EntryAt
<1>9. Under(Top.name) # {} => pending'[Top.name].original = Initial[Top.name]
  BY <1>4, <1>7 DEF EntryAt
<1>10. Constructing'
  BY <1>1, <1>2, <1>4, <1>6, <1>8, <1>9 DEF Constructing
<1> QED
  BY <1>2, <1>5, <1>6, <1>10 DEF ScopeInv

\* It records the original value.
LEMMA CtorOriginalStep ==
  ASSUME ScopeInv, CtorOriginal
  PROVE  ScopeInv'
<1>1. TypeOK /\ Chain /\ Constructing /\ pc = "original"
  BY DEF ScopeInv, CtorOriginal
<1>2. guards' = guards /\ knob' = knob /\ armed' = armed /\ pc' = "depth"
  BY DEF CtorOriginal
<1>3. guards # <<>> /\ Top.name \in Knobs /\ Top.original \in Int
  BY <1>1, StackFacts DEF TypeOK, Guard
<1>4. Top.name \in DOMAIN pending /\ pending[Top.name].depth = Cardinality(Under(Top.name))
  BY <1>1 DEF Constructing
<1>5. OwnsValue <=> Under(Top.name) = {}
  BY <1>1, <1>4, LiveFinite DEF OwnsValue
<1>6. /\ pending' \in [DOMAIN pending -> [original : Int, depth : Int]]
      /\ \A n \in DOMAIN pending : n # Top.name => pending'[n] = pending[n]
      /\ pending'[Top.name].depth = pending[Top.name].depth
      /\ pending'[Top.name].original = IF OwnsValue THEN Top.original ELSE pending[Top.name].original
  BY <1>1, <1>3, <1>4 DEF CtorOriginal, TypeOK
<1>7. TypeOK'
  BY <1>1, <1>2, <1>3, <1>6 DEF TypeOK, Places
<1>8. /\ Chain' /\ Top' = Top
      /\ \A n : OkGuards(n)' = OkGuards(n) /\ Under(n)' = Under(n)
      /\ \A n \in Knobs : ValueOK(n)'
      /\ \A n \in Knobs \ {Top.name} : EntryOK(n)'
      /\ Len(guards) \in OkGuards(Top.name)
  BY <1>1, <1>2, <1>3, <1>6, CtorTable
<1>9. pending'[Top.name].original = Initial[Top.name]
  <2>1. CASE Under(Top.name) = {}
    <3>1. \A j \in OkGuards(Top.name) : j = Len(guards)
      BY <2>1 DEF Under
    <3>2. Len(guards) <= Len(guards)
      BY <1>1, StackFacts
    <3>3. Top.original = Initial[Top.name]
      BY <1>1, <1>3, <1>8, <3>1, <3>2 DEF Chain, Top
    <3> QED
      BY <1>5, <1>6, <2>1, <3>3
  <2>2. CASE Under(Top.name) # {}
    BY <1>1, <1>5, <1>6, <2>2 DEF Constructing
  <2> QED
    BY <2>1, <2>2
<1>10. Constructing'
  BY <1>1, <1>2, <1>4, <1>6, <1>8, <1>9 DEF Constructing
<1> QED
  BY <1>2, <1>7, <1>8, <1>10 DEF ScopeInv

\* It counts the guard.
LEMMA CtorDepthStep ==
  ASSUME ScopeInv, CtorDepth
  PROVE  ScopeInv'
<1>1. TypeOK /\ Chain /\ Constructing /\ pc = "depth"
  BY DEF ScopeInv, CtorDepth
<1>2. guards' = guards /\ knob' = knob /\ armed' = armed /\ pc' = "arm"
  BY DEF CtorDepth
<1>3. guards # <<>> /\ Top.name \in Knobs
  BY <1>1, StackFacts DEF TypeOK
<1>4. /\ Top.name \in DOMAIN pending /\ pending[Top.name].depth = Cardinality(Under(Top.name))
      /\ pending[Top.name].original = Initial[Top.name]
  BY <1>1 DEF Constructing
<1>5. DepthAfter \in Int
  BY <1>1, <1>4, PendingType DEF DepthAfter
<1>6. /\ pending' \in [DOMAIN pending -> [original : Int, depth : Int]]
      /\ \A n \in DOMAIN pending : n # Top.name => pending'[n] = pending[n]
      /\ pending'[Top.name].depth = DepthAfter
      /\ pending'[Top.name].original = pending[Top.name].original
  BY <1>1, <1>4, <1>5 DEF CtorDepth, TypeOK
<1>7. TypeOK'
  BY <1>1, <1>2, <1>3, <1>6 DEF TypeOK, Places
<1>8. /\ Chain' /\ Top' = Top
      /\ \A n : OkGuards(n)' = OkGuards(n) /\ Under(n)' = Under(n)
      /\ \A n \in Knobs : ValueOK(n)'
      /\ \A n \in Knobs \ {Top.name} : EntryOK(n)'
      /\ Len(guards) \in OkGuards(Top.name)
      /\ Cardinality(OkGuards(Top.name)) = Cardinality(Under(Top.name)) + 1
  BY <1>1, <1>2, <1>3, <1>6, CtorTable
<1>9. EntryAt(pending', Top.name, OkGuards(Top.name))
  BY <1>4, <1>6, <1>8 DEF EntryAt, DepthAfter
<1>10. EntryOK(Top.name)'
  BY <1>8, <1>9 DEF EntryOK
<1>11. Constructing'
  BY <1>1, <1>2, <1>8, <1>10 DEF Constructing
<1> QED
  BY <1>2, <1>7, <1>8, <1>11 DEF ScopeInv

\* It arms the signal handlers and the guard is live.
LEMMA CtorArmStep ==
  ASSUME ScopeInv, CtorArm
  PROVE  ScopeInv'
<1>1. TypeOK /\ Chain /\ Constructing /\ pc = "arm"
  BY DEF ScopeInv, CtorArm
<1>2. guards' = guards /\ knob' = knob /\ pending' = pending /\ armed' = TRUE /\ pc' = "run"
  BY DEF CtorArm
<1>3. guards # <<>>
  BY <1>1 DEF TypeOK
<1>4. TypeOK'
  BY <1>1, <1>2 DEF TypeOK, Places
<1>5. /\ Chain' /\ Top.name \in Knobs
      /\ \A n : OkGuards(n)' = OkGuards(n)
      /\ \A n \in Knobs : ValueOK(n)'
      /\ \A n \in Knobs \ {Top.name} : EntryOK(n)'
  BY <1>1, <1>2, <1>3, CtorTable
<1>6. EntryOK(Top.name)
  BY <1>1 DEF Constructing
<1>7. ASSUME NEW n \in Knobs PROVE EntryOK(n)'
  <2>1. CASE n = Top.name
    BY <1>2, <1>5, <1>6, <2>1, EntryKept
  <2> QED
    BY <1>5, <2>1
<1>8. Settled'
  BY <1>2, <1>5, <1>7 DEF Settled
<1> QED
  BY <1>2, <1>4, <1>5, <1>8 DEF ScopeInv

-----------------------------------------------------------------------------
(* The destructor *)

\* The destructor of a guard that is not live.
LEMMA DtorInertStep ==
  ASSUME ScopeInv, DtorInert
  PROVE  ScopeInv'
<1>1. TypeOK /\ Chain /\ Settled /\ guards # <<>> /\ ~ Top.ok /\ pc = "run"
  BY DEF ScopeInv, DtorInert
<1>2. guards' = Pop /\ knob' = knob /\ pending' = pending /\ armed' = armed /\ pc' = "run"
  BY DEF DtorInert
<1>3. /\ guards' \in Seq(Guard)
      /\ \A n : OkGuards(n)' = Under(n)
      /\ \A n : \A k \in Under(n) : guards'[k] = guards[k]
      /\ \A n : Under(n) = OkGuards(n)
  BY <1>1, <1>2, Popped
<1>4. TypeOK'
  BY <1>1, <1>2, <1>3 DEF TypeOK, Places
<1>5. Chain'
  BY <1>1, <1>3, ChainPopped
<1>6. /\ \A n : OkGuards(n)' = OkGuards(n)
      /\ \A n : \A k \in OkGuards(n) : guards'[k] = guards[k]
  BY <1>3
<1>7. Settled'
  BY <1>1, <1>2, <1>6, SettledKept
<1> QED
  BY <1>2, <1>4, <1>5, <1>7 DEF ScopeInv

\* What the innermost live guard remembers is what the ones below it gave.
LEMMA RestoresBelow ==
  ASSUME TypeOK, Chain, guards # <<>>, Top.ok, NEW t, t = Top.name
  PROVE  ValueAt(Top.original, guards, t, Under(t))
<1>1. t \in Knobs /\ Len(guards) \in 1 .. Len(guards) /\ Len(guards) \in Nat
  BY StackFacts
<1>2. Len(guards) \in OkGuards(t)
  BY <1>1 DEF OkGuards, Top
<1>3. /\ \A j \in OkGuards(t) : j \in Under(t) \/ j = Len(guards)
      /\ \A j \in Under(t) : j \in OkGuards(t) /\ j \in Nat /\ j < Len(guards)
  BY <1>1 DEF Under, OkGuards
<1>4. ASSUME Under(t) = {} PROVE Top.original = Initial[t]
  <2>1. \A j \in OkGuards(t) : Len(guards) <= j
    BY <1>1, <1>3, <1>4
  <2> QED
    BY <1>1, <1>2, <2>1 DEF Chain, Top
<1>5. ASSUME NEW k \in Under(t), \A j \in Under(t) : j <= k
      PROVE  Top.original = guards[k].value
  <2>1. \A j \in OkGuards(t) : j <= k \/ Len(guards) <= j
    BY <1>1, <1>3, <1>5
  <2>2. k \in OkGuards(t) /\ k < Len(guards)
    BY <1>3
  <2> QED
    BY <1>1, <1>2, <2>1, <2>2 DEF Chain, Top
<1> QED
  BY <1>4, <1>5 DEF ValueAt

\* The destructor sets the value back.
LEMMA DtorSetStep ==
  ASSUME ScopeInv, DtorSet
  PROVE  ScopeInv'
<1>1. TypeOK /\ Chain /\ Settled /\ guards # <<>> /\ Top.ok /\ pc = "run"
  BY DEF ScopeInv, DtorSet
<1>2. /\ knob' = [knob EXCEPT ![Top.name] = Top.original]
      /\ guards' = guards /\ pending' = pending /\ armed' = armed /\ pc' = "retire"
  BY DEF DtorSet, RestoreValue
<1>3. /\ Top.name \in Knobs /\ Top.original \in Int /\ Len(guards) \in 1 .. Len(guards)
  BY <1>1, StackFacts DEF Guard
<1>t. PICK t \in Knobs : t = Top.name
  BY <1>3
<1>4. TypeOK'
  BY <1>1, <1>2, <1>3 DEF TypeOK, Places
<1>5. /\ Chain' /\ Top' = Top
      /\ \A n : OkGuards(n)' = OkGuards(n) /\ Under(n)' = Under(n)
  BY <1>1, <1>2, Untouched
<1>6. armed
  <2>1. Len(guards) \in OkGuards(t)
    BY <1>1, <1>3, <1>t DEF OkGuards, Top
  <2> QED
    BY <1>1, <2>1 DEF Settled
<1>7. ASSUME NEW n \in Knobs, n # t PROVE ValueOK(n)'
  <2>1. knob'[n] = knob[n] /\ ValueOK(n)
    BY <1>1, <1>2, <1>7, <1>t DEF TypeOK, Settled
  <2> QED
    BY <1>2, <1>5, <2>1, ValueKept
<1>8. ASSUME NEW n \in Knobs PROVE EntryOK(n)'
  BY <1>1, <1>2, <1>5, EntryKept DEF Settled
<1>9. ValueAt(knob[t], guards, t, Under(t))'
  <2>1. knob'[t] = Top.original
    BY <1>1, <1>2, <1>t DEF TypeOK
  <2>2. ValueAt(Top.original, guards, t, Under(t))
    BY <1>1, <1>t, RestoresBelow
  <2> QED
    BY <1>2, <1>5, <2>1, <2>2
<1>10. Top'.name = t /\ Top'.ok
  BY <1>1, <1>5, <1>t
<1>11. Retiring'
  BY <1>2, <1>6, <1>7, <1>8, <1>9, <1>10 DEF Retiring
<1> QED
  BY <1>2, <1>4, <1>5, <1>11 DEF ScopeInv

\* It uncounts the guard.
LEMMA DtorRetireStep ==
  ASSUME ScopeInv, DtorRetire
  PROVE  ScopeInv'
<1>1. TypeOK /\ Chain /\ Retiring /\ pc = "retire"
  BY DEF ScopeInv, DtorRetire
<1>2. guards' = Pop /\ knob' = knob /\ armed' = armed /\ pc' = "run"
  BY DEF DtorRetire
<1>3. guards # <<>>
  BY <1>1 DEF TypeOK
<1>4. Top.name \in Knobs /\ Len(guards) \in 1 .. Len(guards) /\ Top.ok /\ armed
  BY <1>1, <1>3, StackFacts DEF Retiring
<1>t. PICK t \in Knobs : t = Top.name
  BY <1>4
<1>5. /\ guards' \in Seq(Guard)
      /\ \A n : OkGuards(n)' = Under(n)
      /\ \A n : \A k \in Under(n) : guards'[k] = guards[k]
      /\ \A n : n # t => Under(n) = OkGuards(n)
  BY <1>1, <1>2, <1>3, <1>t, Popped
<1>6. Chain'
  BY <1>1, <1>3, <1>5, ChainPopped
<1>7. Len(guards) \in OkGuards(t)
  BY <1>4, <1>t DEF OkGuards, Top
<1>8. EntryAt(pending, t, OkGuards(t))
  BY <1>1 DEF Retiring, EntryOK
<1>9. t \in DOMAIN pending /\ pending[t].original = Initial[t] /\ pending[t].depth = Cardinality(OkGuards(t))
  BY <1>7, <1>8 DEF EntryAt
<1>10. /\ Cardinality(OkGuards(t)) = Cardinality(Under(t)) + 1 /\ Cardinality(Under(t)) \in Nat
       /\ Under(t) = {} <=> Cardinality(Under(t)) = 0
  BY <1>1, <1>7, LiveFinite
<1>11. Retires <=> Under(t) = {}
  BY <1>9, <1>10, <1>t DEF Retires
<1>12. /\ Retires => DOMAIN pending' = DOMAIN pending \ {t}
       /\ ~ Retires => DOMAIN pending' = DOMAIN pending /\ pending'[t].depth = pending[t].depth - 1
                       /\ pending'[t].original = pending[t].original
       /\ \A n \in DOMAIN pending : n # t => pending'[n] = pending[n]
       /\ pending' \in [DOMAIN pending' -> [original : Int, depth : Int]]
  <2>1. CASE Retires
    BY <1>1, <1>9, <1>t, <2>1 DEF DtorRetire, TypeOK
  <2>2. CASE ~ Retires
    <3>1. pending[t] \in [original : Int, depth : Int]
      BY <1>1, <1>9, PendingType
    <3>2. pending' = [pending EXCEPT ![t].depth = @ - 1]
      BY <1>9, <1>t, <2>2 DEF DtorRetire
    <3>3. pending[t].depth \in Int /\ pending[t].original \in Int
      BY <1>1, <1>9, PendingType
    <3>4. pending \in [DOMAIN pending -> [original : Int, depth : Int]]
      BY <1>1 DEF TypeOK
    <3>5. /\ DOMAIN pending' = DOMAIN pending
          /\ \A n \in DOMAIN pending : n # t => pending'[n] = pending[n]
      BY <1>9, <3>2, <3>4
    <3>6. /\ pending'[t].depth = pending[t].depth - 1
          /\ pending'[t].original = pending[t].original
      BY <1>9, <3>1, <3>2, <3>4
    <3>7. pending' \in [DOMAIN pending -> [original : Int, depth : Int]]
      BY <1>9, <3>1, <3>2, <3>3, <3>4
    <3> QED
      BY <2>2, <3>5, <3>6, <3>7
  <2> QED
    BY <2>1, <2>2
<1>13. TypeOK'
  <2>1. DOMAIN pending' \subseteq Knobs
    BY <1>1, <1>12 DEF TypeOK
  <2> QED
    BY <1>1, <1>2, <1>5, <1>12, <2>1 DEF TypeOK, Places
<1>14. ASSUME NEW n \in Knobs PROVE ValueOK(n)' /\ EntryOK(n)'
  <2>1. CASE n # t
    <3>1. OkGuards(n)' = OkGuards(n) /\ \A k \in OkGuards(n) : guards'[k] = guards[k]
      BY <1>5, <2>1
    <3>2. ValueOK(n) /\ EntryOK(n)
      BY <1>1, <1>t, <2>1 DEF Retiring
    <3>3. (n \in DOMAIN pending' <=> n \in DOMAIN pending) /\ (n \in DOMAIN pending => pending'[n] = pending[n])
      BY <1>12, <2>1
    <3>4. ValueOK(n)'
      BY <1>2, <3>1, <3>2, ValueKept
    <3>5. EntryOK(n)'
      BY <3>1, <3>2, <3>3, EntryKept
    <3> QED
      BY <3>4, <3>5
  <2>2. CASE n = t
    <3>1. ValueAt(knob[n], guards, n, Under(n))
      BY <1>1, <1>t, <2>2 DEF Retiring
    <3>2. ValueAt(knob'[n], guards', n, Under(n))
      BY <1>2, <1>5, <3>1, ValueFrame
    <3>3. ValueOK(n)'
      BY <1>5, <3>2 DEF ValueOK
    <3>4. EntryAt(pending', n, Under(n))
      BY <1>9, <1>10, <1>11, <1>12, <2>2 DEF EntryAt
    <3>5. EntryOK(n)'
      BY <1>5, <3>4 DEF EntryOK
    <3> QED
      BY <3>3, <3>5
  <2> QED
    BY <2>1, <2>2
<1>15. Settled'
  BY <1>2, <1>4, <1>14 DEF Settled
<1> QED
  BY <1>2, <1>6, <1>13, <1>15 DEF ScopeInv

-----------------------------------------------------------------------------
(* The end of the process *)

\* The process ends.
LEMMA EndsStep ==
  ASSUME ScopeInv, pc \in {"run", "retire"}, Ends
  PROVE  ScopeInv'
<1>1. TypeOK /\ Chain
  BY DEF ScopeInv
<1>2. guards' = guards /\ armed' = armed /\ pc' = "dead"
  BY DEF Ends
<1>3. ASSUME NEW n \in Knobs PROVE EntryOK(n)
  BY DEF ScopeInv, Settled, Retiring
<1>4. ASSUME NEW n \in Knobs, OkGuards(n) = {} PROVE knob[n] = Initial[n]
  <2>1. ValueOK(n)
    <3>1. CASE pc = "run"
      BY <3>1 DEF ScopeInv, Settled
    <3>2. CASE pc = "retire"
      <4>1. Retiring /\ guards # <<>>
        BY <3>2 DEF ScopeInv, TypeOK
      <4>2. Len(guards) \in OkGuards(Top.name)
        BY <1>1, <4>1, StackFacts DEF Retiring, OkGuards, Top
      <4> QED
        BY <1>4, <4>1, <4>2 DEF Retiring
    <3> QED
      BY <3>1, <3>2
  <2> QED
    BY <1>4, <2>1 DEF ValueOK, ValueAt
<1>5. ASSUME NEW n \in Knobs, ~ armed PROVE OkGuards(n) = {}
  BY <1>5 DEF ScopeInv, Settled, Retiring
<1>6. knob' \in [Knobs -> Int] /\ \A n \in Knobs : knob'[n] = Initial[n]
  <2>1. CASE armed
    <3>1. knob' = [n \in Knobs |-> IF n \in DOMAIN pending THEN pending[n].original ELSE knob[n]]
      BY <2>1 DEF Ends, Restored
    <3>2. ASSUME NEW n \in Knobs PROVE knob'[n] = Initial[n]
      <4>1. CASE n \in DOMAIN pending
        BY <1>3, <3>1, <4>1 DEF EntryOK, EntryAt
      <4>2. CASE n \notin DOMAIN pending
        <5>1. OkGuards(n) = {}
          BY <1>3, <4>2 DEF EntryOK, EntryAt
        <5> QED
          BY <1>4, <3>1, <4>2, <5>1
      <4> QED
        BY <4>1, <4>2
    <3>3. \A n \in Knobs : Initial[n] \in Int
      BY InitialAssumption
    <3> QED
      BY <3>1, <3>2, <3>3
  <2>2. CASE ~ armed
    <3>1. knob' = knob
      BY <2>2 DEF Ends
    <3> QED
      BY <1>1, <1>4, <1>5, <2>2, <3>1 DEF TypeOK
  <2> QED
    BY <2>1, <2>2
<1>7. knob' = Initial
  BY <1>6, InitialAssumption
<1>8. /\ DOMAIN pending' \subseteq Knobs
      /\ pending' \in [DOMAIN pending' -> [original : Int, depth : Int]]
  <2>1. CASE armed
    <3>1. pending' = <<>> /\ DOMAIN pending' = {}
      BY <2>1 DEF Ends
    <3> QED
      BY <3>1
  <2>2. CASE ~ armed
    <3>1. pending' = pending
      BY <2>2 DEF Ends
    <3> QED
      BY <1>1, <3>1 DEF TypeOK
  <2> QED
    BY <2>1, <2>2
<1>9. TypeOK'
  BY <1>1, <1>2, <1>6, <1>8 DEF TypeOK
<1>10. Chain'
  BY <1>1, <1>2, Untouched
<1> QED
  BY <1>2, <1>7, <1>9, <1>10 DEF ScopeInv

\* The initial state.
LEMMA InitScope ==
  ASSUME Init
  PROVE  ScopeInv
<1>1. /\ knob = Initial /\ pending = <<>> /\ ~ armed /\ guards = <<>> /\ pc = "run"
      /\ armed \in BOOLEAN
  BY DEF Init
<1>2. guards \in Seq(Guard) /\ Len(guards) = 0
  BY <1>1, EmptySeq
<1>3. DOMAIN pending = {}
  BY <1>1
<1>4. TypeOK
  BY <1>1, <1>2, <1>3, InitialAssumption DEF TypeOK, Places
<1>5. ASSUME NEW n PROVE OkGuards(n) = {}
  BY <1>2 DEF OkGuards
<1>6. Chain
  BY <1>5 DEF Chain
<1>7. ASSUME NEW n \in Knobs PROVE ValueOK(n) /\ EntryOK(n)
  BY <1>1, <1>3, <1>5 DEF ValueOK, ValueAt, EntryOK, EntryAt
<1>8. Settled
  BY <1>5, <1>7 DEF Settled
<1> QED
  BY <1>1, <1>4, <1>6, <1>8 DEF ScopeInv

\* A step that changes nothing.
LEMMA StutterScope ==
  ASSUME ScopeInv, UNCHANGED vars
  PROVE  ScopeInv'
<1>1. /\ knob' = knob /\ pending' = pending /\ armed' = armed /\ guards' = guards /\ pc' = pc
  BY DEF vars
<1>2. TypeOK' = TypeOK
  BY <1>1 DEF TypeOK
<1>3. Top' = Top /\ (Chain => Chain') /\ \A n : OkGuards(n)' = OkGuards(n) /\ Under(n)' = Under(n)
  BY <1>1, Untouched
<1>4. ASSUME NEW n PROVE (ValueOK(n) => ValueOK(n)') /\ (EntryOK(n) => EntryOK(n)')
  BY <1>1, <1>3, ValueKept, EntryKept
<1>5. Settled => Settled'
  BY <1>1, <1>3, SettledKept
<1>6. ASSUME Constructing PROVE Constructing'
  BY <1>1, <1>3, <1>4, <1>6 DEF Constructing
<1>7. ASSUME Retiring PROVE Retiring'
  BY <1>1, <1>3, <1>4, <1>7 DEF Retiring
<1> QED
  BY <1>1, <1>2, <1>3, <1>5, <1>6, <1>7 DEF ScopeInv

\* The invariant, when the constructor is not interrupted.
THEOREM ScopeInvariant ==
  ASSUME SignalAt \subseteq {"run", "retire"}
  PROVE  Spec => []ScopeInv
<1>1. Init => ScopeInv
  BY InitScope
<1>2. ScopeInv /\ [Next]_vars => ScopeInv'
  <2> SUFFICES ASSUME ScopeInv, [Next]_vars PROVE ScopeInv'
    OBVIOUS
  <2>1. ASSUME NEW name \in Knobs, NEW value \in Values, Construct(name, value) PROVE ScopeInv'
    BY <2>1, ConstructStep
  <2>2. CASE CtorSet
    BY <2>2, CtorSetStep
  <2>3. CASE CtorSetFails
    BY <2>3, CtorSetFailsStep
  <2>4. CASE CtorInsert
    BY <2>4, CtorInsertStep
  <2>5. CASE CtorOriginal
    BY <2>5, CtorOriginalStep
  <2>6. CASE CtorDepth
    BY <2>6, CtorDepthStep
  <2>7. CASE CtorArm
    BY <2>7, CtorArmStep
  <2>8. CASE DtorInert
    BY <2>8, DtorInertStep
  <2>9. CASE DtorSet
    BY <2>9, DtorSetStep
  <2>10. CASE DtorRetire
    BY <2>10, DtorRetireStep
  <2>11. CASE Exit
    BY <2>11, EndsStep DEF Exit
  <2>12. CASE Signal
    BY <2>12, EndsStep DEF Signal
  <2>13. CASE UNCHANGED vars
    BY <2>13, StutterScope
  <2> QED
    BY <2>1, <2>2, <2>3, <2>4, <2>5, <2>6, <2>7, <2>8, <2>9, <2>10, <2>11, <2>12, <2>13 DEF Next
<1> QED
  BY <1>1, <1>2, PTL DEF Spec

\* However the process ends, by a return, by exit() or by a handled signal
\* outside a constructor, the machine's knobs are as it found them.
THEOREM MachineRestored ==
  ASSUME SignalAt \subseteq {"run", "retire"}
  PROVE  Spec => []RestoredAtDeath
<1>1. ScopeInv => RestoredAtDeath
  BY DEF ScopeInv, RestoredAtDeath
<1> QED
  BY <1>1, ScopeInvariant, PTL

\* Between the experiment's statements a knob has the value its innermost
\* live guard asked for, or the machine's own.
THEOREM ScopesNest ==
  ASSUME SignalAt \subseteq {"run", "retire"}
  PROVE  Spec => []ScopeValue
<1>1. ASSUME ScopeInv PROVE ScopeValue
  <2> SUFFICES ASSUME pc = "run", NEW n \in Knobs
      PROVE  knob[n] = IF OkGuards(n) = {} THEN Initial[n]
                       ELSE guards[CHOOSE k \in OkGuards(n) : \A j \in OkGuards(n) : j <= k].value
    BY DEF ScopeValue
  <2>1. TypeOK /\ ValueAt(knob[n], guards, n, OkGuards(n))
    BY <1>1 DEF ScopeInv, Settled, ValueOK
  <2>2. CASE OkGuards(n) = {}
    BY <2>1, <2>2 DEF ValueAt
  <2>3. CASE OkGuards(n) # {}
    <3>1. Len(guards) \in Nat /\ OkGuards(n) \subseteq 1 .. Len(guards)
      BY <2>1, StackFacts, LiveFinite
    <3>2. \E k \in OkGuards(n) : \A j \in OkGuards(n) : j <= k
      BY <2>3, <3>1, Innermost
    <3>3. PICK m : m = CHOOSE k \in OkGuards(n) : \A j \in OkGuards(n) : j <= k
      OBVIOUS
    <3>4. m \in OkGuards(n) /\ \A j \in OkGuards(n) : j <= m
      BY <3>2, <3>3, Zenon
    <3>5. knob[n] = guards[m].value
      BY <2>1, <3>4 DEF ValueAt
    <3> QED
      BY <2>3, <3>3, <3>5
  <2> QED
    BY <2>2, <2>3
<1>2. ScopeInv => ScopeValue
  BY <1>1
<1> QED
  BY <1>2, ScopeInvariant, PTL
=============================================================================
