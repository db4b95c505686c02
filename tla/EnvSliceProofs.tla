--------------------------- MODULE EnvSliceProofs ---------------------------
(***************************************************************************)
(* What the operators of EnvSlice return, for any set E of environments.   *)
(***************************************************************************)
EXTENDS EnvSlice, WellFoundedInduction, TLAPS

\* A nonempty set of indices has a least element.
LEMMA LeastIndex ==
  ASSUME NEW S, S \subseteq Nat, S # {}
  PROVE  \E i \in S : \A j \in S : i <= j
<1>1. \E i \in S : \A j \in S : ~(<<j, i>> \in OpToRel(<, Nat))
  BY NatLessThanWellFounded, WFMin
<1>2. PICK i \in S : \A j \in S : ~(<<j, i>> \in OpToRel(<, Nat))
  BY <1>1
<1>3. ASSUME NEW j \in S PROVE i <= j
  <2>1. i \in Nat /\ j \in Nat
    OBVIOUS
  <2>2. ~(j < i)
    BY <1>2, <2>1 DEF OpToRel
  <2> QED
    BY <2>1, <2>2
<1> QED
  BY <1>3

\* FindByName returns the first index that holds the name, or 0 if none does.
LEMMA FindByNameReturns ==
  ASSUME NEW E, NEW m, WellFormed(m, E), NEW name
  PROVE  LET i == FindByName(m, name) IN
         \/ i = 0 /\ \A j \in 1..m.len : Backing(m)[j].name # name
         \/ /\ i \in 1..m.len /\ Backing(m)[i].name = name
            /\ \A j \in 1..m.len : Backing(m)[j].name = name => i <= j
<1>1. CASE Positions(m, name) = {}
  BY <1>1 DEF FindByName, Positions
<1>2. CASE Positions(m, name) # {}
  <2>1. Positions(m, name) \subseteq Nat
    BY DEF Positions, WellFormed
  <2>2. \E i \in Positions(m, name) : \A j \in Positions(m, name) : i <= j
    BY <1>2, <2>1, LeastIndex
  <2>3. /\ FindByName(m, name) \in Positions(m, name)
        /\ \A j \in Positions(m, name) : FindByName(m, name) <= j
    BY <1>2, <2>2 DEF FindByName
  <2> QED
    BY <2>3 DEF Positions
<1> QED
  BY <1>1, <1>2

\* A name is found exactly when one of the slice's environments has it.
LEMMA NotFoundMeansAbsent ==
  ASSUME NEW E, NEW m, WellFormed(m, E), NEW name
  PROVE  FindByName(m, name) = 0 <=> \A j \in 1..m.len : Backing(m)[j].name # name
BY FindByNameReturns

\* FindByName's pointer may be read through and shows the environment found.
LEMMA FoundPointer ==
  ASSUME NEW E, NEW m, WellFormed(m, E), NEW name, FindByName(m, name) # 0
  PROVE  /\ PointerTo(m, FindByName(m, name)) \in [buf : Nat, idx : Nat]
         /\ PointerValid(m, PointerTo(m, FindByName(m, name)))
         /\ Deref(m, PointerTo(m, FindByName(m, name))).name = name
<1>1. FindByName(m, name) \in 1..m.len /\ Backing(m)[FindByName(m, name)].name = name
  BY FindByNameReturns
<1>2. m.len \in Nat /\ m.len <= Len(m.heap[m.buf]) /\ m.heap[m.buf] \in Seq(E) /\ m.buf \in Nat
  BY DEF WellFormed, Backing
<1> QED
  <2>1. m.buf \in DOMAIN m.heap /\ FindByName(m, name) \in DOMAIN m.heap[m.buf]
    BY <1>1, <1>2 DEF WellFormed
  <2> QED
    BY <1>1, <1>2, <2>1 DEF PointerTo, PointerValid, Deref, Backing

\* Reading through a valid pointer gives an environment.
LEMMA DerefType ==
  ASSUME NEW E, NEW m, WellFormed(m, E), NEW p, PointerValid(m, p)
  PROVE  Deref(m, p) \in E
<1>1. m.heap[p.buf] \in Seq(E)
  BY DEF WellFormed, PointerValid
<1> QED
  BY <1>1 DEF Deref, PointerValid

\* Load returns a well-formed memory, and Save finds environments to write.
LEMMA LoadedWellFormed ==
  ASSUME NEW E, NEW s \in Seq(E)
  PROVE  WellFormed(Loaded(s), E)
BY DEF WellFormed, Loaded, Backing

LEMMA EnvironmentsType ==
  ASSUME NEW E, NEW m, WellFormed(m, E)
  PROVE  Environments(m) \in Seq(E)
<1>1. m.heap[m.buf] \in Seq(E) /\ m.len \in Nat /\ m.len <= Len(m.heap[m.buf])
  BY DEF WellFormed, Backing
<1> QED
  BY <1>1 DEF Environments, Backing

\* No array is ever dropped or shortened, so a pointer once valid stays valid
\* (what it shows may change: see OneEnvironmentPerRun in module Runner).
KeepsPointers(m, n) == \A p : PointerValid(m, p) => PointerValid(n, p)

\* Replacing the contents of the slice's array by one of the same length.
LEMMA ReplacedWellFormed ==
  ASSUME NEW E, NEW m, WellFormed(m, E), NEW new \in Seq(E), Len(new) = Len(Backing(m)),
         NEW len \in Nat, len <= Len(new),
         NEW n, n = [m EXCEPT !.heap = [m.heap EXCEPT ![m.buf] = new], !.len = len]
  PROVE  WellFormed(n, E) /\ KeepsPointers(m, n)
<1>1. m.heap \in Seq(Seq(E)) /\ m.buf \in 1..Len(m.heap) /\ m.buf \in Nat
  BY DEF WellFormed
<1> DEFINE heap == [m.heap EXCEPT ![m.buf] = new]
<1>2. /\ heap \in Seq(Seq(E)) /\ Len(heap) = Len(m.heap)
      /\ \A i \in 1..Len(heap) : heap[i] = IF i = m.buf THEN new ELSE m.heap[i]
  BY <1>1
<1>3. n = [heap |-> heap, buf |-> m.buf, len |-> len]
  BY DEF WellFormed
<1> HIDE DEF heap
<1>4. WellFormed(n, E)
  BY <1>1, <1>2, <1>3 DEF WellFormed, Backing
<1>5. ASSUME NEW p, PointerValid(m, p) PROVE PointerValid(n, p)
  <2>1. p.buf \in 1..Len(m.heap) /\ p.idx \in DOMAIN m.heap[p.buf]
    BY <1>1, <1>5 DEF PointerValid
  <2>2. DOMAIN n.heap[p.buf] = DOMAIN m.heap[p.buf]
    <3>1. CASE p.buf = m.buf
      <4>1. m.heap[m.buf] \in Seq(E) /\ Len(new) = Len(m.heap[m.buf])
        BY <1>1 DEF Backing
      <4> QED
        BY <1>2, <1>3, <2>1, <3>1, <4>1
    <3>2. CASE p.buf # m.buf
      BY <1>2, <1>3, <2>1, <3>2
    <3> QED
      BY <3>1, <3>2
  <2> QED
    BY <1>2, <1>3, <2>1, <2>2 DEF PointerValid
<1> QED
  BY <1>4, <1>5 DEF KeepsPointers

\* append
LEMMA AppendedWellFormed ==
  ASSUME NEW E, NEW m, WellFormed(m, E), NEW env \in E
  PROVE  WellFormed(Appended(m, env), E) /\ KeepsPointers(m, Appended(m, env))
<1> DEFINE slots == m.heap[m.buf]
<1>1. /\ slots \in Seq(E) /\ m.len \in Nat /\ m.len <= Len(slots) /\ m.buf \in Nat
      /\ m.heap \in Seq(Seq(E)) /\ m.buf \in 1..Len(m.heap)
  BY DEF WellFormed, Backing
<1>2. CASE m.len < Len(slots)
  <2> DEFINE new == [slots EXCEPT ![m.len + 1] = env]
  <2>1. new \in Seq(E) /\ Len(new) = Len(slots)
    BY <1>1, <1>2
  <2>2. Appended(m, env) = [m EXCEPT !.heap = [m.heap EXCEPT ![m.buf] = new], !.len = m.len + 1]
    BY <1>2 DEF Appended, Backing
  <2>3. m.len + 1 \in Nat /\ m.len + 1 <= Len(new) /\ Len(new) = Len(Backing(m))
    BY <1>1, <1>2, <2>1 DEF Backing
  <2> HIDE DEF new
  <2> QED
    BY <2>1, <2>2, <2>3, ReplacedWellFormed
<1>3. CASE ~(m.len < Len(slots))
  <2> DEFINE size == IF slots = <<>> THEN 1 ELSE 2 * Len(slots)
             grown == [i \in 1..size |-> IF i <= m.len THEN slots[i] ELSE env]
  <2>1. size \in Nat /\ m.len + 1 <= size
    <3>1. m.len = Len(slots) /\ Len(slots) \in Nat
      BY <1>1, <1>3
    <3>2. CASE slots = <<>>
      BY <3>1, <3>2
    <3>3. CASE slots # <<>>
      <4>1. Len(slots) # 0
        BY <1>1, <3>3
      <4> QED
        BY <3>1, <3>3, <4>1
    <3> QED
      BY <3>2, <3>3
  <2>2. grown \in Seq(E) /\ Len(grown) = size
    <3> HIDE DEF size
    <3>1. ASSUME NEW i \in 1..size PROVE (IF i <= m.len THEN slots[i] ELSE env) \in E
      <4>1. i <= m.len => i \in 1..Len(slots)
        BY <1>1, <2>1
      <4>2. \A j \in 1..Len(slots) : slots[j] \in E
        BY <1>1
      <4> QED
        BY <4>1, <4>2
    <3>2. grown \in [1..size -> E]
      BY <3>1
    <3> HIDE DEF grown
    <3> QED
      BY <2>1, <3>2
  <2>3. Appended(m, env) =
          [heap |-> Append(m.heap, grown), buf |-> Len(m.heap) + 1, len |-> m.len + 1]
    BY <1>3 DEF Appended, Backing
  <2> HIDE DEF size, grown
  <2>4. /\ Append(m.heap, grown) \in Seq(Seq(E))
        /\ Len(Append(m.heap, grown)) = Len(m.heap) + 1
        /\ Append(m.heap, grown)[Len(m.heap) + 1] = grown
        /\ \A i \in 1..Len(m.heap) : Append(m.heap, grown)[i] = m.heap[i]
    BY <1>1, <2>2
  <2> DEFINE heap == Append(m.heap, grown)
  <2>5. /\ heap \in Seq(Seq(E)) /\ Len(heap) = Len(m.heap) + 1 /\ heap[Len(m.heap) + 1] = grown
        /\ \A i \in 1..Len(m.heap) : heap[i] = m.heap[i]
    BY <2>4
  <2> HIDE DEF heap
  <2>6. Appended(m, env) = [heap |-> heap, buf |-> Len(m.heap) + 1, len |-> m.len + 1]
    BY <2>3 DEF heap
  <2>7. WellFormed(Appended(m, env), E)
    BY <1>1, <2>1, <2>2, <2>5, <2>6 DEF WellFormed, Backing
  <2>8. KeepsPointers(m, Appended(m, env))
    <3>1. ASSUME NEW p, PointerValid(m, p) PROVE PointerValid(Appended(m, env), p)
      <4>1. p.buf \in 1..Len(m.heap) /\ p.idx \in DOMAIN m.heap[p.buf]
        BY <1>1, <3>1 DEF PointerValid
      <4>2. heap[p.buf] = m.heap[p.buf]
        BY <2>5, <4>1
      <4>3. DOMAIN heap = 1..(Len(m.heap) + 1) /\ Len(m.heap) \in Nat
        BY <1>1, <2>5
      <4>4. p.buf \in DOMAIN heap
        BY <4>1, <4>3
      <4> QED
        BY <2>6, <4>1, <4>2, <4>4 DEF PointerValid
    <3> QED
      BY <3>1 DEF KeepsPointers
  <2> QED
    BY <2>7, <2>8
<1> QED
  BY <1>2, <1>3

\* The shift of Remove.
LEMMA ShiftedType ==
  ASSUME NEW E, NEW slots \in Seq(E), NEW i \in Nat, NEW len \in Nat, len <= Len(slots)
  PROVE  Shifted(slots, i, len) \in Seq(E) /\ Len(Shifted(slots, i, len)) = Len(slots)
<1>1. \A j \in 1..Len(slots) : j < len => slots[j + 1] \in E
  OBVIOUS
<1> QED
  BY <1>1 DEF Shifted

\* Config.Add and Config.Update keep the memory well formed.
LEMMA AddWellFormed ==
  ASSUME NEW E, NEW m, WellFormed(m, E), NEW env \in E
  PROVE  WellFormed(Add(m, env), E) /\ KeepsPointers(m, Add(m, env))
BY AppendedWellFormed DEF Add, KeepsPointers

\* The assignment to a slot of the slice.
LEMMA AssignedWellFormed ==
  ASSUME NEW E, NEW m, WellFormed(m, E), NEW i \in 1..m.len, NEW env \in E
  PROVE  WellFormed(Assigned(m, i, env), E) /\ KeepsPointers(m, Assigned(m, i, env))
<1> DEFINE new == [m.heap[m.buf] EXCEPT ![i] = env]
<1>1. m.heap[m.buf] \in Seq(E) /\ m.len \in Nat /\ m.len <= Len(m.heap[m.buf])
  BY DEF WellFormed, Backing
<1>2. new \in Seq(E) /\ Len(new) = Len(Backing(m))
  BY <1>1 DEF Backing
<1>3. m.len <= Len(new)
  BY <1>1, <1>2 DEF Backing
<1>4. Assigned(m, i, env) = [m EXCEPT !.heap = [m.heap EXCEPT ![m.buf] = new], !.len = m.len]
  BY DEF Assigned, WellFormed
<1> HIDE DEF new
<1> QED
  BY <1>1, <1>2, <1>3, <1>4, ReplacedWellFormed

LEMMA UpdateWellFormed ==
  ASSUME NEW E, NEW m, WellFormed(m, E), NEW old, NEW env \in E
  PROVE  WellFormed(Update(m, old, env), E) /\ KeepsPointers(m, Update(m, old, env))
<1>1. CASE UpdateFails(m, old, env)
  BY <1>1 DEF Update, KeepsPointers
<1>2. CASE ~UpdateFails(m, old, env)
  <2>1. FindByName(m, old) \in 1..m.len
    BY <1>2, FindByNameReturns DEF UpdateFails
  <2>2. Update(m, old, env) = Assigned(m, FindByName(m, old), env)
    BY <1>2 DEF Update
  <2> QED
    BY <2>1, <2>2, AssignedWellFormed
<1> QED
  BY <1>1, <1>2

\* The shift of a slot out of the slice.
LEMMA RemovedWellFormed ==
  ASSUME NEW E, NEW m, WellFormed(m, E), NEW i \in 1..m.len
  PROVE  WellFormed(Removed(m, i), E) /\ KeepsPointers(m, Removed(m, i))
<1> DEFINE new == Shifted(Backing(m), i, m.len)
<1>1. Backing(m) \in Seq(E) /\ m.len \in Nat /\ m.len <= Len(Backing(m))
  BY DEF WellFormed, Backing
<1>2. new \in Seq(E) /\ Len(new) = Len(Backing(m))
  BY <1>1, ShiftedType
<1>3. m.len - 1 \in Nat /\ m.len - 1 <= Len(new)
  BY <1>1, <1>2
<1>4. Removed(m, i) = [m EXCEPT !.heap = [m.heap EXCEPT ![m.buf] = new], !.len = m.len - 1]
  BY DEF Removed
<1> HIDE DEF new
<1> QED
  BY <1>2, <1>3, <1>4, ReplacedWellFormed

-----------------------------------------------------------------------------
(* What the slice shows afterwards, and that names stay unique *)

LEMMA AppendedShows ==
  ASSUME NEW E, NEW m, WellFormed(m, E), NEW env \in E
  PROVE  LET n == Appended(m, env) IN
         /\ n.len = m.len + 1 /\ Backing(n)[m.len + 1] = env
         /\ \A j \in 1..m.len : Backing(n)[j] = Backing(m)[j]
<1> DEFINE slots == m.heap[m.buf]
<1>1. /\ slots \in Seq(E) /\ m.len \in Nat /\ m.len <= Len(slots)
      /\ m.heap \in Seq(Seq(E)) /\ m.buf \in 1..Len(m.heap)
      /\ m = [heap |-> m.heap, buf |-> m.buf, len |-> m.len]
  BY DEF WellFormed, Backing
<1>2. CASE m.len < Len(slots)
  <2> DEFINE new == [slots EXCEPT ![m.len + 1] = env]
             heap == [m.heap EXCEPT ![m.buf] = new]
  <2>1. new[m.len + 1] = env /\ \A j \in 1..m.len : new[j] = slots[j]
    BY <1>1, <1>2
  <2>2. heap[m.buf] = new
    BY <1>1
  <2>3. Appended(m, env) = [heap |-> heap, buf |-> m.buf, len |-> m.len + 1]
    BY <1>1, <1>2 DEF Appended, Backing
  <2> HIDE DEF new, heap
  <2> QED
    BY <1>1, <2>1, <2>2, <2>3 DEF Backing
<1>3. CASE ~(m.len < Len(slots))
  <2> DEFINE size == IF slots = <<>> THEN 1 ELSE 2 * Len(slots)
             grown == [i \in 1..size |-> IF i <= m.len THEN slots[i] ELSE env]
             heap == Append(m.heap, grown)
  <2>1. size \in Nat /\ m.len + 1 <= size
    BY <1>1, <1>3
  <2>2. grown[m.len + 1] = env /\ \A j \in 1..m.len : grown[j] = slots[j]
    BY <1>1, <2>1
  <2>3. heap[Len(m.heap) + 1] = grown
    BY <1>1
  <2>4. Appended(m, env) = [heap |-> heap, buf |-> Len(m.heap) + 1, len |-> m.len + 1]
    BY <1>3 DEF Appended, Backing
  <2> HIDE DEF size, grown, heap
  <2> QED
    BY <1>1, <2>2, <2>3, <2>4 DEF Backing
<1> QED
  BY <1>2, <1>3

\* The search of Config.Add is what keeps names unique.
LEMMA AddUnique ==
  ASSUME NEW E, NEW m, WellFormed(m, E), UniqueNames(m), NEW env \in E
  PROVE  UniqueNames(Add(m, env))
<1>1. CASE AddFails(m, env)
  BY <1>1 DEF Add
<1>2. CASE ~AddFails(m, env)
  <2> DEFINE n == Appended(m, env)
  <2>1. \A j \in 1..m.len : Backing(m)[j].name # env.name
    BY <1>2, NotFoundMeansAbsent DEF AddFails
  <2>2. /\ n.len = m.len + 1 /\ Backing(n)[m.len + 1] = env
        /\ \A j \in 1..m.len : Backing(n)[j] = Backing(m)[j]
    BY AppendedShows
  <2>3. m.len \in Nat
    BY DEF WellFormed
  <2> HIDE DEF n
  <2>4. ASSUME NEW i \in 1..n.len, NEW j \in 1..n.len,
               Backing(n)[i].name = Backing(n)[j].name
        PROVE  i = j
    <3>1. i \in 1..m.len \/ i = m.len + 1
      BY <2>2, <2>3
    <3>2. j \in 1..m.len \/ j = m.len + 1
      BY <2>2, <2>3
    <3> QED
      BY <2>1, <2>2, <2>4, <3>1, <3>2 DEF UniqueNames
  <2>5. UniqueNames(n)
    BY <2>4 DEF UniqueNames
  <2> QED
    BY <1>2, <2>5 DEF Add, n
<1> QED
  BY <1>1, <1>2

LEMMA AssignedShows ==
  ASSUME NEW E, NEW m, WellFormed(m, E), NEW i \in 1..m.len, NEW env \in E
  PROVE  LET n == Assigned(m, i, env) IN
         /\ n.len = m.len
         /\ \A j \in 1..m.len : Backing(n)[j] = IF j = i THEN env ELSE Backing(m)[j]
<1> DEFINE new == [m.heap[m.buf] EXCEPT ![i] = env]
           heap == [m.heap EXCEPT ![m.buf] = new]
<1>1. /\ m.heap[m.buf] \in Seq(E) /\ m.len \in Nat /\ m.len <= Len(m.heap[m.buf])
      /\ m = [heap |-> m.heap, buf |-> m.buf, len |-> m.len]
  BY DEF WellFormed, Backing
<1>2. \A j \in 1..m.len : new[j] = IF j = i THEN env ELSE m.heap[m.buf][j]
  BY <1>1
<1>3. heap[m.buf] = new
  BY DEF WellFormed
<1>4. Assigned(m, i, env) = [heap |-> heap, buf |-> m.buf, len |-> m.len]
  BY <1>1 DEF Assigned
<1> HIDE DEF new, heap
<1> QED
  BY <1>2, <1>3, <1>4 DEF Backing

LEMMA RemovedShows ==
  ASSUME NEW E, NEW m, WellFormed(m, E), NEW i \in 1..m.len
  PROVE  LET n == Removed(m, i) IN
         /\ n.len = m.len - 1
         /\ \A j \in 1..(m.len - 1) :
              Backing(n)[j] = IF i <= j THEN Backing(m)[j + 1] ELSE Backing(m)[j]
<1> DEFINE new == Shifted(Backing(m), i, m.len)
           heap == [m.heap EXCEPT ![m.buf] = new]
<1>1. /\ Backing(m) \in Seq(E) /\ m.len \in Nat /\ m.len <= Len(Backing(m))
      /\ m = [heap |-> m.heap, buf |-> m.buf, len |-> m.len] /\ m.buf \in DOMAIN m.heap
  BY DEF WellFormed, Backing
<1>2. \A j \in 1..(m.len - 1) : new[j] = IF i <= j THEN Backing(m)[j + 1] ELSE Backing(m)[j]
  BY <1>1 DEF Shifted
<1>3. Removed(m, i) = [m EXCEPT !.heap = heap, !.len = m.len - 1]
  BY DEF Removed
<1> HIDE DEF new
<1>4. heap[m.buf] = new
  BY <1>1
<1> HIDE DEF heap
<1>5. Removed(m, i) = [heap |-> heap, buf |-> m.buf, len |-> m.len - 1]
  BY <1>1, <1>3
<1>6. Backing(Removed(m, i)) = new /\ Removed(m, i).len = m.len - 1
  BY <1>4, <1>5 DEF Backing
<1> QED
  BY <1>2, <1>6

\* Config.Update: the searches for the old name and for the new one.
LEMMA UpdateUnique ==
  ASSUME NEW E, NEW m, WellFormed(m, E), UniqueNames(m), NEW old, NEW env \in E
  PROVE  UniqueNames(Update(m, old, env))
<1>1. CASE UpdateFails(m, old, env)
  BY <1>1 DEF Update
<1>2. CASE ~UpdateFails(m, old, env)
  <2> DEFINE k == FindByName(m, old)
             n == Update(m, old, env)
  <2>1. k \in 1..m.len /\ Backing(m)[k].name = old
    BY <1>2, FindByNameReturns DEF UpdateFails
  <2>2. env.name = old \/ \A j \in 1..m.len : Backing(m)[j].name # env.name
    BY <1>2, NotFoundMeansAbsent DEF UpdateFails
  <2>3. n = Assigned(m, k, env)
    BY <1>2 DEF Update
  <2> HIDE DEF k, n
  <2>4. n.len = m.len /\ \A j \in 1..m.len : Backing(n)[j] = IF j = k THEN env ELSE Backing(m)[j]
    BY <2>1, <2>3, AssignedShows
  <2>5. ASSUME NEW i \in 1..n.len, NEW j \in 1..n.len,
               Backing(n)[i].name = Backing(n)[j].name
        PROVE  i = j
    BY <2>1, <2>2, <2>4, <2>5 DEF UniqueNames
  <2> QED
    BY <2>5 DEF UniqueNames, n
<1> QED
  BY <1>1, <1>2

\* Config.Remove: the elements that move down were different before.
LEMMA RemovedUnique ==
  ASSUME NEW E, NEW m, WellFormed(m, E), UniqueNames(m), NEW k \in 1..m.len
  PROVE  UniqueNames(Removed(m, k))
<1> DEFINE n == Removed(m, k)
<1>1. m.len \in Nat
  BY DEF WellFormed
<1>2. /\ n.len = m.len - 1
      /\ \A j \in 1..(m.len - 1) :
           Backing(n)[j] = IF k <= j THEN Backing(m)[j + 1] ELSE Backing(m)[j]
  BY RemovedShows
<1> HIDE DEF n
<1>3. ASSUME NEW i \in 1..n.len, NEW j \in 1..n.len, Backing(n)[i].name = Backing(n)[j].name
      PROVE  i = j
  <2> DEFINE was(x) == IF k <= x THEN x + 1 ELSE x
  <2>1. was(i) \in 1..m.len /\ was(j) \in 1..m.len
    BY <1>1, <1>2
  <2>2. Backing(m)[was(i)].name = Backing(m)[was(j)].name
    BY <1>2, <1>3
  <2>3. was(i) = was(j)
    BY <2>1, <2>2 DEF UniqueNames
  <2> QED
    BY <1>1, <1>2, <2>3
<1> QED
  BY <1>3 DEF UniqueNames, n

\* What Save writes is what memory shows, and so are its names.
LEMMA EnvironmentsShow ==
  ASSUME NEW E, NEW m, WellFormed(m, E)
  PROVE  /\ Len(Environments(m)) = m.len /\ DOMAIN Environments(m) = 1..m.len
         /\ \A j \in 1..m.len : Environments(m)[j] = Backing(m)[j]
<1>1. m.heap[m.buf] \in Seq(E) /\ m.len \in Nat /\ m.len <= Len(m.heap[m.buf])
  BY DEF WellFormed, Backing
<1> QED
  BY <1>1 DEF Environments, Backing

LEMMA SavedUnique ==
  ASSUME NEW E, NEW m, WellFormed(m, E), UniqueNames(m)
  PROVE  UniqueNames(Loaded(Environments(m)))
BY EnvironmentsShow DEF UniqueNames, Loaded, Backing
-----------------------------------------------------------------------------
(* What a pointer goes on showing *)

LEMMA FoundInSlice ==
  ASSUME NEW E, NEW m, WellFormed(m, E), NEW name, FindByName(m, name) # 0
  PROVE  InSlice(m, PointerTo(m, FindByName(m, name)))
<1>1. FindByName(m, name) \in 1..m.len /\ m.len \in Nat
  BY FindByNameReturns DEF WellFormed
<1> QED
  BY <1>1 DEF InSlice, PointerTo

\* append writes behind the slice, in place or in an array of its own.
LEMMA AppendedKeepsShown ==
  ASSUME NEW E, NEW m, WellFormed(m, E), NEW env \in E,
         NEW p \in [buf : Nat, idx : Nat], PointerValid(m, p), InSlice(m, p)
  PROVE  Deref(Appended(m, env), p) = Deref(m, p) /\ InSlice(Appended(m, env), p)
<1> DEFINE slots == m.heap[m.buf]
<1>1. /\ slots \in Seq(E) /\ m.len \in Nat /\ m.len <= Len(slots)
      /\ m.heap \in Seq(Seq(E)) /\ m.buf \in 1..Len(m.heap)
      /\ m = [heap |-> m.heap, buf |-> m.buf, len |-> m.len]
      /\ p.buf \in 1..Len(m.heap) /\ p.idx \in Nat
  BY DEF WellFormed, Backing, PointerValid
<1>2. CASE m.len < Len(slots)
  <2> DEFINE new == [slots EXCEPT ![m.len + 1] = env]
             heap == [m.heap EXCEPT ![m.buf] = new]
  <2>1. Appended(m, env) = [heap |-> heap, buf |-> m.buf, len |-> m.len + 1]
    BY <1>1, <1>2 DEF Appended, Backing
  <2>2. \A j \in 1..m.len : new[j] = slots[j]
    BY <1>1
  <2>3. heap[p.buf] = IF p.buf = m.buf THEN new ELSE m.heap[p.buf]
    BY <1>1
  <2>4. p.buf = m.buf => p.idx \in 1..m.len
    BY <1>1 DEF PointerValid, InSlice
  <2> HIDE DEF new, heap
  <2> QED
    BY <1>1, <2>1, <2>2, <2>3, <2>4 DEF Deref, InSlice
<1>3. CASE ~(m.len < Len(slots))
  <2>1. PICK grown : Appended(m, env) =
          [heap |-> Append(m.heap, grown), buf |-> Len(m.heap) + 1, len |-> m.len + 1]
    BY <1>3 DEF Appended, Backing
  <2>2. Append(m.heap, grown)[p.buf] = m.heap[p.buf]
    BY <1>1
  <2> QED
    BY <1>1, <2>1, <2>2 DEF Deref, InSlice
<1> QED
  BY <1>2, <1>3

\* Writing an environment of the same name into a slot keeps every name shown.
LEMMA AssignedKeepsName ==
  ASSUME NEW E, NEW m, WellFormed(m, E), NEW i \in 1..m.len, NEW env \in E,
         env.name = Backing(m)[i].name,
         NEW p \in [buf : Nat, idx : Nat], PointerValid(m, p), InSlice(m, p)
  PROVE  LET n == Assigned(m, i, env) IN
         Deref(n, p).name = Deref(m, p).name /\ InSlice(n, p)
<1> DEFINE new == [m.heap[m.buf] EXCEPT ![i] = env]
           heap == [m.heap EXCEPT ![m.buf] = new]
<1>1. m = [heap |-> m.heap, buf |-> m.buf, len |-> m.len]
  BY DEF WellFormed
<1>2. Assigned(m, i, env) = [heap |-> heap, buf |-> m.buf, len |-> m.len]
  BY <1>1 DEF Assigned
<1>p. p.buf \in DOMAIN m.heap /\ p.idx \in DOMAIN m.heap[p.buf]
  BY DEF PointerValid
<1>3. \A j \in DOMAIN m.heap[m.buf] : new[j].name = m.heap[m.buf][j].name
  BY DEF Backing
<1>4. heap[p.buf] = IF p.buf = m.buf THEN new ELSE m.heap[p.buf]
  BY <1>p
<1> HIDE DEF new, heap
<1>5. heap[p.buf][p.idx].name = m.heap[p.buf][p.idx].name
  BY <1>p, <1>3, <1>4
<1> QED
  BY <1>2, <1>5 DEF Deref, InSlice

\* It is the only slot written: environments of another name stay as they are.
LEMMA AssignedKeepsOthers ==
  ASSUME NEW E, NEW m, WellFormed(m, E), NEW i \in 1..m.len, NEW env \in E,
         NEW p \in [buf : Nat, idx : Nat], PointerValid(m, p), Deref(m, p).name # Backing(m)[i].name
  PROVE  Deref(Assigned(m, i, env), p) = Deref(m, p)
<1> DEFINE new == [m.heap[m.buf] EXCEPT ![i] = env]
           heap == [m.heap EXCEPT ![m.buf] = new]
<1>1. /\ m = [heap |-> m.heap, buf |-> m.buf, len |-> m.len]
      /\ p.buf \in DOMAIN m.heap /\ p.idx \in DOMAIN m.heap[p.buf]
  BY DEF WellFormed, PointerValid
<1>2. Assigned(m, i, env) = [heap |-> heap, buf |-> m.buf, len |-> m.len]
  BY <1>1 DEF Assigned
<1>3. heap[p.buf] = IF p.buf = m.buf THEN new ELSE m.heap[p.buf]
  BY <1>1
<1>4. p.buf = m.buf => p.idx # i /\ new[p.idx] = m.heap[p.buf][p.idx]
  BY <1>1 DEF Deref, Backing
<1> HIDE DEF new, heap
<1>5. heap[p.buf][p.idx] = m.heap[p.buf][p.idx]
  BY <1>3, <1>4
<1> QED
  BY <1>2, <1>5 DEF Deref

\* A name that keeps its place is found there again.
LEMMA FoundAgain ==
  ASSUME NEW E, NEW m, NEW n, WellFormed(m, E), WellFormed(n, E), NEW name,
         \A i \in 1..m.len : i \in 1..n.len /\ Backing(n)[i].name = Backing(m)[i].name,
         FindByName(m, name) # 0
  PROVE  FindByName(n, name) = FindByName(m, name)
<1> DEFINE i == FindByName(m, name)
           j == FindByName(n, name)
<1>1. /\ i \in 1..m.len /\ Backing(m)[i].name = name
      /\ \A k \in 1..m.len : Backing(m)[k].name = name => i <= k
  BY FindByNameReturns
<1>2. i \in 1..n.len /\ Backing(n)[i].name = name
  BY <1>1
<1>3. j \in 1..n.len /\ Backing(n)[j].name = name /\ j <= i
  BY <1>2, FindByNameReturns
<1>4. m.len \in Nat /\ n.len \in Nat
  BY DEF WellFormed
<1> HIDE DEF i, j
<1>5. j \in 1..m.len
  BY <1>1, <1>3, <1>4
<1>6. i <= j
  BY <1>1, <1>3, <1>5
<1>7. i = j
  BY <1>1, <1>3, <1>4, <1>6
<1> QED
  BY <1>7 DEF i, j
=============================================================================
