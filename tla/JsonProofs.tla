------------------------------ MODULE JsonProofs ------------------------------
(***************************************************************************)
(* Proofs about JsonDocument, for documents of any length and nesting:     *)
(* every item is deleted once, whatever fails, and no item hides another.  *)
(***************************************************************************)
EXTENDS JsonDocument, FiniteSetTheorems, SequenceTheorems, TLAPS

-----------------------------------------------------------------------------
(* The documents: how deep an addition is *)

\* What changes the depth is what is opened and closed.
Deeper(what) == IF what \in Opening THEN 1 ELSE IF what \in Closing THEN -1 ELSE 0

LEMMA DocumentLemma ==
  ASSUME NEW d \in Document
  PROVE  /\ Len(d) \in Nat /\ DOMAIN d = 1 .. Len(d)
         /\ \A at \in 1 .. Len(d) : d[at].what \in {"leaf"} \cup Opening \cup Closing
<1> DEFINE Entry == [what : {"leaf"} \cup Opening \cup Closing, key : {e.key : e \in Range(d)}]
<1>1. d \in Seq(Entry)
  BY JsonDocumentAssumption
<1>2. Len(d) \in Nat /\ DOMAIN d = 1 .. Len(d) /\ \A at \in 1 .. Len(d) : d[at] \in Entry
  BY <1>1, ElementOfSeq, LenProperties
<1> QED BY <1>2

LEMMA DepthLemma ==
  ASSUME NEW d \in Document
  PROVE  /\ Depth(d, 1) = 0
         /\ \A at \in 1 .. Len(d) + 1 : Depth(d, at) \in Int
         /\ \A at \in 1 .. Len(d) :
              Depth(d, at + 1) = Depth(d, at) + Deeper(d[at].what)
<1> DEFINE Places(S, at) == {k \in 1 .. at - 1 : d[k].what \in S}
<1>1. Len(d) \in Nat
  BY DocumentLemma
<1>2. ASSUME NEW S, NEW at \in 1 .. Len(d) + 1
      PROVE  IsFiniteSet(Places(S, at)) /\ Cardinality(Places(S, at)) \in Nat
  <2>1. IsFiniteSet(1 .. at - 1)
    BY <1>1, FS_Interval
  <2>2. Places(S, at) \in SUBSET (1 .. at - 1)
    OBVIOUS
  <2>3. IsFiniteSet(Places(S, at))
    BY <2>1, <2>2, FS_Subset
  <2> QED BY <2>3, FS_CardinalityType
<1>3. ASSUME NEW S, NEW at \in 1 .. Len(d)
      PROVE  Cardinality(Places(S, at + 1)) =
               Cardinality(Places(S, at)) + IF d[at].what \in S THEN 1 ELSE 0
  <2>0. /\ at \in 1 .. Len(d) + 1 /\ at \notin 1 .. at - 1
        /\ \A k : k \in 1 .. (at + 1) - 1 <=> k \in 1 .. at - 1 \/ k = at
    BY <1>1
  <2>1. at \notin Places(S, at) /\ IsFiniteSet(Places(S, at))
        /\ Cardinality(Places(S, at)) \in Nat
    BY <1>2, <2>0
  <2>2. CASE d[at].what \in S
    <3>1. Places(S, at + 1) = Places(S, at) \cup {at}
      BY <2>0, <2>2
    <3>2. Cardinality(Places(S, at) \cup {at}) = Cardinality(Places(S, at)) + 1
      BY <2>1, FS_AddElement
    <3> QED BY <2>2, <3>1, <3>2
  <2>3. CASE d[at].what \notin S
    <3>1. ASSUME NEW k PROVE k \in Places(S, at + 1) <=> k \in Places(S, at)
      BY <2>0, <2>3
    <3> HIDE DEF Places
    <3>2. Places(S, at + 1) = Places(S, at)
      BY <3>1
    <3> QED BY <2>1, <2>3, <3>2
  <2> QED BY <2>2, <2>3
<1>4. Depth(d, 1) = 0
  <2>1. \A S : Places(S, 1) = {}
    OBVIOUS
  <2>2. Cardinality(Places(Opening, 1)) = 0 /\ Cardinality(Places(Closing, 1)) = 0
    BY <2>1, FS_EmptySet
  <2> QED BY <2>2 DEF Depth
<1>5. \A at : Depth(d, at) =
                Cardinality(Places(Opening, at)) - Cardinality(Places(Closing, at))
  BY DEF Depth
<1> HIDE DEF Places
<1>6. ASSUME NEW at \in 1 .. Len(d)
      PROVE  Depth(d, at + 1) = Depth(d, at) + Deeper(d[at].what)
  <2>1. Opening \cap Closing = {}
    BY DEF Opening, Closing
  <2>2. at \in 1 .. Len(d) + 1
    BY <1>1
  <2>3. Cardinality(Places(Opening, at)) \in Nat /\ Cardinality(Places(Closing, at)) \in Nat
    BY <1>2, <2>2
  <2>4. Cardinality(Places(Opening, at + 1)) =
          Cardinality(Places(Opening, at)) + IF d[at].what \in Opening THEN 1 ELSE 0
    BY <1>3
  <2>5. Cardinality(Places(Closing, at + 1)) =
          Cardinality(Places(Closing, at)) + IF d[at].what \in Closing THEN 1 ELSE 0
    BY <1>3
  <2> QED BY <1>5, <2>1, <2>3, <2>4, <2>5 DEF Deeper
<1>7. \A at \in 1 .. Len(d) + 1 : Depth(d, at) \in Int
  BY <1>2, <1>5
<1> QED BY <1>4, <1>6, <1>7

-----------------------------------------------------------------------------
(* Who deletes an item.  The trees of the guarded items are apart and hold every item    *)
(* that was not deleted.  To know that an addition keeps them apart one must know in     *)
(* which of the trees it is made: that of the innermost guarded object being filled.     *)
(* And to know that an object which is closed is the innermost guarded one, that         *)
(* formatters are nested, so that what is closed is what was opened last.                *)

Building == status \in {"format", "add"}

\* The innermost guard an addition is made under: in "add", the last one guards what is added.
Top == IF status = "add" THEN Len(guards) - 1 ELSE Len(guards)

SelfWithin == \A i \in Item : i \in Within(i)
GuardsApart ==
  \A k, l \in 1 .. Len(guards) : \A i \in Item :
    i \in Within(guards[k]) /\ i \in Within(guards[l]) => k = l
Kept(i) == \E k \in 1 .. Len(guards) : i \in Within(guards[k])
Accounted == \A i \in Item : freed[i] = IF Kept(i) THEN 0 ELSE 1
DoneIsEmpty == status = "done" => guards = <<>>

\* level: under which guard each of the scopes is, its own if it is an object.
Opened(i) == doc[items[i].at].what = "open"
Levels(level) ==
  /\ level \in [1 .. Len(scope) -> 1 .. Top] /\ level[Len(scope)] = Top
  /\ \A j, k \in 1 .. Len(scope) : j <= k => level[j] <= level[k]
  /\ \A k \in 1 .. Len(scope) : scope[k] \in Within(guards[level[k]])
  /\ \A k \in 2 .. Len(scope) :
       IF Opened(scope[k]) THEN level[k] = level[k - 1] + 1 /\ scope[k] = guards[level[k]]
                           ELSE level[k] = level[k - 1]
ScopesGuarded == Building => \E level \in [1 .. Len(scope) -> 1 .. Top] : Levels(level)

\* Items are made in the order of their places.
PlacesInOrder ==
  /\ Len(items) >= 1 /\ items[1].at = 0
  /\ \A i \in Item : items[i].at < place
  /\ \A i, j \in Item : i < j => items[i].at < items[j].at

\* Each scope was opened a level below the one it is in, and has not been left since.
ScopesNested ==
  Building =>
    /\ Len(scope) >= 1 /\ scope[1] = 1 /\ Depth(doc, place) = Len(scope) - 1
    /\ \A k \in 2 .. Len(scope) :
         /\ items[scope[k]].at >= 1
         /\ doc[items[scope[k]].at].what \in Opening
         /\ Depth(doc, items[scope[k]].at) = k - 2
    /\ \A k \in 1 .. Len(scope) : \A x \in items[scope[k]].at + 1 .. place :
         Depth(doc, x) >= k - 1

\* What places an item under its parent: a level below it, with nothing closed between.
Under(at, parent) ==
  /\ items[parent].at < at /\ at >= 1 /\ doc[at].what \in {"leaf"} \cup Opening
  /\ Depth(doc, at) = IF parent = 1 THEN 0 ELSE Depth(doc, items[parent].at) + 1
  /\ \A x \in items[parent].at + 1 .. at : Depth(doc, x) >= Depth(doc, at)
AddedUnder == status = "add" => Under(items[Last(guards)].at, Last(scope))
Parented ==
  \A i \in Item : items[i].parent # 0 =>
    items[i].parent \in Item /\ Under(items[i].at, items[i].parent)

\* The inductive invariant: who deletes each item, and where in the document the objects
\* are that are being filled.
JsonIInv == /\ JsonTypeOK /\ SelfWithin /\ GuardsApart /\ Accounted /\ DoneIsEmpty
            /\ ScopesGuarded /\ PlacesInOrder /\ ScopesNested /\ AddedUnder /\ Parented

\* What the type invariant says of the variables.
Typed ==
  /\ doc \in Document /\ Len(doc) \in Nat /\ place \in Nat /\ place >= 1 /\ place <= Len(doc) + 1
  /\ Len(items) \in Nat /\ Item = 1 .. Len(items)
  /\ \A i \in Item : /\ items[i].at \in Int /\ items[i].at >= 0 /\ items[i].at <= Len(doc)
                     /\ items[i].parent \in Nat /\ Within(i) \subseteq Item
  /\ Len(scope) \in Nat /\ \A k \in 1 .. Len(scope) : scope[k] \in Item
  /\ Len(guards) \in Nat /\ \A k \in 1 .. Len(guards) : guards[k] \in Item

LEMMA FrontLemma ==
  ASSUME NEW S, NEW s \in Seq(S), s # <<>>
  PROVE  /\ Len(s) \in Nat /\ Len(s) >= 1 /\ Last(s) = s[Len(s)] /\ Last(s) \in S
         /\ Front(s) \in Seq(S) /\ Len(Front(s)) = Len(s) - 1
         /\ \A k \in 1 .. Len(s) - 1 : Front(s)[k] = s[k]
<1>1. Len(s) \in Nat /\ Len(s) >= 1
  BY EmptySeq
<1>2. \A k \in 1 .. Len(s) : s[k] \in S
  BY ElementOfSeq
<1>3. /\ Front(s) \in Seq(S)
      /\ Len(Front(s)) = IF 1 <= Len(s) - 1 THEN (Len(s) - 1) - 1 + 1 ELSE 0
      /\ \A k \in 1 .. (Len(s) - 1) - 1 + 1 : Front(s)[k] = s[1 + k - 1]
  <2>1. Len(s) - 1 \in Int /\ 1 \in Int /\ \A k \in 1 .. Len(s) - 1 : s[k] \in S
    BY <1>1, <1>2
  <2> QED BY <2>1, SubSeqProperties DEF Front
<1>4. Len(Front(s)) = Len(s) - 1
  <2>1. PICK n \in Nat : n = Len(s) /\ n >= 1
    BY <1>1
  <2>2. Len(Front(s)) = IF 1 <= n - 1 THEN (n - 1) - 1 + 1 ELSE 0
    BY <1>3, <2>1
  <2>3. (IF 1 <= n - 1 THEN (n - 1) - 1 + 1 ELSE 0) = n - 1
    BY <2>1
  <2> QED BY <2>1, <2>2, <2>3
<1>5. ASSUME NEW k \in 1 .. Len(s) - 1 PROVE Front(s)[k] = s[k]
  <2>1. k \in 1 .. (Len(s) - 1) - 1 + 1 /\ 1 + k - 1 = k
    BY <1>1
  <2> QED BY <1>3, <2>1
<1> QED BY <1>1, <1>2, <1>3, <1>4, <1>5 DEF Last

LEMMA TypedLemma == ASSUME JsonTypeOK PROVE Typed
<1> DEFINE Entry == [at : 0 .. Len(doc), parent : Nat, tree : SUBSET Item]
<1>1. doc \in Document /\ place \in 1 .. Len(doc) + 1 /\ Len(doc) \in Nat
  BY DocumentLemma DEF JsonTypeOK
<1>2. items \in Seq(Entry)
  BY DEF JsonTypeOK
<1> HIDE DEF Entry
<1>3. Len(items) \in Nat /\ Item = 1 .. Len(items) /\ \A i \in Item : items[i] \in Entry
  BY <1>2, ElementOfSeq, LenProperties DEF Item
<1> USE DEF Entry
<1>4. \A i \in Item : /\ items[i].at \in 0 .. Len(doc) /\ items[i].parent \in Nat
                      /\ Within(i) \subseteq Item
  BY <1>3 DEF Within
<1>5. /\ Len(scope) \in Nat /\ \A k \in 1 .. Len(scope) : scope[k] \in Item
      /\ Len(guards) \in Nat /\ \A k \in 1 .. Len(guards) : guards[k] \in Item
  BY ElementOfSeq, LenProperties DEF JsonTypeOK
<1> HIDE DEF Entry
<1> QED BY <1>1, <1>3, <1>4, <1>5 DEF Typed

LEMMA JsonStart == JsonInit => JsonIInv
<1> SUFFICES ASSUME JsonInit PROVE JsonIInv
  OBVIOUS
<1>1. /\ doc \in Document /\ place = 1 /\ status = "format"
      /\ items = <<[at |-> 0, parent |-> 0, tree |-> {1}]>> /\ freed = <<0>>
      /\ scope = <<1>> /\ guards = <<1>> /\ Len(doc) \in Nat
  BY DocumentLemma DEF JsonInit
<1>2. /\ Item = {1} /\ Len(items) = 1 /\ items[1].at = 0 /\ items[1].parent = 0
      /\ Within(1) = {1} /\ freed[1] = 0 /\ DOMAIN freed = {1}
      /\ Len(guards) = 1 /\ guards[1] = 1 /\ Len(scope) = 1 /\ scope[1] = 1
  BY <1>1 DEF Item, Within
<1>3. JsonTypeOK
  <2>1. items[1] \in [at : 0 .. Len(doc), parent : Nat, tree : SUBSET Item]
    BY <1>1, <1>2
  <2>2. items \in Seq([at : 0 .. Len(doc), parent : Nat, tree : SUBSET Item])
    BY <1>1, <2>1
  <2>3. guards \in Seq(Item) /\ scope \in Seq(Item)
    BY <1>1, <1>2
  <2>4. freed \in [Item -> Nat]
    BY <1>1, <1>2
  <2> QED BY <1>1, <2>2, <2>3, <2>4 DEF JsonTypeOK
<1>4. SelfWithin /\ GuardsApart /\ Accounted /\ DoneIsEmpty
  BY <1>1, <1>2 DEF SelfWithin, GuardsApart, Accounted, Kept, DoneIsEmpty
<1>5. ScopesGuarded
  <2>1. [k \in 1 .. 1 |-> 1] \in [1 .. Len(scope) -> 1 .. Top]
    BY <1>1, <1>2 DEF Top
  <2>2. Levels([k \in 1 .. 1 |-> 1])
    BY <1>1, <1>2, <2>1 DEF Levels, Top
  <2> QED BY <2>1, <2>2 DEF ScopesGuarded
<1>6. PlacesInOrder /\ AddedUnder /\ Parented
  BY <1>1, <1>2 DEF PlacesInOrder, AddedUnder, Parented
<1>7. ScopesNested
  <2>1. Depth(doc, 1) = 0
    BY <1>1, DepthLemma
  <2> QED BY <1>1, <1>2, <2>1 DEF ScopesNested
<1> QED BY <1>3, <1>4, <1>5, <1>6, <1>7 DEF JsonIInv

\* A formatter fails, or the document is printed.
LEMMA StopsKeeps ==
  ASSUME JsonIInv, status' = "unwind", UNCHANGED <<doc, items, scope, guards, freed>>,
         place' \in place .. Len(doc) + 1
  PROVE  JsonIInv'
<1>0. Typed
  BY TypedLemma DEF JsonIInv
<1>1. /\ Item' = Item /\ \A i \in Item : Within(i)' = Within(i)
      /\ \A i : Kept(i)' = Kept(i)
      /\ \A at, parent : Under(at, parent)' = Under(at, parent)
  BY DEF Item, Within, Kept, Under
<1>2. JsonTypeOK'
  BY <1>0, <1>1 DEF JsonIInv, JsonTypeOK, Typed
<1>3. SelfWithin' /\ Accounted' /\ Parented'
  BY <1>1 DEF JsonIInv, SelfWithin, Accounted, Parented
<1>4. GuardsApart'
  BY <1>1 DEF JsonIInv, GuardsApart, Within
<1>5. PlacesInOrder'
  BY <1>0, <1>1 DEF JsonIInv, PlacesInOrder, Typed
<1>6. DoneIsEmpty' /\ ScopesGuarded' /\ ScopesNested' /\ AddedUnder'
  BY DEF DoneIsEmpty, ScopesGuarded, ScopesNested, AddedUnder, Building
<1> QED BY <1>2, <1>3, <1>4, <1>5, <1>6 DEF JsonIInv

\* A guard deletes its item: all of its tree was kept, and by no other guard.
LEMMA UnwindKeeps == ASSUME JsonIInv, Unwind PROVE JsonIInv'
<1>0. Typed
  BY TypedLemma DEF JsonIInv
<1>1. /\ Item' = Item /\ \A i \in Item : Within(i)' = Within(i)
      /\ \A at, parent : Under(at, parent)' = Under(at, parent)
      /\ UNCHANGED <<doc, place, items, scope>>
      /\ status' \in {"unwind", "done"} /\ doc \in Document
  BY DEF Unwind, Item, Within, Under, JsonIInv, JsonTypeOK
<1>2. Parented' /\ SelfWithin' /\ PlacesInOrder'
  BY <1>1 DEF JsonIInv, Parented, SelfWithin, PlacesInOrder
<1>3. ScopesGuarded' /\ ScopesNested' /\ AddedUnder'
  BY <1>1 DEF ScopesGuarded, ScopesNested, AddedUnder, Building
<1>4. CASE guards = <<>>
  <2>1. status' = "done" /\ UNCHANGED <<guards, freed>>
    BY <1>4 DEF Unwind
  <2>2. \A i : Kept(i)' = Kept(i)
    BY <1>1, <2>1 DEF Kept, Within
  <2>3. JsonTypeOK' /\ Accounted' /\ DoneIsEmpty'
    BY <1>1, <1>4, <2>1, <2>2 DEF JsonIInv, JsonTypeOK, Accounted, DoneIsEmpty
  <2>4. GuardsApart'
    BY <1>1, <2>1 DEF JsonIInv, GuardsApart, Within
  <2> QED BY <1>2, <1>3, <2>3, <2>4 DEF JsonIInv
<1>5. CASE guards # <<>>
  <2> DEFINE g == Last(guards)  n == Len(guards)
  <2>1. /\ freed' = [i \in Item |-> freed[i] + IF i \in Within(g) THEN 1 ELSE 0]
        /\ guards' = Front(guards) /\ status' = "unwind"
    BY <1>5 DEF Unwind, JsonIInv, JsonTypeOK
  <2>2. /\ guards \in Seq(Item) /\ freed \in [Item -> Nat] /\ n \in Nat /\ n >= 1
        /\ g = guards[n] /\ g \in Item
    BY <1>5, FrontLemma DEF JsonIInv, JsonTypeOK
  <2>3. /\ guards' \in Seq(Item) /\ Len(guards') = n - 1
        /\ \A k \in 1 .. n - 1 : guards'[k] = guards[k]
    <3> HIDE DEF g
    <3> QED BY <1>1, <1>5, <2>1, <2>2, FrontLemma
  <2>4. freed' \in [Item -> Nat]
    BY <2>1, <2>2
  <2>5. JsonTypeOK' /\ DoneIsEmpty'
    BY <1>1, <2>1, <2>3, <2>4 DEF JsonIInv, JsonTypeOK, DoneIsEmpty
  <2> HIDE DEF g
  <2>6. \A k \in 1 .. n - 1 : guards[k] \in Item /\ Within(guards[k])' = Within(guards[k])
    <3> TAKE k \in 1 .. n - 1
    <3>1. k \in 1 .. Len(guards)
      BY <2>2
    <3>2. guards[k] \in Item /\ guards'[k] = guards[k]
      BY <1>0, <2>3, <3>1 DEF Typed
    <3> QED BY <1>1, <3>2 DEF Within
  <2> USE DEF g
  <2>7. GuardsApart'
    <3>1. \A k \in 1 .. n - 1 : k \in 1 .. n
      BY <2>2
    <3> QED BY <1>1, <2>3, <2>6, <3>1 DEF JsonIInv, GuardsApart
  <2>8. ASSUME NEW i \in Item PROVE freed'[i] = IF Kept(i)' THEN 0 ELSE 1
    <3>1. Kept(i)' <=> \E k \in 1 .. n - 1 : i \in Within(guards[k])
      BY <2>3, <2>6 DEF Kept
    <3>2. Kept(i) <=> Kept(i)' \/ i \in Within(g)
      BY <2>2, <3>1 DEF Kept
    <3>3. ~(Kept(i)' /\ i \in Within(g))
      <4> SUFFICES ASSUME NEW k \in 1 .. n - 1, i \in Within(guards[k]), i \in Within(guards[n])
                   PROVE  FALSE
        BY <2>2, <3>1
      <4>1. k \in 1 .. n /\ n \in 1 .. n /\ k # n
        BY <2>2
      <4> QED BY <4>1 DEF JsonIInv, GuardsApart
    <3>4. freed[i] = IF Kept(i) THEN 0 ELSE 1
      BY DEF JsonIInv, Accounted
    <3> QED BY <2>1, <3>2, <3>3, <3>4
  <2>9. Accounted'
    BY <1>1, <2>8 DEF Accounted
  <2> QED BY <1>2, <1>3, <2>5, <2>7, <2>9 DEF JsonIInv
<1> QED BY <1>4, <1>5
\* What the next addition does to the depth.
LEMMA NextDepth ==
  ASSUME Typed, NEW what, Comes(what)
  PROVE  /\ place \in 1 .. Len(doc) /\ place' = place + 1 /\ doc' = doc
         /\ status = "format" /\ doc[place].what = what
         /\ Depth(doc, place + 1) = Depth(doc, place) + Deeper(what)
         /\ \A x \in 1 .. Len(doc) + 1 : Depth(doc, x) \in Int
<1>1. place \in 1 .. Len(doc) /\ doc \in Document
  BY DEF Comes, Typed
<1> QED BY <1>1, DepthLemma DEF Comes

\* An addition in the scope that is as deep as it is placed under that scope.
LEMMA UnderScope ==
  ASSUME JsonIInv, Building, NEW k \in 1 .. Len(scope), NEW at \in 1 .. place,
         items[scope[k]].at < at, Depth(doc, at) = k - 1,
         doc[at].what \in {"leaf"} \cup Opening
  PROVE  Under(at, scope[k])
<1>0. Typed
  BY TypedLemma DEF JsonIInv
<1>1. Depth(doc, at) = IF scope[k] = 1 THEN 0 ELSE Depth(doc, items[scope[k]].at) + 1
  <2>1. CASE k = 1
    BY <2>1 DEF JsonIInv, ScopesNested
  <2>2. CASE k # 1
    <3>1. /\ k \in 2 .. Len(scope) /\ items[scope[k]].at >= 1 /\ items[1].at = 0
          /\ Depth(doc, items[scope[k]].at) = k - 2
      BY <1>0, <2>2 DEF JsonIInv, ScopesNested, PlacesInOrder, Typed
    <3>2. scope[k] # 1 /\ (k - 2) + 1 = k - 1
      BY <1>0, <3>1 DEF Typed
    <3> QED BY <3>1, <3>2
  <2> QED BY <2>1, <2>2
<1>2. ASSUME NEW x \in items[scope[k]].at + 1 .. at PROVE Depth(doc, x) >= Depth(doc, at)
  <2>1. x \in items[scope[k]].at + 1 .. place
    BY <1>0 DEF Typed
  <2>2. Depth(doc, x) >= k - 1
    BY <2>1 DEF JsonIInv, ScopesNested
  <2> QED BY <2>2
<1> QED BY <1>0, <1>1, <1>2 DEF Under, Typed

\* Where the scopes were opened: each after the one it is in.
LEMMA ScopeLemma ==
  ASSUME JsonIInv, Building, NEW k \in 1 .. Len(scope)
  PROVE  /\ scope[k] \in Item
         /\ items[scope[k]].at \in Int /\ items[scope[k]].at >= 0 /\ items[scope[k]].at < place
         /\ k = 1 => items[scope[k]].at = 0
         /\ k > 1 => /\ items[scope[k]].at >= 1
                     /\ doc[items[scope[k]].at].what \in Opening
                     /\ Depth(doc, items[scope[k]].at) = k - 2
<1>0. Typed /\ ScopesNested /\ PlacesInOrder
  BY TypedLemma DEF JsonIInv
<1>1. scope[k] \in Item
  BY <1>0 DEF Typed
<1>2. items[scope[k]].at \in Int /\ items[scope[k]].at >= 0 /\ items[scope[k]].at < place
  BY <1>0, <1>1 DEF Typed, PlacesInOrder
<1>3. k = 1 => items[scope[k]].at = 0
  BY <1>0 DEF ScopesNested, PlacesInOrder
<1>4. k > 1 => k \in 2 .. Len(scope)
  BY <1>0 DEF Typed
<1> QED BY <1>0, <1>1, <1>2, <1>3, <1>4 DEF ScopesNested

LEMMA ScopesInOrder ==
  ASSUME JsonIInv, Building, NEW k \in 2 .. Len(scope), NEW m \in 1 .. Len(scope), m = k - 1
  PROVE  items[scope[m]].at < items[scope[k]].at
<1>0. Typed /\ place \in Int /\ k \in 1 .. Len(scope) /\ k > 1
  BY TypedLemma DEF JsonIInv, Typed
<1>1. PICK p \in Int : p = items[scope[m]].at /\ p >= 0 /\ p < place
                       /\ (m = 1 => p = 0) /\ (m > 1 => Depth(doc, p) = m - 2)
  BY ScopeLemma
<1>2. PICK a \in Int : a = items[scope[k]].at /\ a >= 1 /\ a < place /\ Depth(doc, a) = k - 2
  BY <1>0, ScopeLemma
<1>3. \A x \in a + 1 .. place : Depth(doc, x) >= k - 1
  BY <1>0, <1>2 DEF JsonIInv, ScopesNested
<1>4. CASE m = 1
  BY <1>1, <1>2, <1>4
<1>5. CASE m > 1
  <2>0. p < place /\ place \in Int
    BY <1>0, <1>1
  <2>1. p > a => p \in a + 1 .. place
    BY <2>0
  <2>2. ~(p > a)
    BY <1>1, <1>3, <1>5, <2>1
  <2>3. p # a
    BY <1>1, <1>2, <1>5
  <2> QED BY <1>1, <1>2, <2>2, <2>3
<1> QED BY <1>4, <1>5

\* What is closed is the innermost scope, and of the same kind.
LEMMA ClosesInnermost ==
  ASSUME JsonIInv, NEW what \in Closing, Comes(what)
  PROVE  /\ Len(scope) >= 2
         /\ doc[items[scope[Len(scope)]].at].what = IF what = "close" THEN "open" ELSE "array"
<1>0. Typed /\ ScopesNested /\ PlacesInOrder
  BY TypedLemma DEF JsonIInv
<1>1. /\ place \in 1 .. Len(doc) /\ doc \in Document /\ status = "format"
      /\ doc[place].what = what /\ DOMAIN doc = 1 .. Len(doc)
  BY <1>0, NextDepth, DocumentLemma DEF Typed
<1>2. /\ Depth(doc, place + 1) = Depth(doc, place) - 1 /\ Depth(doc, place) \in Int
      /\ Depth(doc, place) = Len(scope) - 1 /\ Len(scope) >= 1
  <2>1. Deeper(what) = 0 - 1
    BY DEF Deeper, Opening, Closing
  <2>2. Depth(doc, place + 1) = Depth(doc, place) + Deeper(what)
    BY <1>0, NextDepth
  <2>3. Depth(doc, place) \in Int
    BY <1>0, <1>1, NextDepth DEF Typed
  <2>4. Depth(doc, place) = Len(scope) - 1 /\ Len(scope) >= 1
    BY <1>0, <1>1 DEF ScopesNested, Building
  <2> QED BY <2>1, <2>2, <2>3, <2>4
<1>3. PICK from \in 1 .. place - 1 :
        /\ doc[from].what = IF what = "close" THEN "open" ELSE "array"
        /\ Depth(doc, from) = Depth(doc, place + 1)
        /\ \A k \in from + 1 .. place : Depth(doc, k) > Depth(doc, from)
  BY <1>1, JsonDocumentAssumption DEF Nested
<1>4. Depth(doc, from) = Len(scope) - 2
  BY <1>0, <1>2, <1>3 DEF Typed
<1>5. \A k \in 1 .. Len(scope) : \A x \in items[scope[k]].at + 1 .. place :
        Depth(doc, x) >= k - 1
  BY <1>0, <1>1 DEF ScopesNested, Building
<1>6. Len(scope) >= 2
  <2>0. 1 \in 1 .. Len(scope)
    BY <1>0, <1>2 DEF Typed
  <2>1. items[scope[1]].at + 1 = 1 /\ 1 \in 1 .. Len(scope)
    BY <1>1, <2>0, ScopeLemma DEF Building
  <2>2. from \in items[scope[1]].at + 1 .. place
    BY <1>1, <2>1
  <2>3. Depth(doc, from) >= 1 - 1
    BY <1>5, <2>1, <2>2
  <2> QED BY <1>0, <1>4, <2>3 DEF Typed
<1> DEFINE n == Len(scope)  a == items[scope[n]].at
<1>7. n \in 2 .. n /\ n \in 1 .. n /\ n \in Nat
  BY <1>0, <1>6 DEF Typed
<1>8. /\ a \in Int /\ a >= 1 /\ a < place
      /\ Depth(doc, a) = n - 2
  <2>1. n > 1 /\ Building
    BY <1>1, <1>6, <1>7 DEF Building
  <2> QED BY <1>7, <2>1, ScopeLemma
<1>9. from <= a
  <2>1. from > a => from \in a + 1 .. place
    BY <1>1, <1>8
  <2>2. from > a => n - 2 >= n - 1
    BY <1>4, <1>5, <1>7, <2>1
  <2> QED BY <1>7, <1>8, <2>2
<1>10. ~(from < a)
  <2>1. from < a => a \in from + 1 .. place
    BY <1>1, <1>8
  <2>2. from < a => n - 2 > n - 2
    BY <1>3, <1>4, <1>8, <2>1
  <2> QED BY <1>7, <2>2
<1>11. from = a
  BY <1>8, <1>9, <1>10
<1> QED BY <1>3, <1>6, <1>11

\* The end of an object, which is then to be added, or of an array.
LEMMA LeavesKeeps ==
  ASSUME JsonIInv, NEW what \in Closing, Comes(what), scope' = Front(scope),
         status' = (IF what = "close" THEN "add" ELSE "format"),
         UNCHANGED <<items, guards, freed>>
  PROVE  JsonIInv'
<1> DEFINE n == Len(scope)  s == scope[n]
<1>0. Typed /\ ScopesNested /\ PlacesInOrder
  BY TypedLemma DEF JsonIInv
<1>1. /\ place \in 1 .. Len(doc) /\ place' = place + 1 /\ doc' = doc /\ doc \in Document
      /\ status = "format" /\ Building /\ n >= 2 /\ n \in Nat
  BY <1>0, NextDepth, ClosesInnermost DEF Typed, Building
<1>2. /\ \A i : Within(i)' = Within(i)
      /\ \A i : Kept(i)' = Kept(i)
      /\ \A i : Opened(i)' = Opened(i)
      /\ \A at, parent : Under(at, parent)' = Under(at, parent)
      /\ Item' = Item
  BY <1>1 DEF Item, Within, Kept, Under, Opened
<1>3. /\ scope \in Seq(Item) /\ scope # <<>> /\ scope' \in Seq(Item) /\ Len(scope') = n - 1
      /\ \A k \in 1 .. n - 1 : scope'[k] = scope[k]
  <2>1. scope \in Seq(Item)
    BY DEF JsonIInv, JsonTypeOK
  <2>2. scope # <<>>
    BY <1>1
  <2> QED BY <2>1, <2>2, FrontLemma
<1>4. JsonTypeOK'
  BY <1>1, <1>2, <1>3 DEF JsonIInv, JsonTypeOK
<1>5. SelfWithin' /\ Accounted' /\ Parented'
  BY <1>2 DEF JsonIInv, SelfWithin, Accounted, Parented
<1>6. GuardsApart'
  BY <1>2 DEF JsonIInv, GuardsApart
<1>7. PlacesInOrder' /\ DoneIsEmpty'
  <2>1. \A i \in Item : items[i].at < place + 1
    BY <1>0 DEF PlacesInOrder, Typed
  <2>2. PlacesInOrder'
    BY <1>0, <1>1, <1>2, <2>1 DEF PlacesInOrder
  <2> QED BY <2>2 DEF DoneIsEmpty
<1>8. Depth(doc, place + 1) = n - 2
  <2>1. Deeper(what) = 0 - 1
    BY DEF Deeper, Opening, Closing
  <2>2. Depth(doc, place) = n - 1
    BY <1>0, <1>1 DEF ScopesNested
  <2>3. Depth(doc, place + 1) = Depth(doc, place) + Deeper(what)
    BY <1>0, NextDepth
  <2> QED BY <1>1, <2>1, <2>2, <2>3
<1>9. ScopesNested'
  <2>1. Len(scope') >= 1 /\ scope'[1] = 1 /\ Depth(doc, place + 1) = Len(scope') - 1
    BY <1>0, <1>1, <1>3, <1>8 DEF ScopesNested
  <2>2. ASSUME NEW k \in 2 .. n - 1
        PROVE  /\ items[scope'[k]].at >= 1 /\ doc[items[scope'[k]].at].what \in Opening
               /\ Depth(doc, items[scope'[k]].at) = k - 2
    <3>1. k \in 2 .. n /\ scope'[k] = scope[k]
      BY <1>1, <1>3
    <3> QED BY <1>0, <1>1, <3>1 DEF ScopesNested
  <2>3. ASSUME NEW k \in 1 .. n - 1, NEW x \in items[scope'[k]].at + 1 .. place + 1
        PROVE  Depth(doc, x) >= k - 1
    <3>1. k \in 1 .. n /\ scope'[k] = scope[k]
      BY <1>1, <1>3
    <3>2. CASE x = place + 1
      BY <1>1, <1>8, <3>2
    <3>3. CASE x # place + 1
      <4>1. x \in items[scope[k]].at + 1 .. place
        BY <1>0, <1>1, <3>1, <3>3 DEF Typed
      <4> QED BY <1>0, <1>1, <3>1, <4>1 DEF ScopesNested
    <3> QED BY <3>2, <3>3
  <2> QED BY <1>1, <1>3, <2>1, <2>2, <2>3 DEF ScopesNested
<1>10. PICK level \in [1 .. n -> 1 .. Top] : Levels(level)
  BY <1>1 DEF JsonIInv, ScopesGuarded
<1>11. /\ Top = Len(guards) /\ Top' = (IF what = "close" THEN Len(guards) - 1 ELSE Len(guards))
       /\ Len(guards) \in Nat /\ \A k \in 1 .. n : level[k] \in 1 .. Len(guards)
       /\ level[n] = Len(guards)
  <2>1. Top = Len(guards) /\ Top' = IF what = "close" THEN Len(guards) - 1 ELSE Len(guards)
    BY <1>1 DEF Top, Closing
  <2> QED BY <1>0, <1>10, <2>1 DEF Typed, Levels
<1>12. Opened(s) <=> what = "close"
  <2>1. doc[items[s].at].what = IF what = "close" THEN "open" ELSE "array"
    BY ClosesInnermost
  <2> QED BY <2>1 DEF Opened
<1>13. level[n - 1] = Top' /\ (what = "close" => s = guards[Len(guards)])
  <2>1. n \in 2 .. n /\ n - 1 \in 1 .. n
    BY <1>1
  <2>2. IF Opened(s) THEN level[n] = level[n - 1] + 1 /\ s = guards[level[n]]
                     ELSE level[n] = level[n - 1]
    BY <1>10, <2>1 DEF Levels
  <2>3. level[n - 1] \in Nat
    BY <1>11, <2>1
  <2>4. CASE what = "close"
    BY <1>11, <1>12, <2>2, <2>3, <2>4
  <2>5. CASE what # "close"
    BY <1>11, <1>12, <2>2, <2>5
  <2> QED BY <2>4, <2>5
<1>14. ScopesGuarded'
  <2>0. PICK left : left = [k \in 1 .. n - 1 |-> level[k]]
    OBVIOUS
  <2>1. \A k \in 1 .. n - 1 : k \in 1 .. n /\ left[k] = level[k] /\ scope'[k] = scope[k]
    BY <1>1, <1>3, <2>0
  <2>2. \A k \in 1 .. n - 1 : level[k] \in 1 .. Top'
    <3> TAKE k \in 1 .. n - 1
    <3>1. k <= n - 1 /\ n - 1 \in 1 .. n /\ k \in 1 .. n
      BY <1>1
    <3>2. level[k] <= level[n - 1]
      BY <1>10, <3>1 DEF Levels
    <3> QED BY <1>11, <1>13, <3>1, <3>2
  <2>3. left \in [1 .. n - 1 -> 1 .. Top'] /\ left[n - 1] = Top'
    BY <1>1, <1>13, <2>0, <2>1, <2>2
  <2>4. \A j, k \in 1 .. n - 1 : j <= k => left[j] <= left[k]
    BY <1>10, <2>1 DEF Levels
  <2>5. \A k \in 1 .. n - 1 : scope'[k] \in Within(guards[left[k]])
    BY <1>10, <2>1 DEF Levels
  <2>6. ASSUME NEW k \in 2 .. n - 1
        PROVE  IF Opened(scope'[k]) THEN left[k] = left[k - 1] + 1
                                         /\ scope'[k] = guards[left[k]]
                                    ELSE left[k] = left[k - 1]
    <3>1. k \in 2 .. n /\ k \in 1 .. n - 1 /\ k - 1 \in 1 .. n - 1
      BY <1>1
    <3> QED BY <1>10, <2>1, <3>1 DEF Levels
  <2>7. Levels(left)'
    BY <1>2, <1>3, <2>3, <2>4, <2>5, <2>6 DEF Levels
  <2> QED BY <1>3, <2>3, <2>7 DEF ScopesGuarded
<1>15. AddedUnder'
  <2> SUFFICES ASSUME what = "close" PROVE Under(items[s].at, scope[n - 1])
    <3>1. Last(guards) = guards[Len(guards)] /\ Last(scope') = scope'[n - 1]
      BY <1>3 DEF Last
    <3>2. scope'[n - 1] = scope[n - 1]
      BY <1>1, <1>3
    <3> QED BY <1>2, <1>13, <3>1, <3>2 DEF AddedUnder, Closing
  <2>1. n \in 2 .. n /\ n - 1 \in 1 .. n
    BY <1>1
  <2>2. /\ items[s].at >= 1 /\ items[s].at \in Int /\ items[s].at < place
        /\ doc[items[s].at].what \in {"leaf"} \cup Opening /\ Depth(doc, items[s].at) = n - 2
    <3>1. n \in 1 .. n /\ n > 1
      BY <1>1
    <3> QED BY <1>1, <3>1, ScopeLemma
  <2>3. items[scope[n - 1]].at < items[s].at
    BY <1>1, <2>1, ScopesInOrder
  <2>4. items[s].at \in 1 .. place /\ n - 2 = (n - 1) - 1
    BY <1>0, <1>1, <2>2 DEF Typed
  <2> QED BY <1>1, <2>1, <2>2, <2>3, <2>4, UnderScope
<1> QED
  BY <1>4, <1>5, <1>6, <1>7, <1>9, <1>14, <1>15 DEF JsonIInv
LEMMA SeqLemma ==
  ASSUME NEW S, NEW n \in Nat, NEW s \in [1 .. n -> S]
  PROVE  s \in Seq(S) /\ Len(s) = n
<1>1. s \in Seq(S)
  OBVIOUS
<1>2. DOMAIN s = 1 .. Len(s) /\ Len(s) \in Nat
  BY <1>1, LenProperties
<1>3. DOMAIN s = 1 .. n
  OBVIOUS
<1> QED BY <1>1, <1>2, <1>3

\* A step makes no item and places none, or one at the place of the addition; nothing
\* leaves a tree.
Grows == \A i \in Item : items'[i].at = items[i].at /\ Within(i) \subseteq Within(i)'
OneMore == /\ Grows /\ Item' = Item \cup {NewItem} /\ Len(items') = Len(items) + 1
           /\ items'[NewItem].at = place

LEMMA NewItemLemma ==
  ASSUME Typed PROVE NewItem \in Nat /\ NewItem \notin Item /\ NewItem >= 1
                     /\ Item \cup {NewItem} = 1 .. NewItem /\ \A i \in Item : i < NewItem
<1>1. NewItem \in Nat /\ NewItem >= 1 /\ Item = 1 .. NewItem - 1
  BY DEF Typed, NewItem
<1>2. ASSUME NEW i PROVE i \in Item \cup {NewItem} <=> i \in 1 .. NewItem
  BY <1>1
<1>3. Item \cup {NewItem} = 1 .. NewItem
  BY <1>2
<1> QED BY <1>1, <1>3

\* The place of the new item is after those of the others.
LEMMA OrderGrows ==
  ASSUME Typed, PlacesInOrder, OneMore, place' = place + 1
  PROVE  PlacesInOrder'
<1>1. /\ \A i \in Item : items'[i].at = items[i].at /\ items[i].at \in Int /\ i \in Nat
      /\ items'[NewItem].at = place /\ Item' = Item \cup {NewItem} /\ place \in Nat
      /\ \A i \in Item : items[i].at < place
      /\ \A i, j \in Item : i < j => items[i].at < items[j].at
      /\ NewItem \in Nat /\ \A i \in Item : i < NewItem
  BY NewItemLemma DEF Typed, PlacesInOrder, OneMore, Grows
<1>2. Len(items') >= 1 /\ items'[1].at = 0
  BY <1>1 DEF Typed, PlacesInOrder, OneMore
<1>3. \A i \in Item' : items'[i].at < place'
  BY <1>1
<1>4. ASSUME NEW i \in Item', NEW j \in Item', i < j PROVE items'[i].at < items'[j].at
  <2>1. CASE i \in Item /\ j \in Item
    BY <1>1, <1>4, <2>1
  <2>2. CASE i \in Item /\ j = NewItem
    BY <1>1, <2>2
  <2>3. ~(i = NewItem)
    BY <1>1, <1>4
  <2> QED BY <1>1, <2>1, <2>2, <2>3
<1> QED BY <1>2, <1>3, <1>4 DEF PlacesInOrder

\* What was placed under a parent stays so.
LEMMA UnderGrows ==
  ASSUME Typed, Grows, doc' = doc
  PROVE  \A at : \A p \in Item : Under(at, p) => Under(at, p)'
BY DEF Grows, Under

LEMMA ParentedGrows ==
  ASSUME Typed, Grows, doc' = doc, Item \subseteq Item',
         \A i \in Item' : items'[i].parent # 0 =>
           \E p \in Item, at \in Nat :
             items'[i].parent = p /\ items'[i].at = at /\ Under(at, p)
  PROVE  Parented'
<1> SUFFICES ASSUME NEW i \in Item', items'[i].parent # 0
             PROVE  (items[i].parent \in Item /\ Under(items[i].at, items[i].parent))'
  BY DEF Parented
<1>1. PICK p \in Item, at \in Nat :
        items'[i].parent = p /\ items'[i].at = at /\ Under(at, p)
  OBVIOUS
<1>2. Under(at, p)'
  BY <1>1, UnderGrows
<1> QED BY <1>1, <1>2

\* A new object or array is entered: under a guard of its own, or that of its scope.
LEMMA EntersScope ==
  ASSUME JsonIInv, NEW what \in Opening, Comes(what), OneMore, UNCHANGED status,
         NEW new, new = NewItem, scope' = Append(scope, new),
         Len(guards') = Len(guards) + IF what = "open" THEN 1 ELSE 0,
         \A k \in 1 .. Len(guards) : guards'[k] = guards[k],
         what = "open" => guards'[Len(guards) + 1] = new /\ new \in Within(new)',
         what # "open" => new \in Within(guards[Len(guards)])'
  PROVE  ScopesGuarded' /\ ScopesNested' /\ scope' \in Seq(Item')
<1> DEFINE n == Len(scope)
<1>0. Typed /\ ScopesNested /\ PlacesInOrder
  BY TypedLemma DEF JsonIInv
<1>1. /\ place \in 1 .. Len(doc) /\ place' = place + 1 /\ doc' = doc /\ doc \in Document
      /\ doc[place].what = what /\ status = "format" /\ status' = "format"
      /\ Building /\ n >= 1 /\ n \in Nat /\ Len(guards) \in Nat
  BY <1>0, NextDepth DEF Typed, Building, ScopesNested
<1>2. /\ Item' = Item \cup {new} /\ new \in Nat
      /\ \A i \in Item : items'[i].at = items[i].at /\ Within(i) \subseteq Within(i)'
      /\ items'[new].at = place
  BY <1>0, NewItemLemma DEF OneMore, Grows
<1>3. /\ scope' \in Seq(Item') /\ Len(scope') = n + 1 /\ scope'[n + 1] = new
      /\ \A k \in 1 .. n : scope'[k] = scope[k] /\ scope[k] \in Item
  <2>1. scope \in Seq(Item)
    BY DEF JsonIInv, JsonTypeOK
  <2>2. scope \in Seq(Item') /\ new \in Item'
    BY <1>2, <2>1, SeqMonotonic
  <2>3. \A k \in 1 .. n : scope[k] \in Item
    BY <2>1, ElementOfSeq
  <2> QED BY <2>2, <2>3, AppendProperties
<1>4. Opened(new)' <=> what = "open"
  BY <1>1, <1>2 DEF Opened
<1>5. \A i \in Item : Opened(i)' <=> Opened(i)
  BY <1>1, <1>2 DEF Opened
<1>6. PICK level \in [1 .. n -> 1 .. Top] : Levels(level)
  BY <1>1 DEF JsonIInv, ScopesGuarded
<1>7. /\ Top = Len(guards) /\ Top' = Len(guards) + (IF what = "open" THEN 1 ELSE 0)
      /\ \A k \in 1 .. n : level[k] \in 1 .. Len(guards)
      /\ level[n] = Len(guards)
  <2>1. Top = Len(guards) /\ Top' = Len(guards')
    BY <1>1 DEF Top
  <2> QED BY <1>6, <2>1 DEF Levels
<1>8. \A k \in 1 .. n : level[k] \in 1 .. Top' /\ Len(guards) \in 1 .. Top' /\ Top' \in 1 .. Top'
  <2>1. Len(guards) \in 1 .. Len(guards)
    BY <1>1, <1>7
  <2>2. Top' = Len(guards) \/ Top' = Len(guards) + 1
    BY <1>7
  <2> QED BY <1>1, <1>7, <2>1, <2>2
<1>9. ScopesGuarded'
  <2>0. PICK more : more = [k \in 1 .. n + 1 |-> IF k = n + 1 THEN Top' ELSE level[k]]
    OBVIOUS
  <2>1. /\ more[n + 1] = Top' /\ \A k \in 1 .. n : more[k] = level[k]
        /\ \A k \in 1 .. n + 1 : k \in 1 .. n \/ k = n + 1
    BY <1>1, <2>0
  <2>2. more \in [1 .. n + 1 -> 1 .. Top']
    <3>1. n \in 1 .. n
      BY <1>1
    <3>2. \A k \in 1 .. n + 1 : more[k] \in 1 .. Top'
      BY <1>8, <2>1, <3>1
    <3> QED BY <2>0, <3>2
  <2>3. ASSUME NEW j \in 1 .. n + 1, NEW k \in 1 .. n + 1, j <= k PROVE more[j] <= more[k]
    <3>1. CASE j \in 1 .. n /\ k \in 1 .. n
      BY <1>6, <2>1, <2>3, <3>1 DEF Levels
    <3>2. CASE k = n + 1
      <4>1. more[j] \in 1 .. Top'
        BY <2>2
      <4>2. Top' \in Nat
        BY <1>1, <1>7
      <4> QED BY <2>1, <3>2, <4>1, <4>2
    <3>3. j = n + 1 => k = n + 1
      BY <1>1, <2>3
    <3> QED BY <2>1, <3>1, <3>2, <3>3
  <2>4. ASSUME NEW k \in 1 .. n + 1 PROVE scope'[k] \in Within(guards[more[k]])'
    <3>1. CASE k \in 1 .. n
      <4>1. level[k] \in 1 .. Len(guards) /\ guards[level[k]] \in Item
        BY <1>0, <1>7, <3>1 DEF Typed
      <4>2. scope[k] \in Within(guards[level[k]])
        BY <1>6, <3>1 DEF Levels
      <4>3. scope'[k] = scope[k] /\ more[k] = level[k] /\ guards'[level[k]] = guards[level[k]]
        BY <1>3, <2>1, <3>1, <4>1
      <4> QED BY <1>2, <4>1, <4>2, <4>3 DEF Within
    <3>2. CASE k = n + 1 /\ what = "open"
      BY <1>3, <1>7, <2>1, <3>2 DEF Within
    <3>3. CASE k = n + 1 /\ what # "open"
      <4>1. n \in 1 .. n
        BY <1>1
      <4>2. Len(guards) \in 1 .. Len(guards) /\ more[k] = Len(guards)
        BY <1>7, <2>1, <3>3, <4>1
      <4> QED BY <1>3, <3>3, <4>2 DEF Within
    <3> QED BY <2>1, <3>1, <3>2, <3>3
  <2>5. ASSUME NEW k \in 2 .. n + 1
        PROVE  IF Opened(scope[k])'
               THEN more[k] = more[k - 1] + 1 /\ scope'[k] = guards'[more[k]]
               ELSE more[k] = more[k - 1]
    <3>1. k - 1 \in 1 .. n /\ k \in 1 .. n + 1
      BY <1>1
    <3>2. CASE k \in 1 .. n
      <4>1. k \in 2 .. n /\ level[k] \in 1 .. Len(guards) /\ guards'[level[k]] = guards[level[k]]
        BY <1>7, <3>2
      <4>2. IF Opened(scope[k]) THEN level[k] = level[k - 1] + 1 /\ scope[k] = guards[level[k]]
                                ELSE level[k] = level[k - 1]
        BY <1>6, <4>1 DEF Levels
      <4>3. scope'[k] = scope[k] /\ more[k] = level[k] /\ more[k - 1] = level[k - 1]
            /\ scope[k] \in Item
        BY <1>3, <2>1, <3>1, <3>2
      <4> QED BY <1>5, <4>1, <4>2, <4>3
    <3>3. CASE k = n + 1
      <4>1. more[k - 1] = Len(guards) /\ more[k] = Top' /\ scope'[k] = new
        BY <1>1, <1>3, <1>7, <2>1, <3>1, <3>3
      <4> QED BY <1>4, <1>7, <4>1
    <3> QED BY <2>1, <3>1, <3>2, <3>3
  <2>6. Levels(more)'
    BY <1>3, <2>1, <2>2, <2>3, <2>4, <2>5 DEF Levels
  <2> QED BY <1>3, <2>2, <2>6 DEF ScopesGuarded
<1>10. Depth(doc, place) = n - 1 /\ Depth(doc, place + 1) = n
  <2>1. Deeper(what) = 1
    BY DEF Deeper
  <2>2. Depth(doc, place) = n - 1
    BY <1>0, <1>1 DEF ScopesNested
  <2>3. Depth(doc, place + 1) = Depth(doc, place) + Deeper(what)
    BY <1>0, NextDepth
  <2> QED BY <1>1, <2>1, <2>2, <2>3
<1>11. ScopesNested'
  <2>1. Len(scope') >= 1 /\ scope'[1] = 1 /\ Depth(doc, place + 1) = Len(scope') - 1
    <3>1. 1 \in 1 .. n /\ Len(scope') >= 1 /\ n = Len(scope') - 1
      BY <1>1, <1>3
    <3> QED BY <1>0, <1>1, <1>3, <1>10, <3>1 DEF ScopesNested
  <2>2. ASSUME NEW k \in 2 .. n + 1
        PROVE  /\ items'[scope'[k]].at >= 1 /\ doc[items'[scope'[k]].at].what \in Opening
               /\ Depth(doc, items'[scope'[k]].at) = k - 2
    <3>1. CASE k \in 2 .. n
      <4>1. items'[scope'[k]].at = items[scope[k]].at
        BY <1>2, <1>3, <3>1
      <4> QED BY <1>0, <1>1, <3>1, <4>1 DEF ScopesNested
    <3>2. CASE k = n + 1
      <4>1. items'[scope'[k]].at = place /\ k - 2 = n - 1
        BY <1>1, <1>2, <1>3, <3>2
      <4> QED BY <1>1, <1>10, <4>1
    <3> QED BY <1>1, <3>1, <3>2
  <2>3. ASSUME NEW k \in 1 .. n + 1, NEW x \in items'[scope'[k]].at + 1 .. place + 1
        PROVE  Depth(doc, x) >= k - 1
    <3>1. CASE x = place + 1
      BY <1>1, <1>10, <3>1
    <3>2. CASE k \in 1 .. n /\ x # place + 1
      <4>1. items'[scope'[k]].at = items[scope[k]].at /\ items[scope[k]].at \in Int
        BY <1>0, <1>2, <1>3, <3>2 DEF Typed
      <4>2. x \in items[scope[k]].at + 1 .. place
        BY <1>1, <3>2, <4>1
      <4> QED BY <1>0, <1>1, <3>2, <4>2 DEF ScopesNested
    <3>3. CASE k = n + 1 /\ x # place + 1
      BY <1>1, <1>2, <1>3, <3>3
    <3> QED BY <1>1, <3>1, <3>2, <3>3
  <2> QED BY <1>1, <1>3, <2>1, <2>2, <2>3 DEF ScopesNested
<1> QED BY <1>3, <1>9, <1>11
Entry == [at : 0 .. Len(doc), parent : Nat, tree : SUBSET Item]

\* The sequence of the items with one more.
LEMMA AppendedItem ==
  ASSUME JsonIInv, NEW what, Comes(what), NEW all, all = Append(items, New)
  PROVE  /\ DOMAIN all = Item \cup {NewItem} /\ Len(all) = NewItem
         /\ \A i \in Item : all[i] = items[i]
         /\ all[NewItem] = New
<1> DEFINE T == [at : Nat, parent : Nat, tree : SUBSET (Item \cup {NewItem})]
<1>1. Typed /\ items \in Seq(Entry)
  BY TypedLemma DEF JsonIInv, JsonTypeOK, Entry
<1>2. New \in T /\ Entry \subseteq T
  BY <1>1 DEF New, Typed, Entry
<1> HIDE DEF T
<1>3. /\ Len(all) = Len(items) + 1 /\ DOMAIN all = 1 .. Len(all)
      /\ \A i \in 1 .. Len(items) : all[i] = items[i]
      /\ all[Len(items) + 1] = New
  <2>1. items \in Seq(T)
    BY <1>1, <1>2, SeqMonotonic
  <2> QED BY <1>2, <2>1, AppendProperties, LenProperties
<1> QED BY <1>1, <1>3, NewItemLemma DEF Typed, NewItem

\* A new item was not deleted, and nothing becomes of the others.
LEMMA FreedGrows ==
  ASSUME JsonIInv, freed' = Append(freed, 0), Item' = Item \cup {NewItem}
  PROVE  /\ freed' \in [Item' -> Nat] /\ freed'[NewItem] = 0
         /\ \A i \in Item : freed'[i] = freed[i]
<1>1. Typed /\ freed \in [Item -> Nat]
  BY TypedLemma DEF JsonIInv, JsonTypeOK
<1>2. freed \in Seq(Nat) /\ Len(freed) = Len(items)
  <2>1. freed \in [1 .. Len(items) -> Nat] /\ Len(items) \in Nat
    BY <1>1 DEF Typed
  <2> QED BY <2>1, SeqLemma
<1>3. /\ freed' \in Seq(Nat) /\ Len(freed') = NewItem
      /\ \A i \in 1 .. Len(items) : freed'[i] = freed[i]
      /\ freed'[NewItem] = 0
  BY <1>2, AppendProperties DEF NewItem
<1>4. freed' \in [1 .. NewItem -> Nat]
  BY <1>3, LenProperties
<1> QED BY <1>1, <1>3, <1>4, NewItemLemma DEF Typed

\* CjsonUniqueBuilder: the new item is in a tree of its own, under a guard of its own.
LEMMA MakeKeeps ==
  ASSUME JsonIInv, NEW what, Comes(what), Make, NEW new, new = NewItem
  PROVE  /\ OneMore /\ items' \in Seq(Entry') /\ freed' \in [Item' -> Nat]
         /\ guards' \in Seq(Item') /\ Len(guards') = Len(guards) + 1
         /\ guards'[Len(guards) + 1] = new
         /\ \A k \in 1 .. Len(guards) : guards'[k] = guards[k]
         /\ \A i \in Item : Within(i)' = Within(i)
         /\ new \in Within(new)' /\ items'[new].at = place
         /\ SelfWithin' /\ GuardsApart' /\ Accounted' /\ Parented' /\ PlacesInOrder'
<1>0. Typed /\ doc' = doc /\ place' = place + 1 /\ place \in 1 .. Len(doc)
  BY TypedLemma, NextDepth DEF JsonIInv
<1>1. /\ items' = Append(items, New) /\ freed' = Append(freed, 0)
      /\ guards' = Append(guards, new)
  BY DEF Make
<1>2. /\ Item' = Item \cup {new} /\ Len(items') = new
      /\ \A i \in Item : items'[i] = items[i]
      /\ items'[new] = New
  BY <1>1, AppendedItem DEF Item
<1>3. new \in Nat /\ new \notin Item /\ Item \cup {new} = 1 .. new /\ new = Len(items) + 1
  BY <1>0, NewItemLemma DEF NewItem
<1>4. /\ \A i \in Item : Within(i)' = Within(i) /\ Within(i) \subseteq Item
                         /\ items'[i].at = items[i].at /\ items'[i].parent = items[i].parent
      /\ Within(new)' = {new} /\ items'[new].at = place /\ items'[new].parent = 0
  BY <1>0, <1>2, <1>3 DEF Within, New, Typed
<1>5. OneMore
  BY <1>2, <1>3, <1>4 DEF OneMore, Grows
<1>6. items' \in Seq(Entry')
  <2>1. Entry \subseteq Entry' /\ New \in Entry'
    BY <1>0, <1>2, <1>3 DEF Entry, New
  <2>2. items \in Seq(Entry)
    BY DEF JsonIInv, JsonTypeOK, Entry
  <2> QED BY <1>1, <2>1, <2>2, SeqMonotonic, AppendProperties
<1>7. freed' \in [Item' -> Nat] /\ freed'[new] = 0 /\ \A i \in Item : freed'[i] = freed[i]
  BY <1>1, <1>2, FreedGrows
<1>8. /\ guards' \in Seq(Item') /\ Len(guards') = Len(guards) + 1
      /\ guards'[Len(guards) + 1] = new
      /\ \A k \in 1 .. Len(guards) : guards'[k] = guards[k] /\ guards[k] \in Item
  <2>1. guards \in Seq(Item')
    BY <1>2, SeqMonotonic DEF JsonIInv, JsonTypeOK
  <2>2. new \in Item'
    BY <1>2
  <2> QED BY <1>0, <1>1, <2>1, <2>2, AppendProperties DEF Typed
<1> DEFINE n == Len(guards)
<1>9. n \in Nat /\ \A k \in 1 .. n + 1 : k \in 1 .. n \/ k = n + 1
  BY <1>0 DEF Typed
<1>10. /\ \A k \in 1 .. n : Within(guards[k])' = Within(guards[k]) /\ Within(guards[k]) \subseteq Item
       /\ items'[guards'[n + 1]].tree = {new}
  BY <1>4, <1>8 DEF Within
<1>11. SelfWithin'
  BY <1>2, <1>4 DEF JsonIInv, SelfWithin
<1>12. GuardsApart'
  <2> SUFFICES ASSUME NEW k \in 1 .. n + 1, NEW l \in 1 .. n + 1, NEW i,
                      i \in Within(guards[k])', i \in Within(guards[l])'
               PROVE  k = l
    BY <1>8 DEF GuardsApart
  <2>1. CASE k \in 1 .. n /\ l \in 1 .. n
    <3>1. i \in Within(guards[k]) /\ i \in Within(guards[l]) /\ i \in Item
      BY <1>10, <2>1
    <3> QED BY <2>1, <3>1 DEF JsonIInv, GuardsApart
  <2>2. k = n + 1 => i = new
    BY <1>10 DEF Within
  <2>3. l = n + 1 => i = new
    BY <1>10 DEF Within
  <2>4. k \in 1 .. n => i \in Item
    BY <1>10
  <2>5. l \in 1 .. n => i \in Item
    BY <1>10
  <2> QED BY <1>3, <1>9, <2>1, <2>2, <2>3, <2>4, <2>5
<1>13. \A i \in Item : Kept(i)' <=> Kept(i)
  <2> TAKE i \in Item
  <2>1. Kept(i)' <=> \E k \in 1 .. n + 1 : i \in items'[guards'[k]].tree
    BY <1>8 DEF Kept, Within
  <2>2. \A k \in 1 .. n : items'[guards'[k]].tree = Within(guards[k])
    BY <1>10 DEF Within
  <2>3. i \notin items'[guards'[n + 1]].tree /\ \A k \in 1 .. n : k \in 1 .. n + 1
    BY <1>3, <1>9, <1>10
  <2> QED BY <1>9, <2>1, <2>2, <2>3 DEF Kept
<1>14. Kept(new)'
  <2>1. n + 1 \in 1 .. Len(guards') /\ new \in items'[guards'[n + 1]].tree
    BY <1>8, <1>9, <1>10
  <2> QED BY <2>1 DEF Kept, Within
<1>15. Accounted'
  BY <1>2, <1>7, <1>13, <1>14 DEF JsonIInv, Accounted
<1>16. Parented'
  <2>1. ASSUME NEW i \in Item', items'[i].parent # 0
        PROVE  \E p \in Item, at \in Nat :
                 items'[i].parent = p /\ items'[i].at = at /\ Under(at, p)
    <3>1. i \in Item /\ items'[i].parent = items[i].parent /\ items'[i].at = items[i].at
      BY <1>2, <1>4, <2>1
    <3>2. items[i].at \in Nat
      BY <1>0, <3>1 DEF Typed
    <3> QED BY <2>1, <3>1, <3>2 DEF JsonIInv, Parented
  <2> QED BY <1>0, <1>2, <1>5, <2>1, ParentedGrows DEF OneMore
<1>17. PlacesInOrder'
  BY <1>0, <1>5, OrderGrows DEF JsonIInv
<1> QED
  BY <1>4, <1>5, <1>6, <1>7, <1>8, <1>11, <1>12, <1>15, <1>16, <1>17
\* Steps that leave the scopes alone leave them under the same guards, and as deep.
LEMMA SameScopes ==
  ASSUME JsonIInv, Building, Building', Grows, UNCHANGED <<doc, scope>>, Top' = Top,
         \A k \in 1 .. Top : guards'[k] = guards[k],
         place' \in {place, place + 1}, place' <= Len(doc) + 1,
         Depth(doc, place') = Depth(doc, place)
  PROVE  ScopesGuarded' /\ ScopesNested'
<1> DEFINE n == Len(scope)
<1>0. /\ Typed /\ ScopesNested /\ n \in Nat /\ Top \in Int /\ Top <= Len(guards)
      /\ \A k \in 1 .. n : scope[k] \in Item
  <2>1. Typed /\ ScopesNested
    BY TypedLemma DEF JsonIInv
  <2> QED BY <2>1 DEF Typed, Top
<1>1. PICK level \in [1 .. n -> 1 .. Top] : Levels(level)
  BY DEF JsonIInv, ScopesGuarded
<1>2. ASSUME NEW k \in 1 .. n
      PROVE  /\ scope[k] \in items'[guards'[level[k]]].tree /\ Opened(scope[k])' = Opened(scope[k])
             /\ guards'[level[k]] = guards[level[k]]
  <2>1. level[k] \in 1 .. Top /\ level[k] \in 1 .. Len(guards)
    BY <1>0 DEF Typed
  <2>2. guards'[level[k]] = guards[level[k]] /\ guards[level[k]] \in Item
    BY <1>0, <2>1 DEF Typed
  <2>3. scope[k] \in items[guards[level[k]]].tree
    BY <1>1 DEF Levels, Within
  <2>4. scope[k] \in items'[guards'[level[k]]].tree
    BY <2>2, <2>3 DEF Grows, Within
  <2> QED BY <1>0, <2>2, <2>4 DEF Opened, Grows
<1>3. Levels(level)'
  <2>1. \A k \in 1 .. n : scope'[k] \in Within(guards[level[k]])'
    BY <1>2 DEF Within
  <2>2. ASSUME NEW k \in 2 .. n
        PROVE  IF Opened(scope[k])' THEN level[k] = level[k - 1] + 1
                                         /\ scope'[k] = guards'[level[k]]
                                    ELSE level[k] = level[k - 1]
    <3>1. k \in 1 .. n
      BY <1>0
    <3> QED BY <1>1, <1>2, <3>1 DEF Levels
  <2> QED BY <1>1, <2>1, <2>2 DEF Levels
<1>4. ScopesGuarded'
  BY <1>1, <1>3 DEF ScopesGuarded
<1>5. ASSUME NEW k \in 1 .. n, NEW x \in items'[scope[k]].at + 1 .. place'
      PROVE  Depth(doc, x) >= k - 1
  <2>1. Depth(doc, place) = n - 1
    BY <1>0 DEF ScopesNested
  <2>2. CASE x = place'
    BY <1>0, <2>1, <2>2
  <2>3. CASE x # place'
    <3>1. items'[scope[k]].at = items[scope[k]].at /\ items[scope[k]].at \in Int
      BY <1>0 DEF Grows, Typed
    <3>2. x \in items[scope[k]].at + 1 .. place
      BY <1>0, <2>3, <3>1 DEF Typed
    <3> QED BY <1>0, <3>2 DEF ScopesNested
  <2> QED BY <2>2, <2>3
<1>6. \A k \in 2 .. n : items'[scope[k]].at = items[scope[k]].at
  BY <1>0 DEF Grows
<1>7. ScopesNested'
  BY <1>0, <1>5, <1>6 DEF ScopesNested
<1> QED BY <1>4, <1>7

\* The place of the next addition is one under the innermost scope.
LEMMA NextUnder ==
  ASSUME JsonIInv, NEW what \in {"leaf"} \cup Opening, Comes(what)
  PROVE  Under(place, scope[Len(scope)]) /\ scope[Len(scope)] \in Item
         /\ Last(scope) = scope[Len(scope)]
<1>0. Typed /\ ScopesNested /\ PlacesInOrder
  BY TypedLemma DEF JsonIInv
<1>1. /\ place \in 1 .. Len(doc) /\ doc[place].what = what /\ Building
      /\ place \in 1 .. place
  BY <1>0, NextDepth DEF Typed, Building
<1>2. /\ Len(scope) \in 1 .. Len(scope) /\ scope[Len(scope)] \in Item
      /\ Depth(doc, place) = Len(scope) - 1
  BY <1>0, <1>1 DEF ScopesNested, Typed
<1>3. items[scope[Len(scope)]].at < place
  BY <1>0, <1>2 DEF PlacesInOrder
<1> QED BY <1>1, <1>2, <1>3, UnderScope DEF Last

LEMMA LeafKeeps ==
  ASSUME JsonIInv, Comes("leaf"), Make, status' = "add", UNCHANGED scope
  PROVE  JsonIInv'
<1>0. Typed /\ doc \in Document
  BY TypedLemma DEF JsonIInv, Typed
<1>1. /\ place \in 1 .. Len(doc) /\ place' = place + 1 /\ doc' = doc /\ status = "format"
      /\ Depth(doc, place + 1) = Depth(doc, place) + Deeper("leaf")
      /\ Depth(doc, place) \in Int
  BY <1>0, NextDepth DEF Typed
<1>2. PICK new : new = NewItem
  OBVIOUS
<1>3. /\ OneMore /\ items' \in Seq(Entry') /\ freed' \in [Item' -> Nat]
      /\ guards' \in Seq(Item') /\ Len(guards') = Len(guards) + 1
      /\ guards'[Len(guards) + 1] = new /\ items'[new].at = place
      /\ \A k \in 1 .. Len(guards) : guards'[k] = guards[k]
      /\ SelfWithin' /\ GuardsApart' /\ Accounted' /\ Parented' /\ PlacesInOrder'
  BY <1>2, MakeKeeps
<1>4. JsonTypeOK'
  <2>1. scope' \in Seq(Item')
    BY <1>3, SeqMonotonic DEF JsonIInv, JsonTypeOK, OneMore
  <2>2. place' \in 1 .. Len(doc') + 1
    BY <1>0, <1>1 DEF Typed
  <2> QED BY <1>0, <1>1, <1>3, <2>1, <2>2 DEF JsonTypeOK, Entry
<1>5. ScopesGuarded' /\ ScopesNested'
  <2>1. Deeper("leaf") = 0
    BY DEF Deeper, Opening, Closing
  <2>2. Depth(doc, place') = Depth(doc, place) /\ place' <= Len(doc) + 1
    BY <1>0, <1>1, <2>1 DEF Typed
  <2>3. Top' = Top /\ Top = Len(guards) /\ Building /\ Building'
    BY <1>0, <1>1, <1>3 DEF Top, Building, Typed
  <2> QED BY <1>1, <1>3, <2>2, <2>3, SameScopes DEF OneMore
<1>6. AddedUnder'
  <2> DEFINE p == scope[Len(scope)]
  <2>1. Under(place, p) /\ p \in Item /\ Last(scope) = p
    BY NextUnder
  <2>2. PICK q \in Item, at \in Nat : q = p /\ at = place
    BY <1>0, <2>1 DEF Typed
  <2>3. Under(at, q)'
    BY <1>0, <1>1, <1>3, <2>1, <2>2, UnderGrows DEF OneMore
  <2>4. Last(guards)' = new /\ items'[new].at = at /\ Last(scope)' = q
    BY <1>3, <2>1, <2>2 DEF Last
  <2> QED BY <2>3, <2>4 DEF AddedUnder
<1> QED BY <1>3, <1>4, <1>5, <1>6 DEF JsonIInv, DoneIsEmpty

LEMMA OpenKeeps ==
  ASSUME JsonIInv, Comes("open"), Make, scope' = Append(scope, NewItem), UNCHANGED status
  PROVE  JsonIInv'
<1>0. Typed /\ doc \in Document
  BY TypedLemma DEF JsonIInv, Typed
<1>1. /\ place \in 1 .. Len(doc) /\ place' = place + 1 /\ doc' = doc
      /\ status = "format" /\ status' = "format"
  BY <1>0, NextDepth
<1>2. PICK new : new = NewItem
  OBVIOUS
<1>3. /\ OneMore /\ items' \in Seq(Entry') /\ freed' \in [Item' -> Nat]
      /\ guards' \in Seq(Item') /\ Len(guards') = Len(guards) + 1
      /\ guards'[Len(guards) + 1] = new /\ new \in Within(new)'
      /\ \A k \in 1 .. Len(guards) : guards'[k] = guards[k]
      /\ SelfWithin' /\ GuardsApart' /\ Accounted' /\ Parented' /\ PlacesInOrder'
  BY <1>2, MakeKeeps
<1>4. ScopesGuarded' /\ ScopesNested' /\ scope' \in Seq(Item')
  <2>1. "open" \in Opening
    BY DEF Opening
  <2> QED BY <1>2, <1>3, <2>1, EntersScope
<1>5. JsonTypeOK'
  <2>1. place' \in 1 .. Len(doc') + 1
    BY <1>0, <1>1 DEF Typed
  <2> QED BY <1>0, <1>1, <1>3, <1>4, <2>1 DEF JsonTypeOK, Entry
<1> QED BY <1>1, <1>3, <1>4, <1>5 DEF JsonIInv, DoneIsEmpty, AddedUnder
\* The guard of the innermost object being filled keeps the scope an addition is made in.
LEMMA TopKeepsScope ==
  ASSUME JsonIInv, Building
  PROVE  /\ Top \in 1 .. Len(guards) /\ Last(scope) \in Within(guards[Top])
         /\ Last(scope) \in Item /\ Last(scope) = scope[Len(scope)]
<1>0. Typed /\ Len(scope) \in 1 .. Len(scope)
  BY TypedLemma DEF JsonIInv, ScopesNested, Typed
<1>1. PICK level \in [1 .. Len(scope) -> 1 .. Top] : Levels(level)
  BY DEF JsonIInv, ScopesGuarded
<1>2. level[Len(scope)] = Top /\ level[Len(scope)] \in 1 .. Top
      /\ scope[Len(scope)] \in Within(guards[level[Len(scope)]])
  BY <1>0, <1>1 DEF Levels
<1>3. Top \in 1 .. Len(guards)
  BY <1>0, <1>2 DEF Top, Typed
<1> QED BY <1>0, <1>2, <1>3 DEF Last, Typed

LEMMA LinkedLemma ==
  ASSUME NEW all, NEW child, NEW parent, NEW linked, linked = Linked(all, child, parent)
  PROVE  /\ DOMAIN linked = DOMAIN all /\ linked = [i \in DOMAIN all |-> linked[i]]
         /\ \A i \in DOMAIN all :
              /\ linked[i].at = all[i].at
              /\ linked[i].parent = IF i = child THEN parent ELSE all[i].parent
              /\ linked[i].tree =
                   all[i].tree \cup IF parent \in all[i].tree THEN all[child].tree ELSE {}
              /\ linked[i] = [at |-> linked[i].at, parent |-> linked[i].parent,
                              tree |-> linked[i].tree]
BY DEF Linked

\* An array is new, and in the tree of the object or array it was added to.
LEMMA ArrayKeeps ==
  ASSUME JsonIInv, Comes("array"), items' = Linked(Append(items, New), NewItem, Last(scope)),
         freed' = Append(freed, 0), scope' = Append(scope, NewItem), UNCHANGED <<status, guards>>
  PROVE  JsonIInv'
<1> DEFINE p == Last(scope)  n == Len(guards)
<1>0. Typed /\ doc \in Document
  BY TypedLemma DEF JsonIInv, Typed
<1>1. /\ place \in 1 .. Len(doc) /\ place' = place + 1 /\ doc' = doc
      /\ status = "format" /\ status' = "format" /\ Building
  BY <1>0, NextDepth DEF Building
<1>2. PICK new : new = NewItem
  OBVIOUS
<1>3. /\ new \in Nat /\ new \notin Item /\ Item \cup {new} = 1 .. new /\ new = Len(items) + 1
  BY <1>0, <1>2, NewItemLemma DEF NewItem
<1>4. p \in Item /\ n \in 1 .. n /\ p \in Within(guards[n]) /\ n \in Nat
  BY <1>0, <1>1, TopKeepsScope DEF Top, Typed
<1> HIDE DEF p
<1>5. /\ items' = [i \in Item \cup {new} |-> items'[i]] /\ Item' = Item \cup {new}
      /\ \A i \in Item : /\ items'[i].at = items[i].at
                         /\ items'[i].parent = items[i].parent
                         /\ items'[i].tree = items[i].tree \cup IF p \in items[i].tree
                                                                THEN {new} ELSE {}
      /\ items'[new].at = place /\ items'[new].parent = p /\ items'[new].tree = {new}
      /\ \A i \in Item \cup {new} :
           items'[i] = [at |-> items'[i].at, parent |-> items'[i].parent, tree |-> items'[i].tree]
  <2>1. PICK all : all = Append(items, New)
    OBVIOUS
  <2>2. /\ DOMAIN all = Item \cup {new} /\ \A i \in Item : all[i] = items[i]
        /\ all[new] = New
    BY <1>2, <2>1, AppendedItem
  <2>3. items' = Linked(all, new, p)
    BY <1>2, <2>1 DEF p
  <2>4. all[new].at = place /\ all[new].parent = 0 /\ all[new].tree = {new}
    BY <1>2, <2>2 DEF New
  <2>5. /\ DOMAIN items' = Item \cup {new} /\ items' = [i \in Item \cup {new} |-> items'[i]]
        /\ \A i \in Item \cup {new} :
             /\ items'[i].at = all[i].at
             /\ items'[i].parent = IF i = new THEN p ELSE all[i].parent
             /\ items'[i].tree = all[i].tree \cup IF p \in all[i].tree THEN all[new].tree ELSE {}
             /\ items'[i] = [at |-> items'[i].at, parent |-> items'[i].parent,
                             tree |-> items'[i].tree]
    BY <2>2, <2>3, LinkedLemma
  <2>6. items'[new].tree = {new}
    BY <1>3, <1>4, <2>4, <2>5
  <2>7. ASSUME NEW i \in Item
        PROVE  /\ items'[i].at = items[i].at
               /\ items'[i].parent = items[i].parent
               /\ items'[i].tree = items[i].tree \cup IF p \in items[i].tree THEN {new} ELSE {}
    <3>1. i # new /\ all[i] = items[i] /\ i \in Item \cup {new}
      BY <1>3, <2>2
    <3>2. /\ items'[i].at = all[i].at
          /\ items'[i].parent = IF i = new THEN p ELSE all[i].parent
          /\ items'[i].tree = all[i].tree \cup IF p \in all[i].tree THEN all[new].tree ELSE {}
      BY <2>5, <3>1
    <3> QED BY <2>4, <3>1, <3>2
  <2> QED BY <2>4, <2>5, <2>6, <2>7 DEF Item
<1>6. items' \in Seq(Entry') /\ Len(items') = new
  <2>1. \A i \in Item : items[i].at \in 0 .. Len(doc) /\ items[i].parent \in Nat
                        /\ items[i].tree \subseteq Item
    BY <1>0 DEF Typed, Within
  <2>2. place \in 0 .. Len(doc) /\ p \in Nat
    BY <1>0, <1>1, <1>4 DEF Typed
  <2>3. \A i \in Item \cup {new} : /\ items'[i].at \in 0 .. Len(doc) /\ items'[i].parent \in Nat
                                   /\ items'[i].tree \subseteq Item \cup {new}
    BY <1>5, <2>1, <2>2
  <2>4. ASSUME NEW i \in Item \cup {new} PROVE items'[i] \in Entry'
    <3>1. PICK at \in 0 .. Len(doc), parent \in Nat, tree \in SUBSET (Item \cup {new}) :
            items'[i] = [at |-> at, parent |-> parent, tree |-> tree]
      <4>1. items'[i] = [at |-> items'[i].at, parent |-> items'[i].parent,
                         tree |-> items'[i].tree]
        BY <1>5
      <4>2. /\ items'[i].at \in 0 .. Len(doc) /\ items'[i].parent \in Nat
            /\ items'[i].tree \in SUBSET (Item \cup {new})
        BY <2>3
      <4> QED BY <4>1, <4>2
    <3>2. Entry' = [at : 0 .. Len(doc), parent : Nat, tree : SUBSET (Item \cup {new})]
      BY <1>1, <1>5 DEF Entry
    <3> QED BY <3>1, <3>2
  <2>5. items' \in [1 .. new -> Entry']
    BY <1>3, <1>5, <2>4
  <2> QED BY <1>3, <2>5, SeqLemma
<1>7. OneMore
  BY <1>2, <1>3, <1>5, <1>6 DEF OneMore, Grows, Within
<1>8. freed' \in [Item' -> Nat] /\ freed'[new] = 0 /\ \A i \in Item : freed'[i] = freed[i]
  BY <1>2, <1>5, FreedGrows
<1>9. \A k \in 1 .. n : guards[k] \in Item /\ Within(guards[k]) \subseteq Item
                        /\ (p \in Within(guards[k]) <=> k = n)
  BY <1>0, <1>4 DEF Typed, JsonIInv, GuardsApart
<1>10. \A k \in 1 .. n : items'[guards'[k]].tree = Within(guards[k]) \cup IF k = n THEN {new} ELSE {}
  BY <1>5, <1>9 DEF Within
<1>11. SelfWithin' /\ PlacesInOrder'
  <2>1. SelfWithin'
    BY <1>5 DEF JsonIInv, SelfWithin, Within
  <2> QED BY <1>0, <1>1, <1>7, <2>1, OrderGrows DEF JsonIInv
<1>12. GuardsApart'
  <2> SUFFICES ASSUME NEW k \in 1 .. n, NEW l \in 1 .. n, NEW i,
                      i \in items'[guards'[k]].tree, i \in items'[guards'[l]].tree
               PROVE  k = l
    BY DEF GuardsApart, Within
  <2>1. CASE i = new
    BY <1>3, <1>9, <1>10, <2>1
  <2>2. CASE i # new
    <3>1. \A m \in 1 .. n : i \in items'[guards'[m]].tree => i \in Within(guards[m])
      <4> TAKE m \in 1 .. n
      <4>1. items'[guards'[m]].tree = Within(guards[m]) \cup IF m = n THEN {new} ELSE {}
        BY <1>10
      <4> QED BY <2>2, <4>1
    <3>2. i \in Within(guards[k]) /\ i \in Within(guards[l]) /\ i \in Item
      BY <1>9, <3>1
    <3> QED BY <3>2 DEF JsonIInv, GuardsApart
  <2> QED BY <2>1, <2>2
<1>13. Accounted'
  <2>1. ASSUME NEW i \in Item PROVE Kept(i)' <=> Kept(i)
    <3>1. ASSUME NEW k \in 1 .. n
          PROVE  i \in items'[guards'[k]].tree <=> i \in Within(guards[k])
      <4>1. items'[guards'[k]].tree = Within(guards[k]) \cup IF k = n THEN {new} ELSE {}
        BY <1>10
      <4>2. i # new
        BY <1>3
      <4> QED BY <4>1, <4>2
    <3> QED BY <3>1 DEF Kept, Within
  <2>2. Kept(new)'
    <3>1. n \in 1 .. Len(guards') /\ new \in items'[guards'[n]].tree
      BY <1>4, <1>10
    <3> QED BY <3>1 DEF Kept, Within
  <2> QED BY <1>5, <1>8, <2>1, <2>2 DEF JsonIInv, Accounted
<1>14. Parented'
  <2>1. Under(place, p)
    <3>1. "array" \in Opening
      BY DEF Opening
    <3> QED BY <3>1, NextUnder DEF p
  <2>2. ASSUME NEW i \in Item', items'[i].parent # 0
        PROVE  \E q \in Item, at \in Nat :
                 items'[i].parent = q /\ items'[i].at = at /\ Under(at, q)
    <3>1. CASE i \in Item
      <4>1. items'[i].parent = items[i].parent /\ items'[i].at = items[i].at
        BY <1>5, <3>1
      <4>2. items[i].at \in Nat
        BY <1>0, <3>1 DEF Typed
      <4> QED BY <2>2, <3>1, <4>1, <4>2 DEF JsonIInv, Parented
    <3>2. CASE i = new
      BY <1>0, <1>4, <1>5, <2>1, <3>2 DEF Typed
    <3> QED BY <1>5, <3>1, <3>2
  <2> QED BY <1>0, <1>1, <1>5, <1>7, <2>2, ParentedGrows DEF OneMore
<1>15. ScopesGuarded' /\ ScopesNested' /\ scope' \in Seq(Item')
  <2>1. "array" \in Opening
    BY DEF Opening
  <2>2. new \in Within(guards[Len(guards)])'
    BY <1>4, <1>10 DEF Within
  <2>3. Len(guards') = Len(guards) + 0
    BY <1>4
  <2> QED BY <1>2, <1>7, <2>1, <2>2, <2>3, EntersScope
<1>16. JsonTypeOK'
  <2>1. place' \in 1 .. Len(doc') + 1
    BY <1>0, <1>1 DEF Typed
  <2>2. guards' \in Seq(Item')
    BY <1>5, SeqMonotonic DEF JsonIInv, JsonTypeOK
  <2> QED BY <1>0, <1>1, <1>6, <1>8, <1>15, <2>1, <2>2 DEF JsonTypeOK, Entry
<1> QED
  BY <1>1, <1>11, <1>12, <1>13, <1>14, <1>15, <1>16 DEF JsonIInv, DoneIsEmpty, AddedUnder

\* The innermost guarded item is added to its parent, which the guard before it keeps.
LEMMA AttachKeeps ==
  ASSUME JsonIInv, status = "add", items' = Linked(items, Last(guards), Last(scope)),
         guards' = Front(guards), status' = "format", UNCHANGED <<doc, place, scope, freed>>
  PROVE  JsonIInv'
<1> DEFINE p == Last(scope)  n == Len(guards)  child == guards[n]
<1>0. Typed /\ doc \in Document /\ Building /\ Building'
  BY TypedLemma DEF JsonIInv, Typed, Building
<1>1. /\ Top = n - 1 /\ n \in Nat /\ n - 1 \in 1 .. n /\ n \in 1 .. n
      /\ p \in Item /\ p \in Within(guards[n - 1]) /\ child \in Item
  BY <1>0, TopKeepsScope DEF Top, Typed
<1>2. /\ guards' \in Seq(Item) /\ Len(guards') = n - 1 /\ Last(guards) = child
      /\ \A k \in 1 .. n - 1 : guards'[k] = guards[k]
  <2>1. guards \in Seq(Item) /\ guards # <<>>
    BY <1>1 DEF JsonIInv, JsonTypeOK
  <2> QED BY <2>1, FrontLemma
<1> HIDE DEF p, child
<1>3. /\ items' = [i \in Item |-> items'[i]] /\ Item' = Item
      /\ \A i \in Item :
           /\ items'[i].at = items[i].at
           /\ items'[i].parent = IF i = child THEN p ELSE items[i].parent
           /\ items'[i].tree = items[i].tree \cup IF p \in items[i].tree
                                                  THEN Within(child) ELSE {}
           /\ items'[i] = [at |-> items'[i].at, parent |-> items'[i].parent,
                           tree |-> items'[i].tree]
  <2>1. items' = Linked(items, child, p)
    BY <1>2 DEF p
  <2>2. /\ DOMAIN items' = DOMAIN items /\ items' = [i \in DOMAIN items |-> items'[i]]
        /\ \A i \in DOMAIN items :
           /\ items'[i].at = items[i].at
           /\ items'[i].parent = IF i = child THEN p ELSE items[i].parent
           /\ items'[i].tree = items[i].tree \cup IF p \in items[i].tree
                                                  THEN items[child].tree ELSE {}
           /\ items'[i] = [at |-> items'[i].at, parent |-> items'[i].parent,
                           tree |-> items'[i].tree]
    BY <2>1, LinkedLemma
  <2> QED BY <2>2 DEF Item, Within
<1>4. items' \in Seq(Entry')
  <2>1. \A i \in Item : items[i].at \in 0 .. Len(doc) /\ items[i].parent \in Nat
                        /\ items[i].tree \subseteq Item
    BY <1>0 DEF Typed, Within
  <2>2. p \in Nat /\ Within(child) \subseteq Item
    BY <1>0, <1>1 DEF Typed
  <2>3. \A i \in Item : /\ items'[i].at \in 0 .. Len(doc) /\ items'[i].parent \in Nat
                        /\ items'[i].tree \subseteq Item
    BY <1>3, <2>1, <2>2
  <2>4. \A i \in Item : items'[i] \in Entry'
    BY <1>3, <2>3 DEF Entry
  <2>5. items' \in [1 .. Len(items) -> Entry'] /\ Len(items) \in Nat
    BY <1>0, <1>3, <2>4 DEF Typed
  <2> QED BY <2>5, SeqLemma
<1>5. Grows /\ Len(items') = Len(items)
  <2>1. Grows
    BY <1>3 DEF Grows, Within
  <2>2. Len(items') \in Nat /\ DOMAIN items' = 1 .. Len(items')
    BY <1>4, LenProperties
  <2> QED BY <1>0, <1>3, <2>1, <2>2 DEF Typed, Item
<1>6. \A k \in 1 .. n - 1 :
        /\ guards'[k] = guards[k] /\ guards[k] \in Item /\ k \in 1 .. n
        /\ p \in Within(guards[k]) <=> k = n - 1
  <2> TAKE k \in 1 .. n - 1
  <2>1. k \in 1 .. n
    BY <1>1
  <2>2. guards'[k] = guards[k] /\ guards[k] \in Item
    BY <1>0, <1>2, <2>1 DEF Typed
  <2>3. p \in Within(guards[k]) => k = n - 1
    BY <1>1, <2>1 DEF JsonIInv, GuardsApart
  <2> QED BY <1>1, <2>1, <2>2, <2>3
<1>7. \A k \in 1 .. n - 1 : items'[guards'[k]].tree = Within(guards[k]) \cup IF k = n - 1
                                                        THEN Within(guards[n]) ELSE {}
  BY <1>3, <1>6 DEF Within, child
<1>8. SelfWithin' /\ PlacesInOrder'
  BY <1>3, <1>5 DEF JsonIInv, SelfWithin, PlacesInOrder, Grows, Within
<1>9. GuardsApart'
  <2> SUFFICES ASSUME NEW k \in 1 .. n - 1, NEW l \in 1 .. n - 1, NEW i \in Item,
                      i \in items'[guards'[k]].tree, i \in items'[guards'[l]].tree
               PROVE  k = l
    BY <1>2, <1>3 DEF GuardsApart, Within
  <2>1. \A j, m \in 1 .. n : i \in Within(guards[j]) /\ i \in Within(guards[m]) => j = m
    BY DEF JsonIInv, GuardsApart
  <2>2. k \in 1 .. n /\ l \in 1 .. n /\ k # n /\ l # n
    BY <1>1
  <2>3. i \in Within(guards[k]) \/ (k = n - 1 /\ i \in Within(guards[n]))
    BY <1>7
  <2>4. i \in Within(guards[l]) \/ (l = n - 1 /\ i \in Within(guards[n]))
    BY <1>7
  <2> QED BY <1>1, <2>1, <2>2, <2>3, <2>4
<1>10. Accounted'
  <2>1. ASSUME NEW i \in Item PROVE Kept(i)' <=> Kept(i)
    <3>1. Kept(i)' <=> \E k \in 1 .. n - 1 : i \in items'[guards'[k]].tree
      BY <1>2 DEF Kept, Within
    <3>2. \A k \in 1 .. n : k \in 1 .. n - 1 \/ k = n
      BY <1>1
    <3>3. n - 1 \in 1 .. n - 1
      BY <1>1
    <3>4. \A k \in 1 .. n - 1 : i \in items'[guards'[k]].tree <=>
            i \in Within(guards[k]) \/ (k = n - 1 /\ i \in Within(guards[n]))
      BY <1>7
    <3>5. Kept(i) <=> \E k \in 1 .. n : i \in Within(guards[k])
      BY DEF Kept
    <3> QED BY <1>1, <1>6, <3>1, <3>2, <3>3, <3>4, <3>5
  <2> QED BY <1>3, <2>1 DEF JsonIInv, Accounted
<1>11. Parented'
  <2>1. Under(items[child].at, p)
    BY <1>2 DEF JsonIInv, AddedUnder, p
  <2>2. ASSUME NEW i \in Item, items'[i].parent # 0
        PROVE  \E q \in Item, at \in Nat :
                 items'[i].parent = q /\ items'[i].at = at /\ Under(at, q)
    <3>1. items'[i].at = items[i].at /\ items[i].at \in Nat
      BY <1>0, <1>3 DEF Typed
    <3>2. CASE i = child
      BY <1>1, <1>3, <2>1, <3>1, <3>2
    <3>3. CASE i # child
      <4>1. items'[i].parent = items[i].parent
        BY <1>3, <3>3
      <4> QED BY <2>2, <3>1, <4>1 DEF JsonIInv, Parented
    <3> QED BY <3>2, <3>3
  <2> QED BY <1>0, <1>3, <1>5, <2>2, ParentedGrows
<1>12. ScopesGuarded' /\ ScopesNested'
  <2>1. Top' = Top /\ \A k \in 1 .. Top : guards'[k] = guards[k]
    BY <1>1, <1>2 DEF Top
  <2>2. place' <= Len(doc) + 1
    BY <1>0 DEF Typed
  <2> QED BY <1>0, <1>5, <2>1, <2>2, SameScopes
<1>13. JsonTypeOK'
  BY <1>2, <1>3, <1>4 DEF JsonIInv, JsonTypeOK, Entry
<1> QED
  BY <1>8, <1>9, <1>10, <1>11, <1>12, <1>13 DEF JsonIInv, DoneIsEmpty, AddedUnder

LEMMA JsonStep == JsonIInv /\ [JsonNext]_jsonVars => JsonIInv'
<1> SUFFICES ASSUME JsonIInv, [JsonNext]_jsonVars PROVE JsonIInv'
  OBVIOUS
<1>0. Typed
  BY TypedLemma DEF JsonIInv
<1>1. ASSUME NEW what, Comes(what), Fails PROVE JsonIInv'
  <2>1. place' \in place .. Len(doc) + 1
    BY <1>0, <1>1, NextDepth DEF Typed
  <2> QED BY <1>1, <2>1, StopsKeeps DEF Fails, Comes
<1>2. CASE AddLeaf
  BY <1>1, <1>2, LeafKeeps DEF AddLeaf
<1>3. CASE OpenObject
  BY <1>1, <1>3, OpenKeeps DEF OpenObject
<1>4. CASE CloseObject
  <2>1. "close" \in Closing
    BY DEF Closing
  <2> QED BY <1>4, <2>1, LeavesKeeps DEF CloseObject
<1>5. CASE AddArray
  BY <1>1, <1>5, ArrayKeeps DEF AddArray
<1>6. CASE EndArray
  <2>1. "end" \in Closing
    BY DEF Closing
  <2>2. status' = "format"
    BY <1>6 DEF EndArray, Comes
  <2> QED BY <1>6, <2>1, <2>2, LeavesKeeps DEF EndArray
<1>7. CASE Attach
  <2>1. place' \in place .. Len(doc) + 1
    BY <1>0, <1>7 DEF Typed, Attach
  <2> QED BY <1>7, <2>1, AttachKeeps, StopsKeeps DEF Attach, Release, Fails
<1>8. CASE PrintDocument
  <2>1. place' \in place .. Len(doc) + 1
    BY <1>0, <1>8 DEF Typed, PrintDocument
  <2> QED BY <1>8, <2>1, StopsKeeps DEF PrintDocument
<1>9. CASE Unwind
  BY <1>9, UnwindKeeps
<1>10. CASE UNCHANGED jsonVars
  <2>1. UNCHANGED <<doc, place, status, items, scope, guards, freed>>
    BY <1>10 DEF jsonVars
  <2>2. /\ Item' = Item /\ Top' = Top /\ Building' = Building
        /\ \A i : Within(i)' = Within(i) /\ Kept(i)' = Kept(i) /\ Opened(i)' = Opened(i)
        /\ \A at, parent : Under(at, parent)' = Under(at, parent)
    BY <2>1 DEF Item, Top, Building, Within, Kept, Opened, Under
  <2>3. \A level : Levels(level)' = Levels(level)
    BY <2>1 DEF Levels, Top, Within, Opened
  <2>4. JsonTypeOK' /\ SelfWithin' /\ Accounted' /\ DoneIsEmpty' /\ ScopesGuarded'
    BY <2>1, <2>2, <2>3
       DEF JsonIInv, JsonTypeOK, SelfWithin, Accounted, DoneIsEmpty, ScopesGuarded
  <2>5. GuardsApart' /\ PlacesInOrder' /\ ScopesNested' /\ AddedUnder' /\ Parented'
    BY <2>1, <2>2
       DEF JsonIInv, GuardsApart, PlacesInOrder, ScopesNested, AddedUnder, Parented
  <2> QED BY <2>4, <2>5 DEF JsonIInv
<1> QED
  BY <1>2, <1>3, <1>4, <1>5, <1>6, <1>7, <1>8, <1>9, <1>10 DEF JsonNext

\* Type correctness of a document.
THEOREM DocumentTypeCorrect == JsonSpec => []JsonTypeOK
<1>1. JsonIInv => JsonTypeOK
  BY DEF JsonIInv
<1> QED BY <1>1, JsonStart, JsonStep, PTL DEF JsonSpec

\* Whatever addition or allocation fails, for every document of nested formatters: no item
\* is deleted twice, and when the handler has returned none is left.
THEOREM ItemsAreFreedOnce == JsonSpec => []EachDeletedOnce
<1>1. JsonIInv => EachDeletedOnce
  <2> SUFFICES ASSUME JsonIInv, NEW i \in Item
               PROVE  freed[i] = 1 \/ (freed[i] = 0 /\ status # "done")
    BY DEF EachDeletedOnce
  <2>1. freed[i] = IF Kept(i) THEN 0 ELSE 1
    BY DEF JsonIInv, Accounted
  <2>2. status = "done" => ~Kept(i)
    BY EmptySeq DEF JsonIInv, DoneIsEmpty, Kept
  <2> QED BY <2>1, <2>2
<1> QED BY <1>1, JsonStart, JsonStep, PTL DEF JsonSpec

\* Siblings have the depth of one another, and nothing between their places is less deep.
LEMMA SiblingsLemma ==
  ASSUME JsonIInv, NEW i \in Item, NEW j \in Item, i < j,
         items[i].parent = items[j].parent, items[i].parent # 0, KeysDiffer(doc)
  PROVE  KeyOf(i) # KeyOf(j) \/ KeyOf(i) = NoKey
<1> DEFINE p == items[i].parent  a == items[i].at  b == items[j].at
<1>1. Typed /\ doc \in Document /\ DOMAIN doc = 1 .. Len(doc)
  BY TypedLemma, DocumentLemma DEF JsonIInv, Typed
<1>2. Under(a, p) /\ Under(b, p) /\ p \in Item
  BY DEF JsonIInv, Parented
<1>3. a \in 1 .. Len(doc) /\ b \in 1 .. Len(doc) /\ a < b /\ items[p].at < a /\ items[p].at \in Int
  BY <1>1, <1>2 DEF Under, Typed, JsonIInv, PlacesInOrder
<1>4. Depth(doc, b) = Depth(doc, a)
  BY <1>2 DEF Under
<1>5. \A k \in a .. b : Depth(doc, k) >= Depth(doc, a)
  <2>1. \A k \in a .. b : k \in items[p].at + 1 .. b
    BY <1>3
  <2> QED BY <1>2, <1>4, <2>1 DEF Under
<1>6. {doc[a].what, doc[b].what} \cap Closing = {}
  BY <1>2 DEF Under, Opening, Closing
<1>7. doc[a].key # doc[b].key \/ doc[a].key = NoKey
  BY <1>1, <1>3, <1>4, <1>5, <1>6 DEF KeysDiffer
<1> QED BY <1>3, <1>7 DEF KeyOf

\* If no two additions at one level of a document have a key in common, none hides another
\* in the objects made of it; with the above, its tree is sound, whatever fails.
THEOREM DocumentsAreSound ==
  ASSUME \A d \in Document : KeysDiffer(d)
  PROVE  JsonSpec => []DocumentSound
<1>1. JsonIInv => KeysUnique
  <2> SUFFICES ASSUME JsonIInv, NEW i \in Item, NEW j \in Item, i # j,
                      items[i].parent = items[j].parent, items[i].parent # 0
               PROVE  KeyOf(i) # KeyOf(j) \/ KeyOf(i) = NoKey
    BY DEF KeysUnique
  <2>1. KeysDiffer(doc) /\ Typed
    BY TypedLemma DEF JsonIInv, JsonTypeOK
  <2>2. CASE i < j
    BY <2>1, <2>2, SiblingsLemma
  <2>3. CASE j < i
    BY <2>1, <2>3, SiblingsLemma
  <2> QED BY <2>1, <2>2, <2>3 DEF Typed
<1>2. JsonSpec => []KeysUnique
  BY <1>1, JsonStart, JsonStep, PTL DEF JsonSpec
<1>3. EachDeletedOnce /\ KeysUnique => DocumentSound
  BY DEF DocumentSound
<1> QED BY <1>2, <1>3, ItemsAreFreedOnce, PTL
=============================================================================
