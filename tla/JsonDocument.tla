----------------------------- MODULE JsonDocument -----------------------------
(***************************************************************************)
(* Who owns the cJSON items while one of the documents of Formatters is    *)
(* made: every allocation, every cJSON_AddItemTo... and the printing into  *)
(* a buffer of fixed size may fail.  An item is guarded by a unique_ptr    *)
(* from its creation until it has been added to its parent; an array of    *)
(* cJSON_AddArrayToObject is never guarded.  cJSON_Delete (external)       *)
(* deletes an item with everything added to it.                            *)
(***************************************************************************)
EXTENDS Formatters, Integers

CONSTANT Document  \* the documents that are made

\* How many objects and arrays are open before the addition at a place.
Opening == {"open", "array"}
Closing == {"close", "end"}
Depth(d, at) == Cardinality({k \in 1 .. at - 1 : d[k].what \in Opening})
                - Cardinality({k \in 1 .. at - 1 : d[k].what \in Closing})

\* Formatters call each other: what is closed is what was opened last.
Nested(d) ==
  \A at \in DOMAIN d :
    d[at].what \in Closing =>
      \E from \in 1 .. at - 1 :
        /\ d[from].what = IF d[at].what = "close" THEN "open" ELSE "array"
        /\ Depth(d, from) = Depth(d, at + 1)
        /\ \A k \in from + 1 .. at : Depth(d, k) > Depth(d, from)

ASSUME JsonDocumentAssumption ==
  \A d \in Document :
    /\ d \in Seq([what : {"leaf"} \cup Opening \cup Closing, key : {e.key : e \in Range(d)}])
    /\ Nested(d)

VARIABLES
  doc,      \* the document
  place,    \* what is to be added next
  status,   \* "format", "add" the innermost item to its parent, "unwind", "done"
  items,    \* of every item made, the place of its key, the item it has been added to, or
            \* 0, and its tree: itself and all that was added to it, or below
  scope,    \* the objects and arrays being filled, the innermost last
  guards,   \* the items a unique_ptr guards, the innermost last
  freed     \* how often each item was deleted

jsonVars == <<doc, place, status, items, scope, guards, freed>>

Item == DOMAIN items
KeyOf(i) == IF items[i].at = 0 THEN NoKey ELSE doc[items[i].at].key

JsonTypeOK ==
  /\ doc \in Document /\ place \in 1 .. Len(doc) + 1
  /\ status \in {"format", "add", "unwind", "done"}
  /\ items \in Seq([at : 0 .. Len(doc), parent : Nat, tree : SUBSET Item])
  /\ freed \in [Item -> Nat]
  /\ guards \in Seq(Item) /\ scope \in Seq(Item)

\* The handler makes the object, or the array, of the document: item 1.
JsonInit == /\ doc \in Document /\ place = 1 /\ status = "format"
            /\ items = <<[at |-> 0, parent |-> 0, tree |-> {1}]>> /\ freed = <<0>>
            /\ scope = <<1>> /\ guards = <<1>>

NewItem == Len(items) + 1

\* CjsonUniqueBuilder::make_object, make_number, ...: a new item, guarded.
New == [at |-> place, parent |-> 0, tree |-> {NewItem}]
Make == /\ items' = Append(items, New)
        /\ freed' = Append(freed, 0)
        /\ guards' = Append(guards, NewItem)

\* return NoMem: no formatter goes on after another one has failed.
Fails == status' = "unwind" /\ UNCHANGED <<items, scope, guards, freed>>

Comes(what) == /\ status = "format" /\ place <= Len(doc) /\ doc[place].what = what
               /\ place' = place + 1 /\ doc' = doc

\* cJSON_AddItemTo...: what is in the tree of the child is then in that of its parent, and
\* in those its parent is in.
Linked(all, child, parent) ==
  [i \in DOMAIN all |->
     [at |-> all[i].at,
      parent |-> IF i = child THEN parent ELSE all[i].parent,
      tree |-> all[i].tree \cup IF parent \in all[i].tree THEN all[child].tree ELSE {}]]

AddLeaf == Comes("leaf") /\ (Fails \/ (Make /\ status' = "add" /\ UNCHANGED scope))

OpenObject == /\ Comes("open")
              /\ Fails \/ (Make /\ scope' = Append(scope, NewItem) /\ UNCHANGED status)
CloseObject == /\ Comes("close")
               /\ status' = "add" /\ scope' = Front(scope)
               /\ UNCHANGED <<items, guards, freed>>

AddArray == /\ Comes("array")
            /\ \/ Fails
               \/ /\ items' = Linked(Append(items, New), NewItem, Last(scope))
                  /\ freed' = Append(freed, 0) /\ scope' = Append(scope, NewItem)
                  /\ UNCHANGED <<status, guards>>
EndArray == /\ Comes("end")
            /\ scope' = Front(scope)
            /\ UNCHANGED <<status, items, guards, freed>>

\* cJSON_AddItemToObjectCS or cJSON_AddItemToArray, then release.  Mutant: the guard
\* is not released.
Release_not == UNCHANGED guards
Release == guards' = Front(guards)
Attach == /\ status = "add"
          /\ \/ /\ items' = Linked(items, Last(guards), Last(scope))
                /\ Release
                /\ status' = "format"
                /\ UNCHANGED <<scope, freed>>
             \/ Fails
          /\ UNCHANGED <<doc, place>>

\* DynamicFormatter prints the document, or finds its buffer too small; the response
\* has been written, or not, when the handler returns.
PrintDocument == /\ status = "format" /\ place > Len(doc)
                 /\ status' = "unwind"
                 /\ UNCHANGED <<doc, place, items, scope, guards, freed>>

\* cJSON_Delete: an item and all that was added to it.
Within(i) == items[i].tree

\* The scopes are left from the inside: each guard deletes its item.
Unwind == /\ status = "unwind"
          /\ IF guards = <<>>
             THEN status' = "done" /\ UNCHANGED <<guards, freed>>
             ELSE /\ freed' = [i \in Item |->
                                 freed[i] + IF i \in Within(Last(guards)) THEN 1 ELSE 0]
                  /\ guards' = Front(guards)
                  /\ UNCHANGED status
          /\ UNCHANGED <<doc, place, items, scope>>

JsonNext == \/ AddLeaf \/ OpenObject \/ CloseObject \/ AddArray \/ EndArray
            \/ Attach \/ PrintDocument \/ Unwind

JsonSpec == JsonInit /\ [][JsonNext]_jsonVars

-----------------------------------------------------------------------------
(* Properties *)

\* Whatever fails, wherever in the tree of formatters: no item is deleted twice, and
\* when the handler has returned none is left.
EachDeletedOnce == \A i \in Item : freed[i] = 1 \/ (freed[i] = 0 /\ status # "done")

\* Formatters that know nothing of each other fill the same object: none hides a value of
\* another by using its key, if the device has one sensor of each kind.
KeysUnique ==
  \A i, j \in Item :
    i # j /\ items[i].parent = items[j].parent /\ items[i].parent # 0 =>
      KeyOf(i) # KeyOf(j) \/ KeyOf(i) = NoKey

\* What that takes of a document: two additions at the same level of the same object have
\* different keys, unless they are elements of an array.
KeysDiffer(d) ==
  \A at, later \in DOMAIN d :
    /\ at < later /\ {d[at].what, d[later].what} \cap Closing = {}
    /\ Depth(d, later) = Depth(d, at)
    /\ \A k \in at .. later : Depth(d, k) >= Depth(d, at)
    => d[at].key # d[later].key \/ d[at].key = NoKey

\* Both: the tree of a document is sound, whatever fails while it is built.
DocumentSound == EachDeletedOnce /\ KeysUnique
=============================================================================
