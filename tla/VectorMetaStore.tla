-------------------------- MODULE VectorMetaStore --------------------------
(***************************************************************************)
(* The simplest store: the chunks in a vector, in no order                 *)
(* (src/src/store/VectorMetaStore.h).  Lookups search from the front; an   *)
(* entry is removed by swapping it with the last one.                      *)
(***************************************************************************)
EXTENDS PlainStore, Sequences

VARIABLES elements, ret          \* the vector; the answer of the last call

vars == <<elements, ret>>

Init == elements = <<>> /\ ret = <<"none">>

-----------------------------------------------------------------------------
(* The position find_if() stops at; 0 for end().                           *)
Found(key) == {i \in DOMAIN elements : elements[i].ptr = key}
FirstOf(key) == CHOOSE i \in Found(key) : \A j \in Found(key) : i <= j
lookup(key) == IF Found(key) = {} THEN EmptyMeta ELSE elements[FirstOf(key)]

put_okNullToo(m) == lookup(m.ptr).ptr = NULL                      \* mutant
put_okNoSearch(m) == m.ptr # NULL                                 \* mutant
put_ok(m) == m.ptr # NULL /\ lookup(m.ptr).ptr = NULL

put(m) ==
  /\ elements' = IF put_ok(m) THEN Append(elements, m) ELSE elements
  /\ ret' = <<"put", put_ok(m)>>

get(key) == UNCHANGED elements /\ ret' = <<"get", lookup(key)>>

remove_ok(m) == Found(m.ptr) # {} /\ equals_ptr_size(lookup(m.ptr), m)

(* swap() and pop_back()                                                   *)
WithoutPopOnly(i) == SubSeq(elements, 1, Len(elements) - 1)       \* mutant
Without(i) ==
  [j \in 1..Len(elements) - 1 |-> IF j = i THEN elements[Len(elements)] ELSE elements[j]]

remove(m) ==
  /\ elements' = IF remove_ok(m) THEN Without(FirstOf(m.ptr)) ELSE elements
  /\ ret' = <<"remove", remove_ok(m)>>

(* update() is that of the interface: get, remove the entry and put.       *)
update(m) ==
  LET old == lookup(m.ptr)
  IN /\ elements' = IF is_some(old) THEN Append(Without(FirstOf(m.ptr)), m) ELSE elements
     /\ ret' = <<"update", is_some(old)>>

clear == elements' = <<>> /\ ret' = <<"clear">>

Next ==
  \/ \E m \in Meta \cup {EmptyMeta} : put(m) \/ remove(m) \/ update(m)
  \/ \E key \in Key \cup {NULL} : get(key)
  \/ clear

Spec == Init /\ [][Next]_vars

-----------------------------------------------------------------------------
(* No pointer has two entries, though nothing but put()'s search keeps     *)
(* them apart, and the vector holds chunks only.                           *)
TypeOK == elements \in Seq(Meta)
NoDuplicates ==
  \A i, j \in DOMAIN elements : elements[i].ptr = elements[j].ptr => i = j

(* The vector as a map, and the store as the interface promises it.        *)
Contents ==
  [key \in {elements[i].ptr : i \in DOMAIN elements} |->
     elements[CHOOSE i \in DOMAIN elements : elements[i].ptr = key].size]
Abs == INSTANCE MetaStoreSpec WITH map <- Contents
ImplementsMap == Abs!Spec
=============================================================================
