---------------------------- MODULE MCResManager ----------------------------
(* Small instances of ResManager.                                          *)
EXTENDS ResManager

SmallIDMod == 16

\* Key slots are interchangeable.
KeySymmetry == Permutations(Key)

Obj(n, uses) == [type |-> 1, name |-> n, uses |-> uses]
Ref(l, n) == [loc |-> l, type |-> 1, name |-> n]

\* Page 1 holds an object that refers to the object of page 2; that one is
\* there in one version of page 2 and gone in the other.
TwoPages == <<{{Obj(1, {Ref(2, 1)})}}, {{Obj(1, {})}, {}}>>

\* Two objects of page 1 refer to each other, and one of them to page 2 as well.
CrossedPages == <<{{Obj(1, {Ref(1, 2), Ref(2, 1)}), Obj(2, {Ref(1, 1)})}},
                  {{Obj(1, {})}, {}}>>

\* The same as TwoPages, with the object of page 1 of the last class type.
TypedPages == <<{{[type |-> 2, name |-> 1, uses |-> {Ref(2, 1)}]}}, {{Obj(1, {})}, {}}>>

WholeAge == {<<1, 2>>}

\* ... and one that lists a page twice.
SomeAges == {<<1, 2>>, <<2, 1, 1>>}
=============================================================================
