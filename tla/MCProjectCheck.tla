--------------------------- MODULE MCProjectCheck ---------------------------
(***************************************************************************)
(* Instances of ProjectCheck for TLC: up to three files, one dependency.   *)
(***************************************************************************)
EXTENDS ProjectCheck, TLC

imp(t) == [to |-> t, item |-> 0]
item(t, n) == [to |-> t, item |-> n]

\* Three files, one of which may have the path of the first, and module 4 of
\* a dependency.
ThreeKeys == ("f1" :> {1}) @@ ("f2" :> {2}) @@ ("f3" :> {1, 3})
MCImports ==
  {<<>>, <<imp(1)>>, <<imp(2)>>, <<item(3, 1), item(3, 2)>>, <<imp(1), imp(2)>>, <<imp(2), imp(3)>>,
   <<imp(0)>>, <<imp(4)>>, <<imp(3), imp(3)>>}

\* One file, for the imports of a dependency.
OneKey == ("f1" :> {1})

NoImports == {<<>>}
InnerImports == {<<>>, <<imp(0)>>}

=============================================================================
