-------------------------------- MODULE TreePath --------------------------------
(***************************************************************************)
(* The templates of treepath.hh on static tree paths: HybridTreePaths all  *)
(* of whose entries are known to the compiler, StaticTreePath<i...>.  They *)
(* are deprecated in favour of the functions of HybridMultiIndex, which    *)
(* compute the same in a different way.                                    *)
(***************************************************************************)
EXTENDS HybridMultiIndex

index_constant(i) == [type |-> "index_constant", value |-> i]

StaticTreePath(i) == [j \in 1 .. Len(i) |-> index_constant(i[j])]

TreePathSize(path) == Len(path)

TreePathPushBack(path, k) == path \o << index_constant(k) >>

TreePathPushFront(path, k) == << index_constant(k) >> \o path

TreePathFront(path) == Head(path).value

(* Neither TreePathBack nor TreePathPopBack is defined for the path that   *)
(* has no entries.                                                         *)
NonEmpty == MultiIndex \ {<< >>}

(* Peels entries off the front until one is left.                          *)
TreePathBack[path \in NonEmpty] ==
  IF Len(path) = 1 THEN Head(path).value ELSE TreePathBack[Tail(path)]

(* TreePathPopBack<path, i...> collects the entries peeled off in i.       *)
TreePathPopBack_KeepsLast(path) ==
  LET collect[peeled \in NonEmpty \X MultiIndex] ==
        LET rest == peeled[1]
            i    == peeled[2]
        IN  IF Len(rest) = 1
              THEN Append(i, Head(rest))
              ELSE collect[<< Tail(rest), Append(i, Head(rest)) >>]
  IN  collect[<< path, << >> >>]

TreePathPopBack(path) ==
  LET collect[peeled \in NonEmpty \X MultiIndex] ==
        LET rest == peeled[1]
            i    == peeled[2]
        IN  IF Len(rest) = 1 THEN i
              ELSE collect[<< Tail(rest), Append(i, Head(rest)) >>]
  IN  collect[<< path, << >> >>]

TreePathPopFront(path) == Tail(path)

TreePathConcat(p, q) == p \o q

=============================================================================
