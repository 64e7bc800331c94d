--------------------------------- MODULE Lists ---------------------------------
(* The lists the pages show: what a query or a filter keeps of a list, in   *)
(* the order it has.                                                        *)
EXTENDS Naturals, Sequences

Sifted(list, S) ==
  LET kept[i \in 0..Len(list)] ==
        IF i = 0 THEN <<>>
        ELSE IF list[i] \in S THEN Append(kept[i - 1], list[i])
        ELSE kept[i - 1]
  IN kept[Len(list)]
================================================================================
