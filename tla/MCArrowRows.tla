---------------------------- MODULE MCArrowRows ----------------------------
(***************************************************************************)
(* ArrowRows on small instances: a number, a list of lists of numbers and a*)
(* struct of a number and a list.                                          *)
(***************************************************************************)
EXTENDS ArrowRows

SomeKinds ==
    [n |-> "primitive",
     l |-> "list", l1 |-> "list", l2 |-> "primitive",
     s |-> "struct", m |-> "primitive", k |-> "list", k1 |-> "primitive"]

SomeParents ==
    [n |-> "", l |-> "", l1 |-> "l", l2 |-> "l1", s |-> "", m |-> "s", k |-> "s", k1 |-> "k"]

Valid(v) == [valid |-> TRUE, value |-> v]

Null(v) == [valid |-> FALSE, value |-> v]

Numbers(ns) == [i \in DOMAIN ns |-> Valid(ns[i])]

\* No null list has items.  In the third row a null struct has members.
TightRows ==
    {[n |-> Valid(1),
      l |-> Valid(<<Valid(Numbers(<<1, 2>>)), Null(<<>>), Valid(Numbers(<<3>>))>>),
      s |-> Valid([m |-> Valid(1), k |-> Valid(Numbers(<<4>>))])],
     [n |-> Valid(2),
      l |-> Valid(<<>>),
      s |-> Valid([m |-> Null(0), k |-> Valid(<<Valid(5), Null(0), Valid(6)>>)])],
     [n |-> Valid(3),
      l |-> Null(<<>>),
      s |-> Null([m |-> Valid(2), k |-> Valid(Numbers(<<8>>))])]}

\* With null lists that have items: a column, one in a list and one in a struct.
SomeRows ==
    TightRows \cup
    {[n |-> Null(0),
      l |-> Null(<<Valid(Numbers(<<7>>))>>),
      s |-> Null([m |-> Null(0), k |-> Null(<<>>)])],
     [n |-> Null(0),
      l |-> Valid(<<Null(Numbers(<<9>>)), Valid(Numbers(<<1>>))>>),
      s |-> Valid([m |-> Valid(3), k |-> Null(Numbers(<<2>>))])]}

\* The values in these rows.
SomeValues ==
    LET Of(entries) == {entry.value : entry \in entries}
        In(lists) == Of(UNION {{list[i] : i \in DOMAIN list} : list \in lists})
        lists == Of({row.l : row \in SomeRows})
        structs == Of({row.s : row \in SomeRows})
        ks == Of({struct.k : struct \in structs})
    IN  [n |-> Of({row.n : row \in SomeRows}),
         l |-> lists, l1 |-> In(lists), l2 |-> In(In(lists)),
         s |-> structs, m |-> Of({struct.m : struct \in structs}),
         k |-> ks, k1 |-> In(ks)]

=============================================================================
