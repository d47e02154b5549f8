--------------------------- MODULE MCSearchPipeline ---------------------------
(* Small instances of SearchPipeline: one seller, an answer for the catalogue, *)
(* one for the cache, an empty one and one with a price that is not a number.  *)
EXTENDS SearchPipeline, TLC

CONSTANTS s1, s2, p, i1

Answer(s, items, readable) ==
    [search |-> s, seller |-> p, items |-> items, readable |-> readable]

Full == Answer(s1, {i1}, TRUE)
Empty == Answer(s1, {}, TRUE)
Unreadable == Answer(s1, {i1}, FALSE)
ForCache == Answer(s2, {i1}, TRUE)

Answers == {Full, Empty, Unreadable, ForCache}
===============================================================================
