------------------------------ MODULE MCPaging ------------------------------
(* Programs of one or two segments, which may meet in a page, run over the *)
(* end of a page or of a table, and have zeroes at their end.              *)
EXTENDS Paging

Segment == [vaddr : 13 .. 15, filesz : {0, 1, 2}, memsz : {1, 3}]

MCPrograms ==
  {segs \in UNION {[1 .. n -> Segment] : n \in 1 .. 2} :
     /\ \A k \in DOMAIN segs : segs[k].filesz <= segs[k].memsz
     /\ \A k \in DOMAIN segs : k > 1 => segs[k - 1].vaddr + segs[k - 1].memsz <= segs[k].vaddr}
=============================================================================
