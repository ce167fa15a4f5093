------------------------------ MODULE MCMemory ------------------------------
(***************************************************************************)
(* TLC instance of Memory.                                                 *)
(***************************************************************************)
EXTENDS Memory

seg(v, memsz, filesz) == [vaddr |-> v, memsz |-> memsz, filesz |-> filesz, short |-> FALSE]
image(segs) == [elf |-> TRUE, segs |-> segs, fits |-> TRUE]

\* Programs as the linker makes them, and files exec() must refuse.
MCImage ==
  {image(<<seg(0, 1, 1), seg(2, 2, 1)>>),
   image(<<seg(2, 3, 1), seg(0, 1, 1)>>),
   [image(<<seg(0, 1, 1)>>) EXCEPT !.fits = FALSE],
   [image(<<>>) EXCEPT !.elf = FALSE],
   image(<<seg(0, 0, 0)>>),
   image(<<seg(0, 1, 2)>>),
   image(<<seg(0, 1, 1), seg(2, 63, 1)>>),
   image(<<[seg(0, 2, 2) EXCEPT !.short = TRUE]>>)}

MCDelta == {-5, -3, 1, 3}
=============================================================================
