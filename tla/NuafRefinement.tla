--------------------------- MODULE NuafRefinement ---------------------------
(***************************************************************************)
(* The promise of SafeHeap that Nuaf keeps.  The program holds the live    *)
(* objects; one whose free has been called is dying until a call that      *)
(* frees it returns, however many threads are freeing it by then.          *)
(***************************************************************************)
EXTENDS Nuaf

Safe == INSTANCE SafeHeap WITH
  Objects   <- [page : Pages, off : 0 .. (PAGE_SIZE - 1),
                np : {1} \cup {NumPages(size) : size \in Sizes}, size : Sizes],
  MayMisuse <- CLIENT_MAY_MISUSE,
  alive     <- live,
  dying     <- Dying \ freed,
  dead      <- freed,
  ended     <- exited

\* The allocator keeps SafeHeap's promise: objects never share an address
\* with an earlier one, and only a program that misuses objects faults.
ImplementsSafeHeap == Safe!Spec
=============================================================================
