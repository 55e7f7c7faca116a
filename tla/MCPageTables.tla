---------------------------- MODULE MCPageTables ----------------------------
(* Values for PageTables: no, all or every second frame dirty; two programs' pages in *)
(* one table, in two tables of one entry, and a stack under another entry;    *)
(* the kernel's pages one after the other.                                   *)
EXTENDS PageTables
MCDirtySets == {{}, Frames} \cup {{f \in Frames : f % 2 = b} : b \in {0, 1}}
MCUserPages == {<<0, 0, 0>>, <<0, 0, 1>>, <<0, 1, 0>>, <<1, 0, 0>>}
MCKernelPages == [k \in 0..(MaxFrames - 1) |-> <<KERNEL, k \div ENTRIES, k % ENTRIES>>]
=============================================================================
