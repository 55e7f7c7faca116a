------------------------------ MODULE MCTarFs ------------------------------
(* An instance of TarFs for TLC, with two archives: a directory with an       *)
(* executable in it and a file of two lines, and one in which a file that     *)
(* fills its last block lies before the executable.                           *)
EXTENDS TarFs, TLC

Entry(name, dir, data, elf) == [name |-> name, dir |-> dir, data |-> data, elf |-> elf]
Bin == Entry(<<"bin">>, TRUE, <<>>, FALSE)
Sh == Entry(<<"bin", "sh">>, FALSE, <<"e">>, TRUE)
Two == Entry(<<"two">>, FALSE, <<"x", "nl", "y", "z", "nl">>, FALSE)
Full == Entry(<<"full">>, FALSE, <<"x", "y">>, FALSE)

MCArchives == {<<Bin, Sh, Two>>, <<Bin, Full, Sh>>}

(* "two" is missing from the second archive; the empty path is that of "..". *)
MCAsked == [open |-> {Path(Two.name, 0)},
            chdir |-> {Path(Bin.name, 0), Path(<<>>, 0)},
            execve |-> {Path(Sh.name, 0)}]
MCSymmetry == Permutations(Procs)
=============================================================================
