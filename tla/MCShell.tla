------------------------------ MODULE MCShell ------------------------------
(* A small shell session: two directories, one of them on the default PATH,  *)
(* one program in both, one in the other only, one nowhere.                  *)
EXTENDS Shell

MCWords == {"", "PS1", "PATH", "USER", "X", "Y", "p", "u", "bin", "usr", "1", "2", "ls", "ed", "./a"}

Var(n, v) == [name |-> n, val |-> v]
MCDefaults == [PS1 |-> <<"p">>, PATH |-> <<"bin">>, USER |-> <<"u">>]
MCEnvs == {<<>>, <<Var("PATH", <<"usr", "bin">>)>>}
MCFiles == {<<"bin", "ls">>, <<"usr", "ls">>, <<"usr", "ed">>, <<"", "./a">>}

Run(c, b) == [kind |-> "run", cmd |-> c, bg |-> b]
Assignment(n, v) == [kind |-> "assign", name |-> n, val |-> v]
MCLines ==
    {Run("ls", FALSE), Run("ls", TRUE), Run("ed", FALSE), Run("./a", FALSE),
     Assignment("PATH", <<"bin", "usr">>), Assignment("X", <<"1">>),
     Assignment("Y", <<"2">>), [kind |-> "cd"], [kind |-> "exit"], [kind |-> "eof"]}
=============================================================================
