---------------------------- MODULE ShellProofs ----------------------------
(***************************************************************************)
(* Proofs about module Shell, for any lines, variables, files and programs,   *)
(* and any number of children; and about module Paths, the system call behind *)
(* its cd, for any paths, directories and size of the array of parts.        *)
(***************************************************************************)
EXTENDS Shell, Paths, WellFoundedInduction, SequenceTheorems, TLAPS

Child == [cmd : Words, fg : BOOLEAN, state : {"search", "program", "done"}, at : Nat,
          dirs : Seq(Words), env : Seq(Variables \cup {Null}), ran : Words,
          code : ExitCodes \cup {0, NotFound}, known : Seq(Variables)]
Newest == children[Len(children)]

ShellTypeOK ==
    /\ vars \in Seq(Variables) /\ Named(vars, "PATH") # {}
    /\ line \in Lines \cup {Nothing}
    /\ envp_copy \in [1..EnvSlots -> Variables \cup {Null}]
    /\ children \in Seq(Child)

(* What the shell knows of the command it runs, or ran last.                 *)
CommandInv ==
    /\ pc = "fork" => line.kind = "run" /\ bg = line.bg /\ envp_copy = get_envp(vars)
    /\ pc \in {"wait", "waiting"} => line.kind = "run" /\ Len(children) > 0 /\ Newest.fg
    /\ pc = "prompt" /\ line.kind = "run" =>
          /\ Len(children) > 0
          /\ IF Newest.fg THEN Newest.state = "done" /\ status = Newest.code ELSE status = 0

(* It is registered for its newest child, or was told how that one ended.    *)
WaitInv ==
    IF pc = "waiting"
    THEN \/ told = <<>> /\ waiting = Len(children)
         \/ told = <<Newest.code>> /\ Newest.state = "done" /\ waiting = NoChild
    ELSE told = <<>> /\ waiting = NoChild

(* Where a child stands in its search, and what it was given.                *)
ChildOK(ch) ==
    /\ ch.dirs = SearchList(ch.known, ch.cmd)
    /\ ch.at \in 1..(Len(ch.dirs) + 1)
    /\ \A m \in 1..(ch.at - 1) : <<ch.dirs[m], ch.cmd>> \notin Files
    /\ ch.state = "search" => ch.env = get_envp(ch.known)
    /\ ch.state = "program" => /\ ch.at <= Len(ch.dirs)
                               /\ <<ch.dirs[ch.at], ch.cmd>> \in Files
                               /\ ch.ran = ch.dirs[ch.at]
                               /\ ch.env = Received(get_envp(ch.known))

ShellInv ==
    /\ ShellTypeOK /\ CommandInv /\ WaitInv
    /\ \A c \in 1..Len(children) : ChildOK(children[c])

(* A set of numbers that is not empty has a least element. *)
LEMMA Least ==
    ASSUME NEW S \in SUBSET Nat, S # {}
    PROVE  \E x \in S : \A y \in S : x <= y
  <1>1. PICK x \in S : \A y \in S : ~(<<y, x>> \in OpToRel(<, Nat))
    BY NatLessThanWellFounded, WFMin
  <1>2. \A y \in S : ~(y < x)
    BY <1>1 DEF OpToRel
  <1> QED BY <1>2

(* var_find finds a variable of that name, if there is one. *)
LEMMA FindIs ==
    ASSUME NEW vs \in Seq(Variables), NEW n, Named(vs, n) # {}
    PROVE  /\ var_find(vs, n) \in 1..Len(vs)
           /\ vs[var_find(vs, n)].name = n
           /\ vs[var_find(vs, n)].val \in Seq(Words)
  <1>1. Named(vs, n) \subseteq 1..Len(vs) /\ Named(vs, n) \subseteq Nat
    BY DEF Named
  <1>2. \E i \in Named(vs, n) : \A j \in Named(vs, n) : i <= j
    BY <1>1, Least
  <1>3. var_find(vs, n) \in Named(vs, n)
    BY <1>2 DEF var_find
  <1>4. \A x \in Variables : x.val \in Seq(Words)
    BY DEF Variables
  <1> QED BY <1>1, <1>3, <1>4 DEF Named

(* var_set keeps a list of variables, and every name in it.                  *)
LEMMA SetTyped ==
    ASSUME NEW vs \in Seq(Variables), NEW n, NEW x, [name |-> n, val |-> x] \in Variables, NEW m
    PROVE  /\ var_set(vs, n, x) \in Seq(Variables)
           /\ Named(vs, m) # {} => Named(var_set(vs, n, x), m) # {}
  <1>1. PICK e \in Variables : e = [name |-> n, val |-> x]
    OBVIOUS
  <1>2. CASE Named(vs, n) = {}
    <2>1. var_set(vs, n, x) = Append(vs, e)
      BY <1>1, <1>2 DEF var_set
    <2>2. \A i \in DOMAIN vs : i \in DOMAIN Append(vs, e) /\ Append(vs, e)[i] = vs[i]
      OBVIOUS
    <2> QED BY <2>1, <2>2 DEF Named
  <1>3. CASE Named(vs, n) # {}
    <2>1. PICK k \in 1..Len(vs) : k = var_find(vs, n) /\ vs[k].name = n
      BY <1>3, FindIs
    <2>2. var_set(vs, n, x) = [vs EXCEPT ![k].val = x]
      BY <1>3, <2>1 DEF var_set
    <2>3. [vs[k] EXCEPT !.val = x] = e
      <3>1. vs[k] \in [name : Words, val : Seq(Words)]
        BY DEF Variables
      <3> QED BY <1>1, <2>1, <3>1
    <2>4. var_set(vs, n, x) = [vs EXCEPT ![k] = e]
      BY <2>2, <2>3
    <2>5. /\ var_set(vs, n, x) \in Seq(Variables)
          /\ DOMAIN var_set(vs, n, x) = DOMAIN vs
      BY <2>4, ExceptSeq
    <2>6. \A i \in DOMAIN vs : var_set(vs, n, x)[i].name = vs[i].name
      BY <1>1, <2>1, <2>4
    <2> QED BY <2>5, <2>6 DEF Named
  <1> QED BY <1>2, <1>3

(* parse_envp leaves a PATH. *)
LEMMA ParseTyped ==
    ASSUME NEW env \in Envs
    PROVE  parse_envp(env) \in Seq(Variables) /\ Named(parse_envp(env), "PATH") # {}
  <1>1. env \in Seq(Variables)
    BY ShellAssumption
  <1>2. \A n \in {"PS1", "PATH", "USER"} : Default(env, n) \in Seq(Variables)
    <2>1. ASSUME NEW n \in {"PS1", "PATH", "USER"}
          PROVE  [name |-> n, val |-> Defaults[n]] \in Variables
      <3>1. Defaults[n] \in Seq(Words) /\ n \in Words /\ n # ""
        BY ShellAssumption, WordsAssumption
      <3>2. PICK e : e = [name |-> n, val |-> Defaults[n]]
        OBVIOUS
      <3>3. e \in [name : Words, val : Seq(Words)] /\ e.name = n
        BY <3>1, <3>2
      <3>4. Null.name = ""
        BY DEF Null
      <3>5. e # Null
        BY <3>1, <3>3, <3>4
      <3> QED BY <3>2, <3>3, <3>5 DEF Variables
    <2> QED BY <2>1 DEF Default
  <1>3. PICK a \in Seq(Variables), b \in Seq(Variables), c \in Seq(Variables) :
            a = Default(env, "PS1") /\ b = Default(env, "PATH") /\ c = Default(env, "USER")
    BY <1>2
  <1>4. parse_envp(env) = ((env \o a) \o b) \o c
    BY <1>3 DEF parse_envp
  <1>5. \A s, t \in Seq(Variables) : Named(s, "PATH") # {} => Named(s \o t, "PATH") # {}
    <2> SUFFICES ASSUME NEW s \in Seq(Variables), NEW t \in Seq(Variables), NEW i \in Named(s, "PATH")
                 PROVE  Named(s \o t, "PATH") # {}
      OBVIOUS
    <2>1. i \in DOMAIN (s \o t) /\ (s \o t)[i] = s[i]
      BY DEF Named
    <2> QED BY <2>1 DEF Named
  <1>6. PICK d \in Seq(Variables) : d = env \o a
    BY <1>1, <1>3, ConcatProperties
  <1>7. Named(d \o b, "PATH") # {}
    <2>1. CASE Named(env, "PATH") = {}
      <3>1. b = <<[name |-> "PATH", val |-> Defaults["PATH"]]>>
        BY <1>3, <2>1 DEF Default
      <3>2. Len(b) = 1 /\ b[1].name = "PATH"
        BY <3>1
      <3>3. Len(d) + 1 \in 1..(Len(d) + Len(b)) /\ ~(Len(d) + 1 <= Len(d)) /\ (Len(d) + 1) - Len(d) = 1
        BY <3>2
      <3>4. Len(d) + 1 \in DOMAIN (d \o b) /\ (d \o b)[Len(d) + 1] = b[1]
        BY <3>3, ConcatProperties
      <3> QED BY <3>2, <3>4 DEF Named
    <2>2. CASE Named(env, "PATH") # {}
      BY <1>1, <1>3, <1>5, <1>6, <2>2
    <2> QED BY <2>1, <2>2
  <1>8. d \o b \in Seq(Variables)
    BY <1>6, ConcatProperties
  <1>9. (d \o b) \o c \in Seq(Variables) /\ Named((d \o b) \o c, "PATH") # {}
    BY <1>5, <1>7, <1>8, ConcatProperties
  <1> QED BY <1>4, <1>6, <1>9

(* The directories a child tries are a sequence. *)
LEMMA SearchTyped ==
    ASSUME NEW vs \in Seq(Variables), Named(vs, "PATH") # {}, NEW cmd
    PROVE  SearchList(vs, cmd) \in Seq(Words)
  <1>1. get_path(vs) \in Seq(Words)
    BY FindIs DEF get_path
  <1>2. <<"">> \in Seq(Words)
    <2>1. PICK e \in Words : e = ""
      BY WordsAssumption
    <2>2. <<e>> \in Seq(Words)
      BY ONLY e \in Words
    <2> QED BY ONLY <2>1, <2>2, Zenon
  <1> QED BY <1>1, <1>2 DEF SearchList

(* What a program reads of an environment that has room for the NULL. *)
LEMMA ReceivedIs ==
    ASSUME NEW vs \in Seq(Variables)
    PROVE  /\ get_envp(vs) \in Seq(Variables \cup {Null})
           /\ Received(get_envp(vs)) \in Seq(Variables \cup {Null})
           /\ Len(vs) < EnvSlots => Received(get_envp(vs)) = vs
  <1> DEFINE env == get_envp(vs)
             V == Variables \cup {Null}
             I == {i \in 1..Len(env) : env[i] = Null}
  <1>1. EnvSlots \in Nat /\ Len(vs) \in Nat
    BY ShellAssumption
  <1>2. env \in [1..EnvSlots -> V]
    BY <1>1 DEF get_envp
  <1>3. env \in Seq(V) /\ Len(env) = EnvSlots
    BY <1>1, <1>2
  <1>4. \A i \in 1..EnvSlots : env[i] = IF i <= Len(vs) THEN vs[i] ELSE Null
    BY DEF get_envp
  <1> HIDE DEF env
  <1>5. UpToNull(env) = IF I # {} THEN CHOOSE x \in I : \A y \in I : x <= y ELSE 0
    BY DEF UpToNull, SelectInSeq, Min
  <1>6. I # {} => UpToNull(env) \in I /\ \A y \in I : UpToNull(env) <= y
    <2>1. I \in SUBSET Nat
      BY <1>1, <1>3
    <2>2. I # {} => \E x \in I : \A y \in I : x <= y
      BY <2>1, Least
    <2> HIDE DEF I
    <2> QED BY <1>5, <2>2
  <1>7. I = {} => Received(env) = env
    BY <1>5 DEF Received
  <1>8. I # {} => Received(env) = SubSeq(env, 1, UpToNull(env) - 1) /\ UpToNull(env) \in 1..EnvSlots
    BY <1>1, <1>3, <1>6 DEF Received
  <1>9. Received(env) \in Seq(V)
    <2>1. CASE I = {}
      BY <1>3, <1>7, <2>1
    <2>2. CASE I # {}
      <3>1. PICK k \in 1..EnvSlots : k = UpToNull(env)
        BY <1>8, <2>2
      <3>2. k - 1 \in 0..Len(env)
        BY <1>1, <1>3, <3>1
      <3>3. SubSeq(env, 1, k - 1) \in Seq(V)
        BY <1>3, <3>2
      <3> QED BY <1>8, <2>2, <3>1, <3>3
    <2> QED BY <2>1, <2>2
  <1>10. ASSUME Len(vs) < EnvSlots PROVE Received(env) = vs
    <2>1. \A i \in 1..Len(vs) : vs[i] # Null
      BY DEF Variables
    <2>2. PICK n \in Nat : n = Len(vs) /\ n + 1 \in 1..EnvSlots
      BY <1>1, <1>10
    <2>3. n + 1 \in I /\ \A i \in 1..n : i \notin I
      BY <1>1, <1>3, <1>4, <2>1, <2>2
    <2>4. UpToNull(env) = n + 1
      <3>1. UpToNull(env) \in I /\ UpToNull(env) <= n + 1 /\ UpToNull(env) \in 1..EnvSlots
        BY <1>6, <1>8, <2>3
      <3>2. UpToNull(env) \in 1..n \/ UpToNull(env) = n + 1
        BY <1>1, <3>1
      <3> QED BY <2>3, <3>1, <3>2
    <2>5. (n + 1) - 1 = n
      OBVIOUS
    <2>6. Received(env) = SubSeq(env, 1, n)
      BY <1>8, <2>3, <2>4, <2>5
    <2>7. SubSeq(env, 1, n) \in Seq(V) /\ Len(SubSeq(env, 1, n)) = n
          /\ \A i \in 1..n : SubSeq(env, 1, n)[i] = env[i]
      BY <1>1, <1>3, <2>2
    <2>8. \A i \in 1..n : SubSeq(env, 1, n)[i] = vs[i]
      BY <1>1, <1>4, <2>2, <2>7
    <2>9. vs \in Seq(V)
      OBVIOUS
    <2> HIDE DEF V
    <2>10. SubSeq(env, 1, n) = vs
      BY <2>2, <2>7, <2>8, <2>9, SeqEqual
    <2> QED BY <2>6, <2>10
  <1> QED BY <1>3, <1>9, <1>10 DEF env
-----------------------------------------------------------------------------
(* The steps of the shell. *)
LEMMA ShellSteps ==
    ASSUME ShellInv, ShellStep
    PROVE  ShellInv'
  <1>1. /\ vars \in Seq(Variables) /\ Named(vars, "PATH") # {}
        /\ line \in Lines \cup {Nothing}
        /\ envp_copy \in [1..EnvSlots -> Variables \cup {Null}]
        /\ children \in Seq(Child) /\ Len(children) \in Nat
        /\ \A c \in 1..Len(children) : ChildOK(children[c])
    BY DEF ShellInv, ShellTypeOK
  <1>2. line.kind = "run" => line.cmd \in Words /\ line.bg \in BOOLEAN
    <2>1. CASE line \in Lines
      BY <2>1, ShellAssumption
    <2>2. CASE line = Nothing
      BY <2>2 DEF Nothing
    <2> QED BY <1>1, <2>1, <2>2
  <1>3. CommandInv /\ WaitInv
    BY DEF ShellInv
  <1>4. ASSUME UNCHANGED children PROVE (\A c \in 1..Len(children) : ChildOK(children[c]))'
                                        /\ children' \in Seq(Child) /\ Newest' = Newest
    BY <1>1, <1>4 DEF Newest
  <1>5. ASSUME NEW ln \in Lines, ReadLine(ln) PROVE ShellInv'
    <2>1. ShellTypeOK'
      BY <1>1, <1>5 DEF ReadLine, ShellTypeOK, Named
    <2>2. CommandInv'
      BY <1>5 DEF ReadLine, CommandInv
    <2>3. WaitInv'
      BY <1>3, <1>5 DEF ReadLine, WaitInv
    <2> QED BY <1>4, <1>5, <2>1, <2>2, <2>3 DEF ShellInv, ReadLine
  <1>6. CASE Cd
    <2>1. ShellTypeOK'
      BY <1>1, <1>6 DEF Cd, ShellTypeOK, Named
    <2>2. CommandInv'
      BY <1>6 DEF Cd, CommandInv
    <2>3. WaitInv'
      BY <1>3, <1>6 DEF Cd, WaitInv
    <2> QED BY <1>4, <1>6, <2>1, <2>2, <2>3 DEF ShellInv, Cd
  <1>7. CASE ExitShell
    <2>1. ShellTypeOK'
      BY <1>1, <1>7 DEF ExitShell, ShellTypeOK, Named
    <2>2. CommandInv'
      BY <1>7 DEF ExitShell, CommandInv
    <2>3. WaitInv'
      BY <1>3, <1>7 DEF ExitShell, WaitInv
    <2> QED BY <1>4, <1>7, <2>1, <2>2, <2>3 DEF ShellInv, ExitShell
  <1>8. CASE Assign
    <2>1. [name |-> line.name, val |-> line.val] \in Variables
      BY <1>1, <1>8, ShellAssumption DEF Assign, Nothing
    <2>2. /\ var_set(vars, line.name, line.val) \in Seq(Variables)
          /\ Named(var_set(vars, line.name, line.val), "PATH") # {}
      BY <1>1, <2>1, SetTyped
    <2>3. vars' \in Seq(Variables) /\ Named(vars', "PATH") # {}
      BY <1>8, <2>2 DEF Assign
    <2>4. ShellTypeOK'
      BY <1>1, <1>8, <2>3 DEF Assign, ShellTypeOK, Named
    <2>5. CommandInv'
      BY <1>8 DEF Assign, CommandInv
    <2>6. WaitInv'
      BY <1>3, <1>8 DEF Assign, WaitInv
    <2> QED BY <1>4, <1>8, <2>4, <2>5, <2>6 DEF ShellInv, Assign
  <1>9. CASE Prepare
    <2>1. get_envp(vars) \in [1..EnvSlots -> Variables \cup {Null}]
      BY <1>1 DEF get_envp
    <2>2. ShellTypeOK'
      BY <1>1, <1>9, <2>1 DEF Prepare, ShellTypeOK, Named
    <2>3. CommandInv'
      BY <1>9 DEF Prepare, CommandInv, get_envp
    <2>4. WaitInv'
      BY <1>3, <1>9 DEF Prepare, WaitInv
    <2> QED BY <1>4, <1>9, <2>2, <2>3, <2>4 DEF ShellInv, Prepare
  <1>10. CASE Fork
    <2>1. line.kind = "run" /\ bg = line.bg /\ envp_copy = get_envp(vars)
      BY <1>3, <1>10 DEF Fork, CommandInv
    <2>2. SearchList(vars, line.cmd) \in Seq(Words)
      BY <1>1, SearchTyped
    <2>3. PICK ch : ch = NewChild
      OBVIOUS
    <2>4. envp_copy \in Seq(Variables \cup {Null})
      BY <1>1, <2>1, ReceivedIs
    <2>5. ch \in Child
      <3>1. line.cmd \in Words /\ (~line.bg) \in BOOLEAN
        BY <1>2, <2>1
      <3>2. "" \in Words
        BY WordsAssumption
      <3> QED BY <1>1, <2>2, <2>3, <2>4, <3>1, <3>2 DEF NewChild, Child
    <2>6. ChildOK(ch)
      <3>1. /\ ch.dirs = SearchList(vars, line.cmd) /\ ch.known = vars /\ ch.cmd = line.cmd
            /\ ch.at = 1 /\ ch.state = "search" /\ ch.env = envp_copy
        BY <2>3 DEF NewChild
      <3>2. Len(ch.dirs) \in Nat
        BY <2>2, <3>1
      <3>3. 1 \in 1..(Len(ch.dirs) + 1) /\ 1..(1 - 1) = {}
        BY <3>2
      <3> QED BY <2>1, <3>1, <3>3 DEF ChildOK
    <2>7. /\ children' \in Seq(Child) /\ Len(children') = Len(children) + 1
          /\ children'[Len(children) + 1] = ch
          /\ \A c \in 1..Len(children) : children'[c] = children[c]
      BY <1>1, <1>10, <2>3, <2>5 DEF Fork
    <2>8. (\A c \in 1..Len(children) : ChildOK(children[c]))'
      <3>1. \A c \in 1..(Len(children) + 1) : c \in 1..Len(children) \/ c = Len(children) + 1
        BY <1>1
      <3> QED BY <1>1, <2>6, <2>7, <3>1
    <2>9. ShellTypeOK'
      BY <1>1, <1>10, <2>7 DEF Fork, ShellTypeOK, Named
    <2>10. Newest' = ch /\ Len(children') > 0
      BY <1>1, <2>7 DEF Newest
    <2>11. CommandInv'
      <3>1. CASE bg
        <4>1. ~ch.fg
          BY <2>1, <2>3, <3>1 DEF NewChild
        <4>2. pc' = "prompt" /\ status' = 0
          BY <1>10, <3>1 DEF Fork
        <4> QED BY <2>10, <4>1, <4>2 DEF CommandInv
      <3>2. CASE ~bg
        <4>1. ch.fg
          BY <2>1, <2>3, <3>2 DEF NewChild
        <4>2. pc' = "wait" /\ line' = line
          BY <1>10, <3>2 DEF Fork
        <4> QED BY <2>1, <2>10, <4>1, <4>2 DEF CommandInv
      <3> QED BY <3>1, <3>2
    <2>12. WaitInv'
      BY <1>3, <1>10 DEF Fork, WaitInv
    <2> QED BY <2>8, <2>9, <2>11, <2>12 DEF ShellInv
  <1>11. CASE Waitpid
    <2>1. ShellTypeOK'
      BY <1>1, <1>11 DEF Waitpid, ShellTypeOK, Named
    <2>2. CommandInv'
      <3>1. line.kind = "run" /\ Len(children) > 0 /\ Newest.fg
        BY <1>3, <1>11 DEF Waitpid, CommandInv
      <3> QED BY <1>4, <1>11, <3>1 DEF Waitpid, CommandInv
    <2>3. WaitInv'
      BY <1>3, <1>11 DEF Waitpid, WaitInv
    <2> QED BY <1>4, <1>11, <2>1, <2>2, <2>3 DEF ShellInv, Waitpid
  <1>12. CASE WaitReturn
    <2>1. ShellTypeOK'
      BY <1>1, <1>12 DEF WaitReturn, ShellTypeOK, Named
    <2>2. line.kind = "run" /\ Len(children) > 0 /\ Newest.fg
      BY <1>3, <1>12 DEF WaitReturn, CommandInv
    <2>3. told = <<Newest.code>> /\ Newest.state = "done" /\ waiting = NoChild
      BY <1>3, <1>12 DEF WaitReturn, WaitInv
    <2>4. status' = Newest.code
      BY <1>12, <2>3 DEF WaitReturn
    <2>5. CommandInv'
      BY <1>4, <1>12, <2>2, <2>3, <2>4 DEF WaitReturn, CommandInv
    <2>6. WaitInv'
      BY <1>12, <2>3 DEF WaitReturn, WaitInv
    <2> QED BY <1>4, <1>12, <2>1, <2>5, <2>6 DEF ShellInv, WaitReturn
  <1> QED BY <1>5, <1>6, <1>7, <1>8, <1>9, <1>10, <1>11, <1>12 DEF ShellStep

(* A step of one child that is not done yet leaves every other child, and     *)
(* the shell, which hears of its end if it waits for this one.               *)
LEMMA ChildChange ==
    ASSUME ShellInv, NEW c \in 1..Len(children), NEW ch \in Child,
           children[c].state # "done", ch.fg = children[c].fg, ChildOK(ch),
           children' = [children EXCEPT ![c] = ch],
           UNCHANGED <<vars, pc, line, bg, status, envp_copy>>,
           IF ch.state = "done" THEN NotifyShell(c, ch.code) ELSE UNCHANGED <<told, waiting>>
    PROVE  ShellInv'
  <1>1. /\ children \in Seq(Child) /\ Len(children) \in Nat
        /\ \A d \in 1..Len(children) : ChildOK(children[d])
        /\ CommandInv /\ WaitInv
    BY DEF ShellInv, ShellTypeOK
  <1>2. /\ children' \in Seq(Child) /\ Len(children') = Len(children)
        /\ children'[c] = ch
        /\ \A d \in 1..Len(children) : d # c => children'[d] = children[d]
    BY <1>1
  <1>3. ShellTypeOK'
    BY <1>2 DEF ShellInv, ShellTypeOK, Named
  <1>4. (\A d \in 1..Len(children) : ChildOK(children[d]))'
    BY <1>1, <1>2
  <1>5. /\ Len(children) > 0
        /\ Newest'.fg = Newest.fg
        /\ Newest.state = "done" => Newest' = Newest /\ c # Len(children)
        /\ c = Len(children) => Newest' = ch
    <2>1. Len(children) \in 1..Len(children) /\ Len(children) > 0
      BY <1>1
    <2>2. Newest = children[Len(children)] /\ Newest' = children'[Len(children)]
      BY <1>2 DEF Newest
    <2>3. CASE c = Len(children)
      BY <1>2, <2>1, <2>2, <2>3
    <2>4. CASE c # Len(children)
      BY <1>2, <2>1, <2>2, <2>4
    <2> QED BY <2>3, <2>4
  <1>6. CommandInv'
    <2>1. pc = "fork" => line.kind = "run" /\ bg = line.bg /\ envp_copy = get_envp(vars)
      BY <1>1 DEF CommandInv
    <2>2. pc \in {"wait", "waiting"} => line.kind = "run" /\ Newest.fg
      BY <1>1 DEF CommandInv
    <2>3. pc = "prompt" /\ line.kind = "run" =>
              IF Newest.fg THEN Newest.state = "done" /\ status = Newest.code ELSE status = 0
      BY <1>1 DEF CommandInv
    <2>4. (pc \in {"wait", "waiting"} => line.kind = "run" /\ Len(children) > 0 /\ Newest.fg)'
      BY <1>2, <1>5, <2>2
    <2>5. (pc = "prompt" /\ line.kind = "run" =>
              /\ Len(children) > 0
              /\ IF Newest.fg THEN Newest.state = "done" /\ status = Newest.code ELSE status = 0)'
      BY <1>2, <1>5, <2>3
    <2> QED BY <2>1, <2>4, <2>5 DEF CommandInv
  <1>7. WaitInv'
    <2>1. CASE pc # "waiting"
      <3>1. told = <<>> /\ waiting = NoChild /\ c # NoChild
        BY <1>1, <2>1 DEF WaitInv, NoChild
      <3> QED BY <2>1, <3>1 DEF WaitInv, NotifyShell
    <2>2. CASE pc = "waiting" /\ told = <<>> /\ waiting = Len(children)
      <3>1. CASE c = Len(children) /\ ch.state = "done"
        <4>1. told' = <<ch.code>> /\ waiting' = NoChild
          BY <2>2, <3>1 DEF NotifyShell
        <4> QED BY <1>5, <2>2, <3>1, <4>1 DEF WaitInv
      <3>2. CASE ~(c = Len(children) /\ ch.state = "done")
        <4>1. UNCHANGED <<told, waiting>>
          BY <2>2, <3>2 DEF NotifyShell
        <4> QED BY <1>2, <2>2, <4>1 DEF WaitInv
      <3> QED BY <3>1, <3>2
    <2>3. CASE pc = "waiting" /\ told = <<Newest.code>> /\ Newest.state = "done" /\ waiting = NoChild
      <3>1. UNCHANGED <<told, waiting>>
        BY <2>3 DEF NotifyShell, NoChild
      <3> QED BY <1>5, <2>3, <3>1 DEF WaitInv
    <2> QED BY <1>1, <2>1, <2>2, <2>3 DEF WaitInv
  <1> QED BY <1>3, <1>4, <1>6, <1>7 DEF ShellInv

(* The steps of a child. *)
LEMMA ChildSteps ==
    ASSUME ShellInv, NEW c \in DOMAIN children, ChildStep(c)
    PROVE  ShellInv'
  <1>1. /\ children \in Seq(Child) /\ c \in 1..Len(children) /\ children[c] \in Child
        /\ ChildOK(children[c])
    BY DEF ShellInv, ShellTypeOK
  <1>2. PICK old \in Child : old = children[c] /\ ChildOK(old)
    BY <1>1
  <1>3. /\ old.cmd \in Words /\ old.fg \in BOOLEAN /\ old.at \in Nat /\ old.dirs \in Seq(Words)
        /\ Len(old.dirs) \in Nat /\ old.known \in Seq(Variables)
    BY <1>2 DEF Child
  <1>4. /\ old.dirs = SearchList(old.known, old.cmd)
        /\ old.at \in 1..(Len(old.dirs) + 1)
        /\ \A m \in 1..(old.at - 1) : <<old.dirs[m], old.cmd>> \notin Files
        /\ old.state = "search" => old.env = get_envp(old.known)
    BY <1>2 DEF ChildOK
  <1>5. CASE TryExec(c)
    <2>1. old.state = "search" /\ old.at <= Len(old.dirs)
      BY <1>2, <1>5 DEF TryExec
    <2>2. CASE <<old.dirs[old.at], old.cmd>> \in Files
      <3>1. PICK ch : ch = [old EXCEPT !.state = "program", !.ran = old.dirs[old.at],
                                       !.env = Received(old.env)]
        OBVIOUS
      <3>2. old.dirs[old.at] \in Words
        BY <1>3, <1>4, <2>1
      <3>3. Received(old.env) \in Seq(Variables \cup {Null})
        BY <1>3, <1>4, <2>1, ReceivedIs
      <3>4. ch \in Child
        BY <1>2, <3>1, <3>2, <3>3 DEF Child
      <3>5. /\ ch.state = "program" /\ ch.ran = old.dirs[old.at] /\ ch.env = Received(old.env)
            /\ ch.dirs = old.dirs /\ ch.cmd = old.cmd /\ ch.at = old.at /\ ch.known = old.known
            /\ ch.fg = old.fg
        BY <1>2, <3>1 DEF Child
      <3>6. ChildOK(ch)
        BY <1>4, <2>1, <2>2, <3>5 DEF ChildOK
      <3>7. children' = [children EXCEPT ![c] = ch]
        BY <1>1, <1>2, <1>5, <2>2, <3>1 DEF TryExec
      <3>8. UNCHANGED <<vars, pc, line, bg, status, envp_copy, told, waiting>>
        BY <1>5 DEF TryExec
      <3> QED BY <1>1, <1>2, <2>1, <3>4, <3>5, <3>6, <3>7, <3>8, ChildChange
    <2>3. CASE <<old.dirs[old.at], old.cmd>> \notin Files
      <3>1. PICK ch : ch = [old EXCEPT !.at = old.at + 1]
        OBVIOUS
      <3>2. ch \in Child
        <4>1. old.at + 1 \in Nat
          BY <1>3
        <4> QED BY <1>2, <3>1, <4>1 DEF Child
      <3>3. /\ ch.state = "search" /\ ch.env = old.env
            /\ ch.dirs = old.dirs /\ ch.cmd = old.cmd /\ ch.at = old.at + 1 /\ ch.known = old.known
            /\ ch.fg = old.fg
        BY <1>2, <2>1, <3>1 DEF Child
      <3>4. /\ ch.at \in 1..(Len(old.dirs) + 1)
            /\ \A m \in 1..(ch.at - 1) : m \in 1..(old.at - 1) \/ m = old.at
        BY <1>3, <1>4, <2>1, <3>3
      <3>5. \A m \in 1..(ch.at - 1) : <<old.dirs[m], old.cmd>> \notin Files
        BY <1>4, <2>3, <3>4
      <3>6. ChildOK(ch)
        BY <1>4, <2>1, <3>3, <3>4, <3>5 DEF ChildOK
      <3>7. children' = [children EXCEPT ![c] = ch]
        BY <1>1, <1>2, <1>5, <2>3, <3>1 DEF TryExec, TryNext
      <3>8. UNCHANGED <<vars, pc, line, bg, status, envp_copy, told, waiting>>
        BY <1>5 DEF TryExec
      <3> QED BY <1>1, <1>2, <2>1, <3>2, <3>3, <3>6, <3>7, <3>8, ChildChange
    <2> QED BY <2>2, <2>3
  <1>6. ASSUME NEW code \in ExitCodes \cup {0, NotFound}, old.state # "done", NotifyShell(c, code),
               children' = [children EXCEPT ![c].state = "done", ![c].code = code],
               UNCHANGED <<vars, pc, line, bg, status, envp_copy>>
        PROVE  ShellInv'
    <2>1. PICK ch : ch = [old EXCEPT !.state = "done", !.code = code]
      OBVIOUS
    <2>2. ch \in Child
      BY <1>2, <2>1 DEF Child
    <2>3. /\ ch.state = "done" /\ ch.code = code
          /\ ch.dirs = old.dirs /\ ch.cmd = old.cmd /\ ch.at = old.at /\ ch.known = old.known
          /\ ch.fg = old.fg
      BY <1>2, <2>1 DEF Child
    <2>4. ChildOK(ch)
      BY <1>4, <2>3 DEF ChildOK
    <2>5. children' = [children EXCEPT ![c] = ch]
      BY <1>1, <1>2, <1>6, <2>1
    <2> QED BY <1>1, <1>2, <1>6, <2>2, <2>3, <2>4, <2>5, ChildChange
  <1>7. CASE NotFoundExit(c)
    BY <1>2, <1>6, <1>7 DEF NotFoundExit
  <1>8. ASSUME NEW code \in ExitCodes, ChildEnds(c, code) PROVE ShellInv'
    BY <1>2, <1>6, <1>8 DEF ChildEnds
  <1> QED BY <1>5, <1>7, <1>8 DEF ChildStep

(* The invariant holds for any lines, variables and programs. *)
LEMMA ShellInvariant == Spec => []ShellInv
  <1>1. Init => ShellInv
    <2> SUFFICES ASSUME Init PROVE ShellInv
      OBVIOUS
    <2>1. vars \in Seq(Variables) /\ Named(vars, "PATH") # {}
      BY ParseTyped DEF Init
    <2>2. envp_copy \in [1..EnvSlots -> Variables \cup {Null}]
      BY DEF Init
    <2>3. children = <<>> /\ children \in Seq(Child) /\ Len(children) = 0
      BY DEF Init
    <2>4. ShellTypeOK
      BY <2>1, <2>2, <2>3 DEF Init, ShellTypeOK
    <2>5. CommandInv /\ WaitInv
      BY DEF Init, CommandInv, WaitInv, Nothing
    <2>6. 1..0 = {}
      OBVIOUS
    <2> QED BY <2>3, <2>4, <2>5, <2>6 DEF ShellInv
  <1>2. ShellInv /\ [Next]_shellVars => ShellInv'
    <2> SUFFICES ASSUME ShellInv, [Next]_shellVars PROVE ShellInv'
      OBVIOUS
    <2>1. CASE ShellStep
      BY <2>1, ShellSteps
    <2>2. ASSUME NEW c \in DOMAIN children, ChildStep(c) PROVE ShellInv'
      BY <2>2, ChildSteps
    <2>3. CASE UNCHANGED shellVars
      BY <2>3 DEF shellVars, ShellInv, ShellTypeOK, CommandInv, WaitInv, Newest, Named
    <2> QED BY <2>1, <2>2, <2>3 DEF Next, Over, Missed
  <1> QED BY <1>1, <1>2, PTL DEF Spec
-----------------------------------------------------------------------------
(* The status in the prompt is that of the command's own child, however the   *)
(* children's ends and the shell's wait4 are interleaved (do_command,         *)
(* notify_exit_pid).                                                         *)
THEOREM StatusOfTheCommandAlways == Spec => []StatusOfTheCommand
  <1>1. ShellInv => StatusOfTheCommand
    BY DEF ShellInv, CommandInv, Newest, StatusOfTheCommand
  <1> QED BY <1>1, ShellInvariant, PTL

(* SelectInSeq gives the first position, if there is one. *)
LEMMA FirstOf ==
    ASSUME NEW ch \in Child
    PROVE  LET found == SelectInSeq(ch.dirs, LAMBDA d : <<d, ch.cmd>> \in Files)
               I == {i \in 1..Len(ch.dirs) : <<ch.dirs[i], ch.cmd>> \in Files}
           IN  /\ I = {} => found = 0
               /\ I # {} => found \in I /\ \A i \in I : found <= i
  <1> DEFINE found == SelectInSeq(ch.dirs, LAMBDA d : <<d, ch.cmd>> \in Files)
             I == {i \in 1..Len(ch.dirs) : <<ch.dirs[i], ch.cmd>> \in Files}
  <1>1. found = IF I # {} THEN CHOOSE x \in I : \A y \in I : x <= y ELSE 0
    BY DEF SelectInSeq, Min
  <1>2. I \in SUBSET Nat
    BY DEF Child
  <1>3. I # {} => \E x \in I : \A y \in I : x <= y
    BY <1>2, Least
  <1> HIDE DEF found, I
  <1>4. I # {} => found \in I /\ \A i \in I : found <= i
    BY <1>1, <1>3
  <1>5. I = {} => found = 0
    BY <1>1
  <1> QED BY <1>4, <1>5 DEF found, I

(* A child runs the first program on the PATH the shell had when the command  *)
(* was given, for any files and any path (the execve loop of do_command).    *)
THEOREM FirstOnPathAlways == Spec => []FirstOnPath
  <1>1. ShellInv => FirstOnPath
    <2> SUFFICES ASSUME ShellInv, NEW c \in DOMAIN children
                 PROVE  LET ch == children[c]
                            path == SearchList(ch.known, ch.cmd)
                            found == SelectInSeq(path, LAMBDA d : <<d, ch.cmd>> \in Files)
                        IN  /\ ch.state = "program" => found # 0 /\ ch.ran = path[found]
                            /\ (ch.state = "search" /\ ch.at > Len(ch.dirs)) => found = 0
      BY DEF FirstOnPath
    <2>1. children[c] \in Child /\ ChildOK(children[c])
      BY DEF ShellInv, ShellTypeOK
    <2>2. PICK ch \in Child : ch = children[c] /\ ChildOK(ch)
      BY <2>1
    <2> DEFINE found == SelectInSeq(ch.dirs, LAMBDA d : <<d, ch.cmd>> \in Files)
               I == {i \in 1..Len(ch.dirs) : <<ch.dirs[i], ch.cmd>> \in Files}
    <2>3. (I = {} => found = 0) /\ (I # {} => found \in I /\ \A i \in I : found <= i)
      BY FirstOf
    <2>4. /\ ch.dirs = SearchList(ch.known, ch.cmd) /\ ch.at \in Nat /\ Len(ch.dirs) \in Nat
          /\ ch.at \in 1..(Len(ch.dirs) + 1)
          /\ \A m \in 1..(ch.at - 1) : <<ch.dirs[m], ch.cmd>> \notin Files
      BY <2>2 DEF ChildOK, Child
    <2>5. ASSUME ch.state = "program" PROVE found # 0 /\ ch.ran = ch.dirs[found]
      <3>1. ch.at <= Len(ch.dirs) /\ <<ch.dirs[ch.at], ch.cmd>> \in Files /\ ch.ran = ch.dirs[ch.at]
        BY <2>2, <2>5 DEF ChildOK
      <3>2. ch.at \in I
        BY <2>4, <3>1
      <3>3. \A i \in I : ~(i \in 1..(ch.at - 1)) /\ i \in Nat /\ i # 0
        BY <2>4
      <3> HIDE DEF I, found
      <3>4. found \in I /\ found <= ch.at /\ found \in Nat /\ found # 0 /\ ~(found \in 1..(ch.at - 1))
        BY <2>3, <3>2, <3>3
      <3>5. found = ch.at
        BY <2>4, <3>4
      <3> QED BY <3>1, <3>4, <3>5
    <2>6. ASSUME ch.state = "search", ch.at > Len(ch.dirs) PROVE found = 0
      <3>1. \A m \in 1..Len(ch.dirs) : m \in 1..(ch.at - 1)
        BY <2>4, <2>6
      <3>2. I = {}
        BY <2>4, <3>1
      <3> QED BY <2>3, <3>2
    <2> QED BY <2>2, <2>4, <2>5, <2>6
  <1> QED BY <1>1, ShellInvariant, PTL

(* A program reads exactly the shell's variables of the time its command was  *)
(* given, for any variables that leave a slot of envp_copy for the NULL.     *)
THEOREM EnvironmentArrivesAlways == Spec => []EnvironmentArrives
  <1>1. ShellInv => EnvironmentArrives
    <2> SUFFICES ASSUME ShellInv, NEW c \in DOMAIN children, children[c].state = "program",
                        Len(children[c].known) < EnvSlots
                 PROVE  children[c].env = children[c].known
      BY DEF EnvironmentArrives
    <2>0. children[c] \in Child /\ ChildOK(children[c])
      BY DEF ShellInv, ShellTypeOK
    <2>1. children[c].known \in Seq(Variables)
      BY <2>0 DEF Child
    <2>2. children[c].env = Received(get_envp(children[c].known))
      BY <2>0 DEF ChildOK
    <2>3. PICK vs \in Seq(Variables) : vs = children[c].known
      BY <2>1
    <2>4. Received(get_envp(vs)) = vs
      BY <2>3, ReceivedIs
    <2> QED BY <2>2, <2>3, <2>4
  <1> QED BY <1>1, ShellInvariant, PTL
-----------------------------------------------------------------------------
(* Paths.  Following one part of a path. *)
LEMMA FollowIs ==
    ASSUME NEW dir \in Seq(Names), NEW part \in Parts
    PROVE  /\ Follow(dir, part) \in Seq(Names)
           /\ part \in {"", "."} => Follow(dir, part) = dir
           /\ part = ".." => /\ dir = <<>> => Follow(dir, part) = <<>>
                             /\ dir # <<>> => /\ Len(Follow(dir, part)) = Len(dir) - 1
                                              /\ \A n \in 1..(Len(dir) - 1) : Follow(dir, part)[n] = dir[n]
           /\ part \in Names => Follow(dir, part) = Append(dir, part)
  <1>1. part \in Names => part \notin {"", ".", ".."}
    BY NamesAssumption
  <1>2. CASE part \in {"", "."}
    BY <1>1, <1>2 DEF Follow
  <1>3. CASE part = ".."
    <2>1. Follow(dir, part) = SubSeq(dir, 1, Len(dir) - 1)
      BY <1>3 DEF Follow
    <2>2. CASE dir = <<>>
      <3>1. SubSeq(dir, 1, Len(dir) - 1) = <<>>
        BY <2>2, SubSeqEmpty
      <3> QED BY <1>1, <1>3, <2>1, <2>2, <3>1
    <2>3. CASE dir # <<>>
      <3>1. PICK z \in Nat : z = Len(dir) - 1
        BY <2>3
      <3>2. \A n \in 1..z : dir[n] \in Names
        BY <3>1
      <3>3. /\ SubSeq(dir, 1, z) \in Seq(Names)
            /\ Len(SubSeq(dir, 1, z)) = IF 1 <= z THEN z - 1 + 1 ELSE 0
            /\ \A n \in 1..(z - 1 + 1) : SubSeq(dir, 1, z)[n] = dir[1 + n - 1]
        BY <3>2, SubSeqProperties
      <3>4. Len(SubSeq(dir, 1, z)) = z /\ \A n \in 1..z : SubSeq(dir, 1, z)[n] = dir[n]
        <4>1. PICK e : e = SubSeq(dir, 1, z)
          OBVIOUS
        <4>2. z - 1 + 1 = z /\ (\A n \in 1..z : 1 + n - 1 = n) /\ (z = 0 \/ 1 <= z)
          OBVIOUS
        <4>3. Len(e) = IF 1 <= z THEN z ELSE 0
          BY <3>3, <4>1, <4>2
        <4>4. \A n \in 1..z : e[n] = dir[n]
          BY <3>3, <4>1, <4>2
        <4> QED BY <4>1, <4>2, <4>3, <4>4
      <3> QED BY <1>1, <1>3, <2>1, <2>3, <3>1, <3>3, <3>4
    <2> QED BY <2>2, <2>3
  <1>4. CASE part \in Names
    <2>1. Follow(dir, part) = Append(dir, part)
      BY <1>1, <1>4 DEF Follow
    <2>2. Append(dir, part) \in Seq(Names)
      BY <1>4
    <2> QED BY <1>1, <1>4, <2>1, <2>2
  <1> QED BY <1>2, <1>3, <1>4 DEF Parts

(* The directories a path passes through, up to its n-th part. *)
Passed(path, n, g) == g = [k \in 0..n |-> IF k = 0 THEN <<>> ELSE Follow(g[k - 1], path[k])]

(* There are such, however long the path is. *)
LEMMA PassedExists ==
    ASSUME NEW path, NEW n \in Nat
    PROVE  \E g : Passed(path, n, g)
  <1>1. PICK Bad : Bad = {k \in Nat : ~\E g : Passed(path, k, g)}
    OBVIOUS
  <1>2. SUFFICES ASSUME Bad # {} PROVE FALSE
    BY <1>1
  <1>3. Bad \subseteq Nat
    BY <1>1
  <1>4. PICK m \in Bad : \A k \in Bad : m <= k
    BY <1>2, <1>3, Least
  <1>5. m \in Nat /\ ~\E g : Passed(path, m, g)
    BY <1>1
  <1>6. CASE m = 0
    <2>1. PICK g : g = [k \in 0..0 |-> <<>>]
      OBVIOUS
    <2>2. \A k \in 0..0 : g[k] = IF k = 0 THEN <<>> ELSE Follow(g[k - 1], path[k])
      BY <2>1
    <2>3. Passed(path, 0, g)
      BY <2>1, <2>2 DEF Passed
    <2> QED BY <1>5, <1>6, <2>3
  <1>7. CASE m # 0
    <2>1. m - 1 \in Nat /\ m - 1 \notin Bad
      BY <1>4, <1>5, <1>7
    <2>2. PICK h : Passed(path, m - 1, h)
      BY <1>1, <2>1
    <2>3. \A k \in 0..(m - 1) : h[k] = IF k = 0 THEN <<>> ELSE Follow(h[k - 1], path[k])
      BY <2>2 DEF Passed
    <2>4. PICK g : g = [k \in 0..m |-> IF k < m THEN h[k] ELSE Follow(h[m - 1], path[m])]
      OBVIOUS
    <2>5. ASSUME NEW k \in 0..m PROVE g[k] = IF k = 0 THEN <<>> ELSE Follow(g[k - 1], path[k])
      <3>1. k # 0 => k - 1 \in 0..m /\ k - 1 < m
        BY <1>5, <2>5
      <3>2. k # 0 => g[k - 1] = h[k - 1]
        BY <2>4, <3>1
      <3>3. CASE k = m
        BY <1>7, <2>4, <3>2, <3>3
      <3>4. CASE k # m
        <4>1. k \in 0..(m - 1) /\ k < m
          BY <1>5, <2>5, <3>4
        <4> QED BY <2>3, <2>4, <3>2, <4>1
      <3> QED BY <3>3, <3>4
    <2>6. Passed(path, m, g)
      BY <2>4, <2>5 DEF Passed
    <2> QED BY <1>5, <2>6
  <1> QED BY <1>6, <1>7

(* What following a path part by part comes to. *)
LEMMA FollowedIs ==
    ASSUME NEW path \in Seq(Parts)
    PROVE  /\ Followed(path)[0] = <<>>
           /\ \A n \in 1..Len(path) : Followed(path)[n] = Follow(Followed(path)[n - 1], path[n])
           /\ \A n \in 0..Len(path) : Followed(path)[n] \in Seq(Names)
  <1>1. PICK m \in Nat : m = Len(path)
    OBVIOUS
  <1>2. PICK g : Passed(path, m, g)
    BY PassedExists
  <1>3. Followed(path) = CHOOSE h : Passed(path, m, h)
    BY <1>1 DEF Followed, Passed
  <1>4. Passed(path, m, Followed(path))
    BY <1>2, <1>3
  <1>5. PICK f : f = Followed(path)
    OBVIOUS
  <1>6. \A k \in 0..m : f[k] = IF k = 0 THEN <<>> ELSE Follow(f[k - 1], path[k])
    BY <1>4, <1>5 DEF Passed
  <1>7. f[0] = <<>>
    <2>1. 0 \in 0..m
      OBVIOUS
    <2> QED BY <1>6, <2>1
  <1>8. \A n \in 1..m : f[n] = Follow(f[n - 1], path[n])
    BY <1>6
  <1>9. \A n \in 0..m : f[n] \in Seq(Names)
    <2>1. PICK Bad : Bad = {n \in 0..m : f[n] \notin Seq(Names)}
      OBVIOUS
    <2>2. SUFFICES ASSUME Bad # {} PROVE FALSE
      BY <2>1
    <2>3. Bad \subseteq Nat
      BY <2>1
    <2>4. PICK n \in Bad : \A k \in Bad : n <= k
      BY <2>2, <2>3, Least
    <2>5. n \in 0..m /\ f[n] \notin Seq(Names)
      BY <2>1
    <2>6. n # 0
      <3>1. <<>> \in Seq(Names)
        OBVIOUS
      <3> QED BY <1>7, <2>5, <3>1
    <2>7. n - 1 \in 0..m /\ n - 1 \notin Bad /\ n \in 1..m
      BY <2>4, <2>5, <2>6
    <2>8. f[n - 1] \in Seq(Names) /\ path[n] \in Parts
      BY <1>1, <2>1, <2>7
    <2> QED BY <1>8, <2>5, <2>7, <2>8, FollowIs
  <1> QED BY <1>1, <1>5, <1>7, <1>8, <1>9

(* What cleanup_path has done when it has taken c parts of its argument: the  *)
(* slots before the loop variable are the directory those parts lead to, the  *)
(* other parts follow, and behind them there are NULLs only, two at least.    *)
Taken(c) ==
    /\ c \in 0..Len(merged) /\ index \in 0..c
    /\ Len(Followed(merged)[c]) = index
    /\ \A s \in 0..(index - 1) : parts[s] = Followed(merged)[c][s + 1]
    /\ \A n \in 1..(Len(merged) - c) : parts[index + n - 1] = merged[c + n]
    /\ \A s \in Slots : s >= index + Len(merged) - c => parts[s] = NULL

Fits == Len(merged) <= PARTS - 2

PathTypeOK ==
    /\ wd \in Dirs /\ merged \in Seq(Parts) /\ failed \in BOOLEAN
    /\ phase \in {"user", "clean", "search"}
    /\ index \in Nat
    /\ DOMAIN parts = Slots

PathInv ==
    /\ PathTypeOK
    /\ phase = "clean" => ~IsSlash(merged)
    /\ phase = "clean" /\ Fits => \E c \in 0..Len(merged) : Taken(c)
    /\ CleanedMeansTheSame
    /\ phase = "user" /\ merged # <<>> /\ Fits =>
          IF failed THEN IsSlash(merged) \/ Meaning(merged) \notin Dirs
          ELSE wd = Meaning(merged)

(* The part the loop is at is the next one of the argument. *)
LEMMA LoopAt ==
    ASSUME PathTypeOK, Fits, NEW c, Taken(c)
    PROVE  /\ Followed(merged)[c] \in Seq(Names)
           /\ index \in Nat /\ c \in Nat /\ Len(merged) \in Nat /\ index <= c /\ c <= Len(merged)
           /\ PARTS \in Nat /\ Len(merged) <= PARTS - 2
           /\ index \in Slots /\ Slots = 0..(PARTS - 1)
           /\ c = Len(merged) => parts[index] = NULL
           /\ c # Len(merged) =>
                 /\ c + 1 \in 0..Len(merged)
                 /\ parts[index] = merged[c + 1] /\ parts[index] \in Parts /\ parts[index] # NULL
                 /\ Followed(merged)[c + 1] = Follow(Followed(merged)[c], parts[index])
  <1>1. /\ index \in Nat /\ c \in Nat /\ Len(merged) \in Nat /\ index <= c /\ c <= Len(merged)
        /\ PARTS \in Nat /\ Len(merged) <= PARTS - 2 /\ c \in 0..Len(merged)
        /\ merged \in Seq(Parts)
    BY PartsAssumption DEF PathTypeOK, Taken, Fits
  <1>2. index \in Slots /\ Slots = 0..(PARTS - 1)
    BY <1>1 DEF Slots
  <1>3. Followed(merged)[c] \in Seq(Names)
    BY <1>1, FollowedIs
  <1>4. c = Len(merged) => parts[index] = NULL
    <2>1. c = Len(merged) => index >= index + Len(merged) - c
      BY <1>1
    <2> QED BY <1>2, <2>1 DEF Taken
  <1>5. ASSUME c # Len(merged)
        PROVE  /\ c + 1 \in 0..Len(merged)
               /\ parts[index] = merged[c + 1] /\ parts[index] \in Parts /\ parts[index] # NULL
               /\ Followed(merged)[c + 1] = Follow(Followed(merged)[c], parts[index])
    <2>1. c + 1 \in 0..Len(merged) /\ c + 1 \in 1..Len(merged) /\ (c + 1) - 1 = c
          /\ 1 \in 1..(Len(merged) - c) /\ index + 1 - 1 = index
      BY <1>1, <1>5
    <2>2. parts[index + 1 - 1] = merged[c + 1]
      BY <2>1 DEF Taken
    <2>3. parts[index] = merged[c + 1]
      BY <2>1, <2>2
    <2>4. merged[c + 1] \in Parts
      BY <1>1, <2>1
    <2>5. NULL \notin Parts
      BY NamesAssumption DEF Parts, NULL
    <2>6. Followed(merged)[c + 1] = Follow(Followed(merged)[(c + 1) - 1], merged[c + 1])
      BY <1>1, <2>1, FollowedIs
    <2> QED BY <2>1, <2>3, <2>4, <2>5, <2>6
  <1> QED BY <1>1, <1>2, <1>3, <1>4, <1>5

(* One turn of the loop takes one part. *)
LEMMA LoopTakes ==
    ASSUME PathTypeOK, Fits, NEW c, Taken(c),
           CleanDot \/ CleanUpAtRoot \/ CleanUp \/ CleanName
    PROVE  Taken(c + 1)'
  <1>1. InLoop /\ merged' = merged
    BY DEF CleanDot, CleanUpAtRoot, CleanUp, CleanName, pathVars
  <1>2. c # Len(merged)
    BY <1>1, LoopAt DEF InLoop
  <1>3. PICK d, e, L, x : /\ d = Followed(merged)[c] /\ e = Followed(merged)[c + 1]
                          /\ L = Len(merged) /\ x = parts[index]
    OBVIOUS
  <1>4. /\ index \in Nat /\ c \in Nat /\ L \in Nat /\ PARTS \in Nat
        /\ index <= c /\ c + 1 <= L /\ L <= PARTS - 2
        /\ Slots = 0..(PARTS - 1) /\ index \in Slots
        /\ d \in Seq(Names) /\ x \in Parts /\ e = Follow(d, x)
    <2>1. /\ index \in Nat /\ c \in Nat /\ L \in Nat /\ PARTS \in Nat /\ index <= c /\ c <= L /\ L <= PARTS - 2
          /\ Slots = 0..(PARTS - 1) /\ index \in Slots
          /\ d \in Seq(Names) /\ x \in Parts /\ e = Follow(d, x)
      BY <1>2, <1>3, LoopAt
    <2> QED BY <1>2, <1>3, <2>1
  <1>5. /\ Len(d) = index
        /\ \A s \in 0..(index - 1) : parts[s] = d[s + 1]
        /\ \A n \in 1..(L - c) : parts[index + n - 1] = merged[c + n]
        /\ \A s \in Slots : s >= index + L - c => parts[s] = NULL
    BY <1>3 DEF Taken
  <1>6. SUFFICES /\ index' \in 0..(c + 1)
                 /\ Len(e) = index'
                 /\ \A s \in 0..(index' - 1) : parts'[s] = e[s + 1]
                 /\ \A n \in 1..(L - (c + 1)) : parts'[index' + n - 1] = merged[(c + 1) + n]
                 /\ \A s \in Slots : s >= index' + L - (c + 1) => parts'[s] = NULL
    <2>1. c + 1 \in 0..L
      BY <1>4
    <2>2. Slots' = Slots /\ NULL' = NULL
      BY DEF Slots, NULL
    <2> QED BY <1>1, <1>3, <2>1, <2>2 DEF Taken
  <1>7. \A n \in 1..(L - (c + 1)) : n + 1 \in 1..(L - c) /\ index + (n + 1) - 1 = index + n
                                    /\ c + (n + 1) = (c + 1) + n /\ index + n \in Slots /\ index + n >= index
    BY <1>4
  <1>8. \A n \in 1..(L - (c + 1)) : parts[index + n] = merged[(c + 1) + n]
    BY <1>5, <1>7
  <1>9. CASE e = d /\ parts' = Shift(index, 1) /\ index' = index
    <2>1. \A s \in Slots : parts'[s] = IF s >= index /\ s + 1 < PARTS THEN parts[s + 1] ELSE parts[s]
      BY <1>9 DEF Shift
    <2>2. \A s \in 0..(index - 1) : parts'[s] = d[s + 1]
      <3>1. \A s \in 0..(index - 1) : s \in Slots /\ ~(s >= index)
        BY <1>4
      <3> QED BY <1>5, <2>1, <3>1
    <2>3. ASSUME NEW n \in 1..(L - (c + 1)) PROVE parts'[index + n - 1] = merged[(c + 1) + n]
      <3>1. index + n - 1 \in Slots /\ index + n - 1 >= index /\ (index + n - 1) + 1 < PARTS
            /\ (index + n - 1) + 1 = index + n
        BY <1>4, <2>3
      <3> QED BY <1>8, <2>1, <2>3, <3>1
    <2>4. ASSUME NEW s \in Slots, s >= index + L - (c + 1) PROVE parts'[s] = NULL
      <3>1. s \in Nat /\ s >= index
        BY <1>4, <2>4
      <3>2. CASE s + 1 < PARTS
        <4>1. s + 1 \in Slots /\ s + 1 >= index + L - c
          BY <1>4, <2>4, <3>2
        <4> QED BY <1>5, <2>1, <3>1, <3>2, <4>1
      <3>3. CASE ~(s + 1 < PARTS)
        <4>1. s >= index + L - c
          BY <1>4, <2>4, <3>1, <3>3
        <4> QED BY <1>5, <2>1, <3>3, <4>1
      <3> QED BY <3>2, <3>3
    <2>5. index \in 0..(c + 1)
      BY <1>4
    <2> QED BY <1>5, <1>9, <2>2, <2>3, <2>4, <2>5
  <1>10. CASE CleanDot
    <2>1. e = d
      BY <1>3, <1>4, <1>10, FollowIs DEF CleanDot
    <2> QED BY <1>9, <1>10, <2>1 DEF CleanDot
  <1>11. CASE CleanUpAtRoot
    <2>1. d = <<>>
      BY <1>4, <1>5, <1>11 DEF CleanUpAtRoot
    <2>2. e = d
      BY <1>3, <1>4, <1>11, <2>1, FollowIs DEF CleanUpAtRoot
    <2> QED BY <1>9, <1>11, <2>2 DEF CleanUpAtRoot
  <1>12. CASE CleanUp
    <2>1. index > 0 /\ index' = index - 1 /\ parts' = Shift(index - 1, 2) /\ x = ".."
      BY <1>3, <1>12 DEF CleanUp
    <2>2. d # <<>>
      BY <1>4, <1>5, <2>1
    <2>3. Len(e) = index - 1 /\ \A n \in 1..(index - 1) : e[n] = d[n]
      BY <1>4, <1>5, <2>1, <2>2, FollowIs
    <2>4. \A s \in Slots : parts'[s] = IF s >= index - 1 /\ s + 2 < PARTS THEN parts[s + 2] ELSE parts[s]
      BY <2>1 DEF Shift
    <2>5. \A s \in 0..(index - 1 - 1) : parts'[s] = e[s + 1]
      <3>1. \A s \in 0..(index - 1 - 1) : s \in Slots /\ ~(s >= index - 1) /\ s \in 0..(index - 1)
                                          /\ s + 1 \in 1..(index - 1)
        BY <1>4
      <3> QED BY <1>5, <2>3, <2>4, <3>1
    <2>6. ASSUME NEW n \in 1..(L - (c + 1)) PROVE parts'[index - 1 + n - 1] = merged[(c + 1) + n]
      <3>1. index - 1 + n - 1 \in Slots /\ index - 1 + n - 1 >= index - 1
            /\ (index - 1 + n - 1) + 2 < PARTS /\ (index - 1 + n - 1) + 2 = index + n
        BY <1>4, <2>1, <2>6
      <3> QED BY <1>8, <2>4, <2>6, <3>1
    <2>7. ASSUME NEW s \in Slots, s >= index - 1 + L - (c + 1) PROVE parts'[s] = NULL
      <3>1. s \in Nat /\ s >= index - 1
        BY <1>4, <2>7
      <3>2. CASE s + 2 < PARTS
        <4>1. s + 2 \in Slots /\ s + 2 >= index + L - c
          BY <1>4, <2>7, <3>2
        <4> QED BY <1>5, <2>4, <3>1, <3>2, <4>1
      <3>3. CASE ~(s + 2 < PARTS)
        <4>1. s >= index + L - c
          BY <1>4, <2>7, <3>1, <3>3
        <4> QED BY <1>5, <2>4, <3>3, <4>1
      <3> QED BY <3>2, <3>3
    <2>8. index - 1 \in 0..(c + 1)
      BY <1>4, <2>1
    <2> QED BY <2>1, <2>3, <2>5, <2>6, <2>7, <2>8
  <1>13. CASE CleanName
    <2>1. index' = index + 1 /\ parts' = parts /\ x \in Names
      BY <1>3, <1>13 DEF CleanName
    <2>2. e = Append(d, x)
      BY <1>4, <2>1, FollowIs
    <2>3. /\ Len(e) = index + 1 /\ e[index + 1] = x
          /\ \A n \in 1..index : e[n] = d[n]
      BY <1>4, <1>5, <2>2
    <2>4. ASSUME NEW s \in 0..(index + 1 - 1) PROVE parts[s] = e[s + 1]
      <3>1. CASE s = index
        BY <1>3, <2>3, <3>1
      <3>2. CASE s # index
        <4>1. s \in 0..(index - 1) /\ s + 1 \in 1..index
          BY <1>4, <2>4, <3>2
        <4> QED BY <1>5, <2>3, <4>1
      <3> QED BY <3>1, <3>2
    <2>5. \A n \in 1..(L - (c + 1)) : parts[index + 1 + n - 1] = merged[(c + 1) + n]
      <3>1. \A n \in 1..(L - (c + 1)) : index + 1 + n - 1 = index + n
        BY <1>4
      <3> QED BY <1>8, <3>1
    <2>6. ASSUME NEW s \in Slots, s >= index + 1 + L - (c + 1) PROVE parts[s] = NULL
      <3>1. s >= index + L - c
        BY <1>4, <2>6
      <3> QED BY <1>5, <3>1
    <2>7. index + 1 \in 0..(c + 1)
      BY <1>4
    <2>8. \A s \in 0..(index' - 1) : parts'[s] = e[s + 1]
      BY <1>4, <2>1, <2>4
    <2>9. \A n \in 1..(L - (c + 1)) : parts'[index' + n - 1] = merged[(c + 1) + n]
      BY <1>4, <2>1, <2>5
    <2>10. \A s \in Slots : s >= index' + L - (c + 1) => parts'[s] = NULL
      BY <1>4, <2>1, <2>6
    <2> QED BY <2>1, <2>3, <2>7, <2>8, <2>9, <2>10
  <1> QED BY <1>10, <1>11, <1>12, <1>13

(* When the loop ends, the slots before the first NULL are what the path      *)
(* means.                                                                    *)
LEMMA CleanedIs ==
    ASSUME PathTypeOK, Fits, NEW c, Taken(c), ~(index < PARTS /\ parts[index] # NULL)
    PROVE  Cleaned = Meaning(merged)
  <1>1. /\ index \in Nat /\ c = Len(merged) /\ PARTS \in Nat /\ index < PARTS /\ parts[index] = NULL
        /\ Followed(merged)[c] \in Seq(Names)
    <2>1. index \in Nat /\ Len(merged) \in Nat /\ c \in Nat /\ PARTS \in Nat
          /\ index <= c /\ c <= Len(merged) /\ Len(merged) <= PARTS - 2
      BY LoopAt
    <2>2. index < PARTS
      BY <2>1
    <2> QED BY <2>1, <2>2, LoopAt
  <1>2. PICK d \in Seq(Names) : d = Followed(merged)[c]
    BY <1>1
  <1>3. Len(d) = index /\ \A s \in 0..(index - 1) : parts[s] = d[s + 1]
    BY <1>2 DEF Taken
  <1>4. \A s \in 0..(index - 1) : parts[s] # NULL
    <2>1. NULL \notin Names
      BY NamesAssumption DEF NULL
    <2>2. \A s \in 0..(index - 1) : s + 1 \in 1..Len(d)
      BY <1>1, <1>3
    <2>3. \A s \in 0..(index - 1) : d[s + 1] \in Names
      BY <2>2
    <2> QED BY <1>3, <2>1, <2>3
  <1>5. \A n \in 0..PARTS :
           (n < PARTS => parts[n] = NULL) /\ (\A s \in 0..(n - 1) : parts[s] # NULL) <=> n = index
    <2> SUFFICES ASSUME NEW n \in 0..PARTS
                 PROVE  (n < PARTS => parts[n] = NULL) /\ (\A s \in 0..(n - 1) : parts[s] # NULL) <=> n = index
      OBVIOUS
    <2>1. CASE n < index
      <3>1. n \in 0..(index - 1) /\ n < PARTS
        BY <1>1, <2>1
      <3> QED BY <1>4, <2>1, <3>1
    <2>2. CASE n > index
      <3>1. index \in 0..(n - 1)
        BY <1>1, <2>2
      <3> QED BY <1>1, <2>2, <3>1
    <2>3. CASE n = index
      BY <1>1, <1>4, <2>3
    <2> QED BY <1>1, <2>1, <2>2, <2>3
  <1>6. index \in 0..PARTS
    BY <1>1
  <1>7. Cleaned = [k \in 1..index |-> parts[k - 1]]
    BY <1>5, <1>6 DEF Cleaned
  <1>8. d = [k \in 1..index |-> d[k]]
    BY <1>3
  <1>9. \A k \in 1..index : parts[k - 1] = d[k]
    <2>1. \A k \in 1..index : k - 1 \in 0..(index - 1) /\ (k - 1) + 1 = k
      BY <1>1
    <2> QED BY <1>3, <2>1
  <1>10. Cleaned = d
    BY <1>7, <1>8, <1>9
  <1> QED BY <1>1, <1>2, <1>10 DEF Meaning

(* What path_merge passes on is a path. *)
LEMMA MergedIs ==
    ASSUME wd \in Dirs, NEW absolute \in BOOLEAN, NEW relative \in Relatives
    PROVE  path_merge(absolute, relative) \in Seq(Parts) /\ path_merge(absolute, relative) # <<>>
  <1>1. PICK n \in Nat : relative \in [1..n -> Parts]
    BY PartsAssumption DEF Relatives
  <1>2. relative \in Seq(Parts) /\ Undotted(relative) \in Seq(Parts)
    <2>1. relative \in Seq(Parts)
      BY <1>1
    <2>2. Len(relative) > 1 => Tail(relative) \in Seq(Parts)
      BY <2>1
    <2> QED BY <2>1, <2>2 DEF Undotted
  <1>3. wd \in Seq(Parts)
    <2>1. wd \in Seq(Names) /\ Names \subseteq Parts
      BY DirsAssumption DEF Parts
    <2> QED BY <2>1, SeqMonotonic
  <1>4. PICK first \in Seq(Parts) : first = <<"">> /\ Len(first) > 0
    <2>1. "" \in Parts
      BY DEF Parts
    <2>2. PICK x \in Parts : x = ""
      BY <2>1
    <2>3. <<x>> \in Seq(Parts) /\ Len(<<x>>) = 1 /\ 1 > 0
      OBVIOUS
    <2> QED BY <2>2, <2>3
  <1>5. \A s, t \in Seq(Parts) : s \o t \in Seq(Parts) /\ Len(s \o t) = Len(s) + Len(t)
    BY ConcatProperties
  <1>6. path_merge(absolute, relative) = IF absolute THEN first \o relative ELSE first \o wd \o Undotted(relative)
    BY <1>4 DEF path_merge
  <1>7. ASSUME NEW s \in Seq(Parts), Len(s) > 0, NEW t \in Seq(Parts)
        PROVE  s \o t \in Seq(Parts) /\ s \o t # <<>> /\ Len(s \o t) > 0
    <2>1. Len(s \o t) = Len(s) + Len(t) /\ Len(t) \in Nat /\ Len(s) \in Nat /\ s \o t \in Seq(Parts)
      BY <1>5
    <2>2. Len(s \o t) > 0
      BY <1>7, <2>1
    <2>3. Len(<<>>) = 0
      OBVIOUS
    <2> QED BY <2>1, <2>2, <2>3
  <1>8. first \o wd \in Seq(Parts) /\ Len(first \o wd) > 0
    BY <1>3, <1>4, <1>7
  <1>9. PICK both \in Seq(Parts) : both = first \o wd /\ Len(both) > 0
    BY <1>8
  <1>10. both \o Undotted(relative) \in Seq(Parts) /\ both \o Undotted(relative) # <<>>
    BY <1>2, <1>7, <1>9
  <1>11. first \o relative \in Seq(Parts) /\ first \o relative # <<>>
    BY <1>2, <1>4, <1>7
  <1> QED BY ONLY <1>6, <1>9, <1>10, <1>11

(* The invariant of do_chdir. *)
LEMMA PathInvariant == PathSpec => []PathInv
  <1>1. PathInit => PathInv
    <2>1. ASSUME PathInit PROVE PathInv
      <3>1. wd = <<>> /\ phase = "user" /\ merged = <<>> /\ index = 0 /\ failed = FALSE
            /\ parts = [s \in Slots |-> NULL]
        BY <2>1 DEF PathInit
      <3>2. <<>> \in Seq(Parts) /\ <<>> \in Dirs
        BY DirsAssumption
      <3>3. PathTypeOK
        BY <3>1, <3>2 DEF PathTypeOK
      <3> QED BY <3>1, <3>3 DEF PathInv, CleanedMeansTheSame
    <2> QED BY <2>1
  <1>2. PathInv /\ [PathNext]_pathVars => PathInv'
    <2> SUFFICES ASSUME PathInv, [PathNext]_pathVars PROVE PathInv'
      OBVIOUS
    <2>1. /\ PathTypeOK /\ CleanedMeansTheSame
          /\ phase = "clean" => ~IsSlash(merged)
          /\ phase = "clean" /\ Fits => \E c \in 0..Len(merged) : Taken(c)
      BY DEF PathInv
    <2>2. ASSUME NEW absolute \in BOOLEAN, NEW relative \in Relatives, do_chdir(absolute, relative)
          PROVE  PathInv'
      <3>1. PICK path : path = path_merge(absolute, relative)
        OBVIOUS
      <3>2. path \in Seq(Parts) /\ path # <<>>
        BY <2>1, <3>1, MergedIs DEF PathTypeOK
      <3>3. /\ merged' = path /\ index' = 0 /\ failed' = FALSE /\ wd' = wd
            /\ parts' = [s \in Slots |-> IF s < Len(path) THEN path[s + 1] ELSE NULL]
            /\ phase' = IF IsSlash(path) THEN "search" ELSE "clean"
        BY <2>2, <3>1 DEF do_chdir
      <3>4. PathTypeOK'
        BY <2>1, <3>2, <3>3 DEF PathTypeOK, Slots, Parts
      <3>5. IsSlash(merged)' <=> IsSlash(path)
        BY <3>3 DEF IsSlash
      <3>6. ASSUME Fits' PROVE Taken(0)'
        <4>1. Len(path) \in Nat /\ Len(path) <= PARTS - 2 /\ PARTS \in Nat /\ Slots = 0..(PARTS - 1)
          BY <3>2, <3>3, <3>6, PartsAssumption DEF Fits, Slots
        <4>2. Followed(path)[0] = <<>>
          BY <3>2, FollowedIs
        <4>3. \A n \in 1..(Len(path) - 0) : parts'[0 + n - 1] = path[0 + n]
          <5>1. \A n \in 1..(Len(path) - 0) : 0 + n - 1 \in Slots /\ 0 + n - 1 < Len(path)
                                              /\ (0 + n - 1) + 1 = 0 + n
            BY <4>1
          <5> QED BY <3>3, <5>1
        <4>4. \A s \in Slots : s >= 0 + Len(path) - 0 => parts'[s] = NULL
          <5>1. \A s \in Slots : s >= 0 + Len(path) - 0 => ~(s < Len(path))
            BY <4>1
          <5> QED BY <3>3, <5>1
        <4>5. Slots' = Slots /\ NULL' = NULL /\ 0 \in 0..Len(path) /\ 0 \in 0..0 /\ Len(<<>>) = 0
              /\ ~\E s \in 0..(0 - 1) : TRUE
          BY <4>1 DEF Slots, NULL
        <4> QED BY <3>3, <4>2, <4>3, <4>4, <4>5 DEF Taken
      <3>7. Fits' => \E c \in 0..Len(merged)' : Taken(c)'
        <4>1. 0 \in 0..Len(merged)'
          BY <3>2, <3>3
        <4> QED BY <3>6, <4>1
      <3>8. CleanedMeansTheSame'
        BY <3>3, <3>5 DEF CleanedMeansTheSame
      <3> QED BY <3>3, <3>4, <3>5, <3>7, <3>8 DEF PathInv
    <2>3. ASSUME CleanDot \/ CleanUpAtRoot \/ CleanUp \/ CleanName PROVE PathInv'
      <3>1. /\ UNCHANGED <<wd, phase, merged, failed>> /\ phase = "clean" /\ index \in Nat
            /\ DOMAIN parts = Slots
        BY <2>1, <2>3 DEF CleanDot, CleanUpAtRoot, CleanUp, CleanName, InLoop, PathTypeOK
      <3>2. DOMAIN parts' = Slots /\ index' \in Nat
        <4>1. \A s, n : DOMAIN Shift(s, n) = Slots
          BY DEF Shift
        <4>2. CASE CleanDot
          BY <3>1, <4>1, <4>2 DEF CleanDot
        <4>3. CASE CleanUpAtRoot
          BY <3>1, <4>1, <4>3 DEF CleanUpAtRoot
        <4>4. CASE CleanUp
          <5>1. index > 0 /\ index' = index - 1 /\ parts' = Shift(index - 1, 2)
            BY <4>4 DEF CleanUp
          <5>2. index - 1 \in Nat
            BY <3>1, <5>1
          <5> QED BY <4>1, <5>1, <5>2
        <4>5. CASE CleanName
          BY <3>1, <4>5 DEF CleanName
        <4> QED BY <2>3, <4>2, <4>3, <4>4, <4>5
      <3>3. PathTypeOK'
        BY <2>1, <3>1, <3>2 DEF PathTypeOK, Slots, Parts
      <3>4. ASSUME Fits PROVE \E c \in 0..Len(merged) : Taken(c)'
        <4>1. PICK c \in 0..Len(merged) : Taken(c)
          BY <2>1, <3>1, <3>4
        <4>2. Taken(c + 1)'
          BY <2>1, <2>3, <3>4, <4>1, LoopTakes
        <4>3. InLoop
          BY <2>3 DEF CleanDot, CleanUpAtRoot, CleanUp, CleanName
        <4>4. c + 1 \in 0..Len(merged)
          BY <2>1, <3>4, <4>1, <4>3, LoopAt DEF InLoop
        <4> QED BY <4>2, <4>4
      <3>5. (Fits' <=> Fits) /\ (IsSlash(merged)' <=> IsSlash(merged))
        BY <3>1 DEF Fits, IsSlash
      <3>6. CleanedMeansTheSame'
        BY <3>1 DEF CleanedMeansTheSame
      <3> QED BY <2>1, <3>1, <3>3, <3>4, <3>5, <3>6 DEF PathInv
    <2>4. CASE CleanDone
      <3>1. UNCHANGED <<wd, merged, parts, index, failed>> /\ phase = "clean" /\ phase' = "search"
            /\ ~(index < PARTS /\ parts[index] # NULL)
        BY <2>4 DEF CleanDone, InLoop
      <3>2. PathTypeOK'
        BY <2>1, <3>1 DEF PathTypeOK, Slots, Parts
      <3>3. Cleaned' = Cleaned /\ Meaning(merged)' = Meaning(merged)
        BY <3>1 DEF Cleaned, NULL, Meaning, Followed, Follow
      <3>4. CleanedMeansTheSame'
        <4>1. Fits => Cleaned = Meaning(merged)
          BY <2>1, <3>1, CleanedIs
        <4> QED BY <3>1, <3>3, <4>1 DEF CleanedMeansTheSame, Fits
      <3> QED BY <3>1, <3>2, <3>4 DEF PathInv
    <2>5. CASE Search
      <3>1. /\ UNCHANGED <<merged, parts, index>> /\ phase = "search" /\ phase' = "user"
            /\ IF ~IsSlash(merged) /\ Cleaned \in Dirs
               THEN wd' = Cleaned /\ failed' = FALSE
               ELSE wd' = wd /\ failed' = TRUE
        BY <2>5 DEF Search
      <3>2. PathTypeOK'
        BY <2>1, <3>1 DEF PathTypeOK, Slots, Parts
      <3>3. /\ Meaning(merged)' = Meaning(merged) /\ (Fits' <=> Fits)
            /\ IsSlash(merged)' <=> IsSlash(merged)
        BY <3>1 DEF Meaning, Followed, Follow, Fits, IsSlash
      <3>4. Fits /\ ~IsSlash(merged) => Cleaned = Meaning(merged)
        BY <2>1, <3>1 DEF CleanedMeansTheSame, Fits
      <3>5. Fits => IF failed' THEN IsSlash(merged) \/ Meaning(merged) \notin Dirs
                    ELSE wd' = Meaning(merged)
        BY <3>1, <3>4
      <3>6. CleanedMeansTheSame'
        BY <3>1 DEF CleanedMeansTheSame
      <3> QED BY <3>1, <3>2, <3>3, <3>5, <3>6 DEF PathInv
    <2>6. CASE UNCHANGED pathVars
      <3>1. UNCHANGED <<wd, phase, merged, parts, index, failed>>
        BY <2>6 DEF pathVars
      <3>2. PathTypeOK'
        BY <2>1, <3>1 DEF PathTypeOK, Slots, Parts
      <3>3. /\ Meaning(merged)' = Meaning(merged) /\ (Fits' <=> Fits)
            /\ IsSlash(merged)' <=> IsSlash(merged)
            /\ Cleaned' = Cleaned
            /\ Followed(merged)' = Followed(merged)
        BY <3>1 DEF Meaning, Followed, Follow, Fits, IsSlash, Cleaned, NULL
      <3>4. \A c : Taken(c)' <=> Taken(c)
        BY <3>1, <3>3 DEF Taken, Slots, NULL
      <3>5. CleanedMeansTheSame'
        BY <2>1, <3>1, <3>3 DEF CleanedMeansTheSame
      <3> QED BY <2>1, <3>1, <3>2, <3>3, <3>4, <3>5 DEF PathInv
    <2> QED BY <2>2, <2>3, <2>4, <2>5, <2>6 DEF PathNext, Loop
  <1> QED BY <1>1, <1>2, PTL DEF PathSpec

(* CleanedMeansTheSame: cleanup_path, which edits its array of parts in       *)
(* place, yields the names its argument means, for every path and any size   *)
(* of the array, as long as two slots stay free.                             *)
THEOREM CleanedMeansTheSameAlways == PathSpec => []CleanedMeansTheSame
  BY PathInvariant, PTL DEF PathInv

(* ChdirAnswers: do_chdir enters the directory its path means or none; a      *)
(* failure means that there is none, but for "/" itself.                     *)
THEOREM ChdirAnswersAlways == PathSpec => []ChdirAnswers
  <1>1. PathInv => ChdirAnswers
    BY DEF PathInv, PathTypeOK, ChdirAnswers, Fits
  <1> QED BY <1>1, PathInvariant, PTL
=============================================================================
