------------------------------- MODULE Shell -------------------------------
(***************************************************************************)
(* The shell bin/sbush: its command loop and builtins (sbushell.c), its      *)
(* table of variables and the environment it hands to programs (envutil.c),  *)
(* and the children it forks, which look for their program along PATH by     *)
(* themselves.  Children run concurrently with the shell.                    *)
(*                                                                         *)
(* Of the kernel only wait4, exit and kill are visible here, as              *)
(* systemcall.c has them: an exit is told to whoever is waiting already and  *)
(* remembered for nobody.  A value is the sequence of parts strsplit makes   *)
(* of it at ':'.                                                             *)
(***************************************************************************)
EXTENDS Integers, Sequences, SequencesExt

CONSTANTS
    Words,      \* names of variables, commands and directories, parts of values
    Lines,      \* what may be typed: records, see below
    Envs,       \* the environments the shell may be started with
    Defaults,   \* what parse_envp gives PS1, PATH and USER when they are missing
    Files,      \* pairs of a directory and a name: the binaries there are
    Direct,     \* command names that start with '.' or '/'
    ExitCodes,  \* what programs exit with, or are killed with
    EnvSlots,   \* slots of envp_copy
    MaxLines    \* bound: lines typed

(* Variables, among which the NULL that ends an environment is not, and the   *)
(* kinds of line.                                                            *)
Null == [name |-> "", val |-> <<>>]
Variables == [name : Words, val : Seq(Words)] \ {Null}
Kinds == {"cd", "exit", "assign", "run", "eof"}

ASSUME WordsAssumption == {"", "PS1", "PATH", "USER"} \subseteq Words
ASSUME ShellAssumption ==
    /\ \A ln \in Lines :
          /\ ln.kind \in Kinds
          /\ ln.kind = "assign" => [name |-> ln.name, val |-> ln.val] \in Variables
          /\ ln.kind = "run" => ln.cmd \in Words /\ ln.bg \in BOOLEAN
    /\ Envs \subseteq Seq(Variables)
    /\ Defaults \in [{"PS1", "PATH", "USER"} -> Seq(Words)]
    /\ EnvSlots \in Nat /\ EnvSlots > 3
    /\ MaxLines \in Nat

NotFound == 1                           \* exit(1) of a child without a program
NoChild == 0

VARIABLES
    vars,       \* the list at head -> next: the variables
    pc,         \* where main() and do_command() are
    line,       \* the command being executed
    bg,         \* the flag of the same name
    status,     \* last_command_status
    envp_copy,  \* the array get_envp fills
    overrun,    \* get_envp wrote past the array
    children,   \* every child forked so far, oldest first
    waiting,    \* the child wait4 is registered for
    told,       \* exit_notify_status once it has come: a sequence of at most one
    typed       \* lines typed

shellVars == <<vars, pc, line, bg, status, envp_copy, overrun, children,
               waiting, told, typed>>

Nothing == [kind |-> "eof"]
-----------------------------------------------------------------------------
(* The variable list. *)
Named(vs, n) == {i \in DOMAIN vs : vs[i].name = n}

(* var_find: the first with that name. *)
var_find(vs, n) == CHOOSE i \in Named(vs, n) : \A j \in Named(vs, n) : i <= j

(* var_set: a known variable gets the value, an unknown one is added. *)
var_set(vs, n, x) ==
    IF Named(vs, n) = {} THEN Append(vs, [name |-> n, val |-> x])
    ELSE [vs EXCEPT ![var_find(vs, n)].val = x]

(* parse_envp: what was passed, then the defaults for what is missing. *)
Default(env, n) ==
    IF Named(env, n) = {} THEN <<[name |-> n, val |-> Defaults[n]]>> ELSE <<>>
parse_envp(env) == env \o Default(env, "PS1") \o Default(env, "PATH") \o Default(env, "USER")

get_path(vs) == vs[var_find(vs, "PATH")].val

(* Variant: the loop ends at the last variable instead of after it. *)
M_get_envp_short(vs) == [i \in 1..EnvSlots |-> IF i < Len(vs) THEN vs[i] ELSE Null]

(* get_envp: NULL everywhere, then one slot per variable.  Nothing stops it  *)
(* at the end of the array.                                                  *)
get_envp(vs) == [i \in 1..EnvSlots |-> IF i <= Len(vs) THEN vs[i] ELSE Null]

(* What a program reads: everything before the first NULL. *)
UpToNull(env) == SelectInSeq(env, LAMBDA e : e = Null)
Received(env) == IF UpToNull(env) = 0 THEN env ELSE SubSeq(env, 1, UpToNull(env) - 1)
-----------------------------------------------------------------------------
Init ==
    /\ \E env \in Envs : vars = parse_envp(env)
    /\ pc = "prompt"
    /\ line = Nothing
    /\ bg = FALSE
    /\ status = 0
    /\ envp_copy = [i \in 1..EnvSlots |-> Null]
    /\ overrun = FALSE
    /\ children = <<>>
    /\ waiting = NoChild
    /\ told = <<>>
    /\ typed = 0

(* readline and process_command: without a newline in the buffer (^D, or a   *)
(* line longer than the buffer) main() returns.                              *)
ReadLine(ln) ==
    /\ pc = "prompt" /\ typed < MaxLines
    /\ typed' = typed + 1
    /\ line' = ln
    /\ pc' = IF ln.kind = "eof" THEN "exited" ELSE "do"
    /\ UNCHANGED <<vars, bg, status, envp_copy, overrun, children, waiting, told>>

(* "cd ": chdir answers 0 or not. *)
Cd ==
    /\ pc = "do" /\ line.kind = "cd"
    /\ status' \in {0, -1}
    /\ pc' = "prompt"
    /\ UNCHANGED <<vars, line, bg, envp_copy, overrun, children, waiting, told, typed>>

(* "exit": the loop ends, and main() returns exit_status. *)
ExitShell ==
    /\ pc = "do" /\ line.kind = "exit"
    /\ status' = 0
    /\ pc' = "exited"
    /\ UNCHANGED <<vars, line, bg, envp_copy, overrun, children, waiting, told, typed>>

(* NAME=value.  bg is computed before the '=' is looked for. *)
Assign ==
    /\ pc = "do" /\ line.kind = "assign"
    /\ vars' = var_set(vars, line.name, line.val)
    /\ bg' = FALSE
    /\ status' = 0
    /\ pc' = "prompt"
    /\ UNCHANGED <<line, envp_copy, overrun, children, waiting, told, typed>>

(* A command: the '&', strsplit, get_envp. *)
Prepare ==
    /\ pc = "do" /\ line.kind = "run"
    /\ bg' = line.bg
    /\ envp_copy' = get_envp(vars)
    /\ overrun' = (overrun \/ Len(vars) > EnvSlots)
    /\ pc' = "fork"
    /\ UNCHANGED <<vars, line, status, children, waiting, told, typed>>

(* The directories a child tries: none are tried for a name with a path. *)
SearchList(vs, cmd) == IF cmd \in Direct THEN <<"">> ELSE get_path(vs)

(* fork: the child has a copy of everything the shell has.  "known" is        *)
(* history: the variables when the command was given.                        *)
NewChild ==
    [cmd |-> line.cmd, fg |-> ~line.bg, state |-> "search", at |-> 1,
     dirs |-> SearchList(vars, line.cmd), env |-> envp_copy,
     ran |-> "", code |-> 0, known |-> vars]

Fork ==
    /\ pc = "fork"
    /\ children' = Append(children, NewChild)
    /\ pc' = IF bg THEN "prompt" ELSE "wait"
    /\ status' = IF bg THEN 0 ELSE status
    /\ UNCHANGED <<vars, line, bg, envp_copy, overrun, waiting, told, typed>>

(* wait4 registers the shell for its child. *)
Waitpid ==
    /\ pc = "wait"
    /\ waiting' = Len(children)
    /\ pc' = "waiting"
    /\ UNCHANGED <<vars, line, bg, status, envp_copy, overrun, children, told, typed>>

(* wait4 returns with the status it was told. *)
WaitReturn ==
    /\ pc = "waiting" /\ told # <<>>
    /\ status' = Head(told)
    /\ told' = <<>>
    /\ pc' = "prompt"
    /\ UNCHANGED <<vars, line, bg, envp_copy, overrun, children, waiting, typed>>
-----------------------------------------------------------------------------
(* Variant: an execve that fails ends the search. *)
M_TryNext_stops(c) ==
    children' = [children EXCEPT ![c].at = Len(children[c].dirs) + 1]

(* The next directory. *)
TryNext(c) == children' = [children EXCEPT ![c].at = @ + 1]

(* execve of joined_filename: it does not return when the file exists. *)
TryExec(c) ==
    LET ch == children[c] IN
    /\ ch.state = "search" /\ ch.at <= Len(ch.dirs)
    /\ IF <<ch.dirs[ch.at], ch.cmd>> \in Files
       THEN children' = [children EXCEPT ![c].state = "program",
                                         ![c].ran = ch.dirs[ch.at],
                                         ![c].env = Received(ch.env)]
       ELSE TryNext(c)
    /\ UNCHANGED <<vars, pc, line, bg, status, envp_copy, overrun, waiting, told, typed>>

(* Variant: whoever exits, the shell is told. *)
M_NotifyShell_anyone(c, code) ==
    IF waiting # NoChild THEN /\ told' = <<code>> /\ waiting' = NoChild
    ELSE UNCHANGED <<told, waiting>>

(* notify_exit_pid: the shell, if it waits for this child. *)
NotifyShell(c, code) ==
    IF waiting = c THEN /\ told' = <<code>> /\ waiting' = NoChild
    ELSE UNCHANGED <<told, waiting>>

(* No directory has it: exit(1). *)
NotFoundExit(c) ==
    /\ children[c].state = "search" /\ children[c].at > Len(children[c].dirs)
    /\ children' = [children EXCEPT ![c].state = "done", ![c].code = NotFound]
    /\ NotifyShell(c, NotFound)
    /\ UNCHANGED <<vars, pc, line, bg, status, envp_copy, overrun, typed>>

(* The program exits, or somebody kills the child, whatever it is doing. *)
ChildEnds(c, code) ==
    /\ children[c].state # "done"
    /\ children' = [children EXCEPT ![c].state = "done", ![c].code = code]
    /\ NotifyShell(c, code)
    /\ UNCHANGED <<vars, pc, line, bg, status, envp_copy, overrun, typed>>

(* All lines typed, or the shell left: children may be running still. *)
Over == (pc = "exited" \/ typed = MaxLines) /\ UNCHANGED shellVars

(* The shell waits for a child whose exit came before wait4. *)
Missed ==
    /\ pc = "waiting" /\ told = <<>>
    /\ children[Len(children)].state = "done"
    /\ UNCHANGED shellVars

ChildStep(c) ==
    TryExec(c) \/ NotFoundExit(c) \/ \E code \in ExitCodes : ChildEnds(c, code)

ShellStep ==
    \/ \E ln \in Lines : ReadLine(ln)
    \/ Cd \/ ExitShell \/ Assign \/ Prepare \/ Fork \/ Waitpid \/ WaitReturn

Next == ShellStep \/ (\E c \in DOMAIN children : ChildStep(c)) \/ Over \/ Missed

Spec == Init /\ [][Next]_shellVars
-----------------------------------------------------------------------------
(* StatusOfTheCommand: the status in the prompt after a foreground command   *)
(* is the one that command's own child ended with, not that of another child *)
(* that ended in the same time; after a background command it is 0.          *)
StatusOfTheCommand ==
    (pc = "prompt" /\ line.kind = "run") =>
        LET last == children[Len(children)]
        IN  status = IF last.fg THEN last.code ELSE 0

(* FirstOnPath: a child runs the program of the first directory on PATH that *)
(* has it, PATH being what it was when the command was given, and a child    *)
(* that gave up looking had none.                                            *)
FirstOnPath ==
    \A c \in DOMAIN children :
        LET ch == children[c]
            path == SearchList(ch.known, ch.cmd)
            found == SelectInSeq(path, LAMBDA d : <<d, ch.cmd>> \in Files)
        IN  /\ ch.state = "program" => found # 0 /\ ch.ran = path[found]
            /\ (ch.state = "search" /\ ch.at > Len(ch.dirs)) => found = 0

(* EnvironmentArrives: as long as a slot is left for the NULL that ends it,  *)
(* the environment a program reads is the shell's variables when the command *)
(* was given.                                                                *)
EnvironmentArrives ==
    \A c \in DOMAIN children :
        LET ch == children[c]
        IN  (ch.state = "program" /\ Len(ch.known) < EnvSlots) => ch.env = ch.known
=============================================================================
