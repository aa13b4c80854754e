-------------------------------- MODULE Shell --------------------------------
(***************************************************************************)
(* The time-travel shell (project1/main.c, execute-command.c): a script is *)
(* read, then printed (-p), executed command by command, or executed in    *)
(* parallel by a graph of dependencies (-t).                               *)
(*                                                                         *)
(* A process is a list of the system calls it has still to make.  What     *)
(* execute_command() does for a command is known before it runs, up to the *)
(* tests of a status: execute_command(c) below is that list.  fork(),      *)
(* pipe() and dup2() succeed.  The programs a script starts are external.  *)
(***************************************************************************)
EXTENDS ShellParse, TLC

CONSTANTS
    Inputs,     \* scripts: [tokens: the tokens of its commands, text: its characters]
    Options,    \* words that begin with "-"
    Missing,    \* words that name no program
    Filters,    \* programs that read their standard input to its end
    Failing,    \* programs that exit with status 1
    FirstFiles, \* contents of the files there are before the script runs
    Units,      \* how many units a program writes
    PipeSize    \* how many units a pipe holds

ASSUME SizesAssumption == Units \in Nat /\ PipeSize \in Nat \ {0}

VARIABLES
    asked,      \* the script, a member of Inputs
    mode,       \* "p", "t" or "run"
    commands,   \* what make_command_stream() returned
    printed,    \* the output of -p: pairs of an indent and a token
    proc,       \* processes by number; child k of p is number Append(p, k)
    pipe,       \* units in each pipe
    file,       \* contents of the files that exist
    seen        \* what each program has read from files and standard input

vars == <<asked, mode, commands, printed, proc, pipe, file, seen>>

Main == <<>>
Tty == <<"tty">>
File(f) == <<"file", f>>
ReadEnd(p) == <<"read", p>>
WriteEnd(p) == <<"write", p>>

-----------------------------------------------------------------------------
(* execute_command(): the calls made for a command.                         *)

redirect(c) == <<[op |-> "redirect", input |-> c.input, output |-> c.output]>>
restore == <<[op |-> "restore"]>>
fork(how, code) == [op |-> "fork", how |-> how, code |-> code]
program(words) == <<[op |-> "exec", word |-> words]>>

exe_simple_command(c) ==
    redirect(c) \o IF c.word[1] = "exec" THEN program(Tail(c.word))
                   ELSE <<fork("program", program(c.word)), [op |-> "wait"]>> \o restore

\* Mutant: the descriptors are restored only after simple commands.
exe_subshell_command_unrestored(c, inner) == redirect(c) \o inner

exe_subshell_command(c, inner) == redirect(c) \o inner \o restore

skip(st, code) == <<[op |-> "skip", st |-> st, n |-> Len(code)]>> \o code

\* The right command runs when the left one ended with status 0.
exe_and_command(left, right) == left \o skip(1, right)
exe_or_command(left, right) == left \o skip(0, right)
exe_sequence_command(left, right) == left \o right

\* The reader is forked first; the shell takes the status of the child it
\* waits for last.
exe_pipe_command(left, right) ==
    <<[op |-> "pipe"], fork("right", right), fork("left", left), [op |-> "close"],
      [op |-> "wait"], [op |-> "wait"]>>

RECURSIVE execute_command(_)
execute_command(c) ==
    CASE c.type = "SIMPLE" -> exe_simple_command(c)
      [] c.type = "SUBSHELL" -> exe_subshell_command(c, execute_command(c.sub))
      [] c.type = "SEQUENCE" -> exe_sequence_command(execute_command(c.left), execute_command(c.right))
      [] c.type = "AND" -> exe_and_command(execute_command(c.left), execute_command(c.right))
      [] c.type = "OR" -> exe_or_command(execute_command(c.left), execute_command(c.right))
      [] c.type = "PIPE" -> exe_pipe_command(execute_command(c.left), execute_command(c.right))

-----------------------------------------------------------------------------
(* main(), create_graph(), execute_graph()                                  *)

Named(f) == IF f = Null THEN {} ELSE {f[1]}

RECURSIVE readList(_), writeList(_)
\* processCommand(): a subshell counts with its own redirections only.
readList(c) ==
    CASE c.type = "SIMPLE" -> Named(c.input) \cup (Range(Tail(c.word)) \ Options)
      [] c.type = "SUBSHELL" -> Named(c.input)
      [] OTHER -> readList(c.left) \cup readList(c.right)
writeList(c) ==
    IF c.type \in {"SIMPLE", "SUBSHELL"} THEN Named(c.output)
    ELSE writeList(c.left) \cup writeList(c.right)

\* Mutant: a later command that overwrites what an earlier one reads may run.
isDependent_noWAR(n1, n2) ==
    \/ readList(n2) \cap writeList(n1) # {}
    \/ writeList(n2) \cap writeList(n1) # {}

isDependent(n1, n2) ==
    \/ readList(n2) \cap writeList(n1) # {}
    \/ writeList(n2) \cap readList(n1) # {}
    \/ writeList(n2) \cap writeList(n1) # {}

\* checkDependency(): the earlier commands that command i waits for.
before(cs, i) == {j \in 1..i-1 : isDependent(cs[j], cs[i])}

no_dependencies(cs) == SetToSortSeq({i \in DOMAIN cs : before(cs, i) = {}}, <)
dependencies(cs) == SetToSortSeq({i \in DOMAIN cs : before(cs, i) # {}}, <)

\* A job ends with status 0.
Job(c) == fork("job", execute_command(c) \o <<[op |-> "exit", st |-> 0]>>)

execute_no_dependencies(cs, queue) == [k \in DOMAIN queue |-> Job(cs[queue[k]])]

\* order is the order of the forks, which gives a command its child number.
execute_dependencies(cs, queue, order) ==
    FlattenSeq([k \in DOMAIN queue |->
        LET js == SetToSortSeq(before(cs, queue[k]), <)
        IN  Append([m \in DOMAIN js |->
                        [op |-> "waitpid", child |-> CHOOSE n \in DOMAIN order : order[n] = js[m]]],
                   Job(cs[queue[k]]))])

execute_graph(cs, free, bound) ==
    execute_no_dependencies(cs, free) \o execute_dependencies(cs, bound, free \o bound)

\* The rest of main() after make_command_stream().
RestOfMain(cs) ==
    CASE mode = "t" -> execute_graph(cs, no_dependencies(cs), dependencies(cs))
      [] mode = "p" -> [k \in DOMAIN cs |-> [op |-> "print", tree |-> cs[k]]]
      [] mode = "run" -> FlattenSeq([k \in DOMAIN cs |-> execute_command(cs[k])])

-----------------------------------------------------------------------------
(* Processes.  fd is the pipe of exe_pipe_command(), held the pipe ends     *)
(* open besides standard input and output, saved the backups of those two.  *)

Shell(code) ==
    [code |-> code, st |-> 0, in |-> Tty, out |-> Tty, fd |-> Null,
     held |-> {}, saved |-> <<>>, forks |-> 0, kids |-> {}, done |-> FALSE]

\* main() when make_command_stream() has returned; on a syntax error it exits.
\* junk is what the uninitialised preCh holds.
Init ==
    /\ asked \in Inputs
    /\ mode \in asked.modes
    /\ \E junk \in {NL, Blank} :
         \E cs \in {make_commands(asked.text, junk)} :
            /\ commands = cs
            /\ proc = (Main :> IF cs = <<Error>>
                                THEN Shell(<<[op |-> "exit", st |-> 1]>>)
                                ELSE Shell(RestOfMain(cs)))
    /\ printed = <<>> /\ pipe = <<>> /\ seen = <<>>
    /\ file = FirstFiles

Instr(p) == Head(proc[p].code)
Ready(p, op) == ~proc[p].done /\ proc[p].code # <<>> /\ Instr(p).op = op

Advance(p) == [proc[p] EXCEPT !.code = Tail(@)]
Exit(p, st) == [proc[p] EXCEPT !.code = <<>>, !.st = st, !.done = TRUE]
Becomes(p, process) == proc' = [proc EXCEPT ![p] = process]

\* Whether a live process has descriptor d open.
Open(d) ==
    \E q \in DOMAIN proc :
        ~proc[q].done /\ d \in proc[q].held \cup {proc[q].in, proc[q].out}
                                \cup UNION {Range(s) : s \in Range(proc[q].saved)}

PrintTree(p) ==
    /\ Ready(p, "print")
    /\ printed' = printed \o print_command(Instr(p).tree)
    /\ Becomes(p, Advance(p))
    /\ UNCHANGED <<asked, mode, commands, pipe, file, seen>>

\* Mutant: the output file is not created.
Redirect_noCreate(p) ==
    /\ Ready(p, "redirect")
    /\ Becomes(p, [Advance(p) EXCEPT
            !.saved = push(<<proc[p].in, proc[p].out>>, @),
            !.in = IF Instr(p).input = Null THEN @ ELSE File(Instr(p).input[1]),
            !.out = IF Instr(p).output = Null THEN @ ELSE File(Instr(p).output[1])])
    /\ UNCHANGED <<asked, mode, commands, printed, pipe, file, seen>>

\* The files are opened by the shell itself: when there is no input, it exits.
Redirect(p) ==
    /\ Ready(p, "redirect")
    /\ LET input == Instr(p).input
           output == Instr(p).output
       IN  IF input # Null /\ Named(input) \cap DOMAIN file = {}
           THEN Becomes(p, Exit(p, 1)) /\ UNCHANGED file
           ELSE /\ Becomes(p, [Advance(p) EXCEPT
                        !.saved = push(<<proc[p].in, proc[p].out>>, @),
                        !.in = IF input = Null THEN @ ELSE File(input[1]),
                        !.out = IF output = Null THEN @ ELSE File(output[1])])
                /\ file' = IF output = Null THEN file ELSE (output[1] :> <<>>) @@ file
    /\ UNCHANGED <<asked, mode, commands, printed, pipe, seen>>

Restore(p) ==
    /\ Ready(p, "restore")
    /\ Becomes(p, [Advance(p) EXCEPT !.in = proc[p].saved[1][1], !.out = proc[p].saved[1][2],
                                     !.saved = pop(@)])
    /\ UNCHANGED <<asked, mode, commands, printed, pipe, file, seen>>

OpenPipe(p) ==
    /\ Ready(p, "pipe")
    /\ LET id == Append(p, proc[p].forks)
       IN  /\ pipe' = (id :> <<>>) @@ pipe
           /\ Becomes(p, [Advance(p) EXCEPT !.fd = id, !.held = @ \cup {ReadEnd(id), WriteEnd(id)}])
    /\ UNCHANGED <<asked, mode, commands, printed, file, seen>>

\* Mutant: the reader keeps the write end of the pipe open.
Child_keepsWriteEnd(p) ==
    LET child == [proc[p] EXCEPT !.code = Instr(p).code, !.forks = 0, !.kids = {}]
    IN  CASE Instr(p).how = "right" -> [child EXCEPT !.in = ReadEnd(child.fd)]
          [] Instr(p).how = "left" ->
               [child EXCEPT !.held = @ \ {ReadEnd(child.fd)}, !.out = WriteEnd(child.fd)]
          [] OTHER -> child

\* A child has the descriptors of its parent; the end of a pipe that it copies
\* over its standard input or output stays open besides.
Child(p) ==
    LET child == [proc[p] EXCEPT !.code = Instr(p).code, !.forks = 0, !.kids = {}]
    IN  CASE Instr(p).how = "right" ->
               [child EXCEPT !.held = @ \ {WriteEnd(child.fd)}, !.in = ReadEnd(child.fd)]
          [] Instr(p).how = "left" ->
               [child EXCEPT !.held = @ \ {ReadEnd(child.fd)}, !.out = WriteEnd(child.fd)]
          [] OTHER -> child

Fork(p) ==
    /\ Ready(p, "fork")
    /\ LET pid == Append(p, proc[p].forks + 1)
       IN  proc' = (pid :> Child(p)) @@
                   [proc EXCEPT ![p] = [Advance(p) EXCEPT !.forks = @ + 1, !.kids = @ \cup {pid}]]
    /\ UNCHANGED <<asked, mode, commands, printed, pipe, file, seen>>

ClosePipe(p) ==
    /\ Ready(p, "close")
    /\ Becomes(p, [Advance(p) EXCEPT !.held = @ \ {ReadEnd(proc[p].fd), WriteEnd(proc[p].fd)}])
    /\ UNCHANGED <<asked, mode, commands, printed, pipe, file, seen>>

\* waitpid() for any child: a simple command has one, a pipe has two.
Wait(p) ==
    /\ Ready(p, "wait")
    /\ \E k \in proc[p].kids :
          /\ proc[k].done
          /\ Becomes(p, [Advance(p) EXCEPT !.kids = @ \ {k}, !.st = proc[k].st])
    /\ UNCHANGED <<asked, mode, commands, printed, pipe, file, seen>>

\* waitpid() for one job; a job another command has waited for is gone.
WaitPid(p) ==
    /\ Ready(p, "waitpid")
    /\ LET k == Append(p, Instr(p).child)
       IN  /\ k \in proc[p].kids => proc[k].done
           /\ Becomes(p, [Advance(p) EXCEPT !.kids = @ \ {k}])
    /\ UNCHANGED <<asked, mode, commands, printed, pipe, file, seen>>

SkipOver(p) ==
    /\ Ready(p, "skip")
    /\ Becomes(p, [proc[p] EXCEPT !.code =
            SubSeq(@, 2 + (IF Instr(p).st = proc[p].st THEN Instr(p).n ELSE 0), Len(@))])
    /\ UNCHANGED <<asked, mode, commands, printed, pipe, file, seen>>

\* _exit(), or the end of main(): with the status of the last command.
Return(p) ==
    /\ ~proc[p].done
    /\ proc[p].code = <<>> \/ Ready(p, "exit")
    /\ Becomes(p, Exit(p, IF proc[p].code = <<>> THEN proc[p].st ELSE Instr(p).st))
    /\ UNCHANGED <<asked, mode, commands, printed, pipe, file, seen>>

-----------------------------------------------------------------------------
(* Programs: one reads the files its arguments name, its standard input if  *)
(* it is a filter, then writes Units units, each its own name, and exits.   *)

Running(words) ==
    <<[op |-> "read", who |-> words[1], args |-> SelectSeq(Tail(words), LAMBDA w : w \notin Options)]>>
    \o (IF words[1] \in Filters THEN <<[op |-> "input", who |-> words[1]]>> ELSE <<>>)
    \o [n \in 1..Units |-> [op |-> "write", who |-> words[1]]]
    \o <<[op |-> "exit", st |-> IF words[1] \in Failing THEN 1 ELSE 0]>>

\* execvp(): when there is no such program, the process exits with status 1.
Exec(p) ==
    /\ Ready(p, "exec")
    /\ Becomes(p, IF Instr(p).word = <<>> \/ Instr(p).word[1] \in Missing THEN Exit(p, 1)
                  ELSE [proc[p] EXCEPT !.code = Running(Instr(p).word)])
    /\ UNCHANGED <<asked, mode, commands, printed, pipe, file, seen>>

Contents(f, files) == IF f \in DOMAIN files THEN files[f] ELSE <<"absent">>

ReadFiles(p) ==
    /\ Ready(p, "read")
    /\ seen' = (Instr(p).who :>
                    FlattenSeq([k \in DOMAIN Instr(p).args |-> Contents(Instr(p).args[k], file)])) @@ seen
    /\ Becomes(p, Advance(p))
    /\ UNCHANGED <<asked, mode, commands, printed, pipe, file>>

\* A read from a pipe waits for a unit, or until nobody can write one.
ReadInput(p) ==
    /\ Ready(p, "input")
    /\ LET in == proc[p].in
           units == IF in[1] = "read" THEN pipe[in[2]] ELSE IF in[1] = "file" THEN file[in[2]] ELSE <<>>
           got == IF in[1] = "read" /\ units # <<>> THEN <<Head(units)>> ELSE units
       IN  /\ in[1] = "read" /\ units = <<>> => ~Open(WriteEnd(in[2]))
           /\ seen' = [seen EXCEPT ![Instr(p).who] = @ \o got]
           /\ IF in[1] = "read" /\ units # <<>>
              THEN pipe' = [pipe EXCEPT ![in[2]] = Tail(@)] /\ UNCHANGED proc
              ELSE Becomes(p, Advance(p)) /\ UNCHANGED pipe
    /\ UNCHANGED <<asked, mode, commands, printed, file>>

\* A writer that has no reader is killed; WEXITSTATUS of that is 0.
Write(p) ==
    /\ Ready(p, "write")
    /\ LET out == proc[p].out
           broken == out[1] = "write" /\ ~Open(ReadEnd(out[2]))
       IN  /\ out[1] = "write" => broken \/ Len(pipe[out[2]]) < PipeSize
           /\ Becomes(p, IF broken THEN Exit(p, 0) ELSE Advance(p))
           /\ pipe' = IF out[1] = "write" /\ ~broken
                      THEN [pipe EXCEPT ![out[2]] = Append(@, Instr(p).who)] ELSE pipe
           /\ file' = IF out[1] = "file"
                      THEN [file EXCEPT ![out[2]] = Append(@, Instr(p).who)] ELSE file
    /\ UNCHANGED <<asked, mode, commands, printed, seen>>

-----------------------------------------------------------------------------
Step(p) ==
    \/ PrintTree(p) \/ Redirect(p) \/ Restore(p) \/ OpenPipe(p) \/ Fork(p)
    \/ ClosePipe(p) \/ Wait(p) \/ WaitPid(p) \/ SkipOver(p) \/ Return(p)
    \/ Exec(p) \/ ReadFiles(p) \/ ReadInput(p) \/ Write(p)

Next == \E p \in DOMAIN proc : Step(p)

\* The kernel runs some process as long as one can run; no process can run for ever.
Spec == Init /\ [][Next]_vars /\ WF_vars(Next)

AllDone == \A p \in DOMAIN proc : proc[p].done

\* Every process runs one of the known calls, and only pipes that were opened,
\* files that exist and children that were forked are referred to.
TypeOK ==
    /\ mode \in {"p", "t", "run"}
    /\ \A p \in DOMAIN proc :
          /\ proc[p].st \in {0, 1} /\ proc[p].done \in BOOLEAN
          /\ proc[p].kids \subseteq DOMAIN proc
          /\ \A d \in proc[p].held \cup {proc[p].in, proc[p].out} :
                CASE d[1] \in {"read", "write"} -> d[2] \in DOMAIN pipe
                  [] d[1] = "file" -> d[2] \in DOMAIN file
                  [] OTHER -> d = Tty
    /\ \A id \in DOMAIN pipe : Len(pipe[id]) <= PipeSize

=============================================================================
