------------------------------ MODULE ShellSpec ------------------------------
(***************************************************************************)
(* What the shell promises: a script means the trees its grammar gives it, *)
(* and running it has the effect of running its commands one after the     *)
(* other, whatever is run in parallel.                                     *)
(***************************************************************************)
EXTENDS Shell, FiniteSetsExt

-----------------------------------------------------------------------------
(* The grammar: ";" binds least, then "&&" and "||", then "|"; operators of *)
(* one precedence group to the left.                                        *)

Binding(oper) == CASE oper = <<";">> -> 1 [] oper = <<"|">> -> 3 [] OTHER -> 2

InBrackets(ts, i) ==
    \E j \in 1..i-1 : ts[j] = <<"(">> /\ \A k \in j+1..i-1 : ts[k] # <<")">>

Splits(ts) == {i \in DOMAIN ts : ts[i] \in Operators /\ ~InBrackets(ts, i)}

\* The last of the operators that bind least.
SplitAt(ts) ==
    Max({i \in Splits(ts) : \A j \in Splits(ts) : Binding(ts[i]) <= Binding(ts[j])})

FirstArrow(ts) ==
    LET arrows == {i \in DOMAIN ts : ts[i] \in Arrows /\ ~InBrackets(ts, i)}
    IN  IF arrows = {} THEN Len(ts) + 1 ELSE Min(arrows)

FileAfter(arrow, ts) ==
    LET at == {i \in DOMAIN ts : ts[i] = <<arrow>>} IN IF at = {} THEN Null ELSE ts[Min(at) + 1]

RECURSIVE Meaning(_), Primary(_, _)
Primary(head, files) ==
    LET sub == IF head # <<>> /\ head[1] = <<"(">> /\ Last(head) = <<")">>
               THEN Meaning(SubSeq(head, 2, Len(head) - 1)) ELSE Null
        kind == IF sub # Null THEN IF sub = Error THEN Error ELSE make_subshell_command(sub)
                ELSE IF head = <<>> \/ \E i \in DOMAIN head : head[i] \notin {<<w>> : w \in Word} THEN Error
                ELSE make_simple_command(FlattenSeq(head))
    IN  IF kind = Error THEN Error
        ELSE [kind EXCEPT !.input = FileAfter("<", files), !.output = FileAfter(">", files)]

Meaning(ts) ==
    IF Splits(ts) = {} THEN Primary(SubSeq(ts, 1, FirstArrow(ts) - 1), SubSeq(ts, FirstArrow(ts), Len(ts)))
    ELSE LET k == SplitAt(ts)
             left == Meaning(SubSeq(ts, 1, k - 1))
             right == Meaning(SubSeq(ts, k + 1, Len(ts)))
         IN  IF Error \in {left, right} THEN Error ELSE make_compound_command(left, right, ts[k])

Trees(script) ==
    LET trees == [i \in DOMAIN script |-> Meaning(script[i])]
    IN  IF Error \in Range(trees) THEN <<Error>> ELSE trees

-----------------------------------------------------------------------------
(* Running commands one after the other.  A run has the files, what each    *)
(* program has read, the input, the output written so far and a status.     *)

Output(c, s, after) ==
    IF c.output = Null THEN [after EXCEPT !.in = s.in]
    ELSE [after EXCEPT !.in = s.in, !.out = s.out,
              !.file = (c.output[1] :> after.out) @@ @]

Opened(c, s) ==
    [s EXCEPT !.in = IF c.input = Null THEN @ ELSE s.file[c.input[1]],
              !.out = IF c.output = Null THEN @ ELSE <<>>,
              !.file = IF c.output = Null THEN @ ELSE (c.output[1] :> <<>>) @@ @]

\* A program on its own.
RunProgram(words, s) ==
    LET args == SelectSeq(Tail(words), LAMBDA w : w \notin Options)
    IN  IF words = <<>> \/ words[1] \in Missing THEN [s EXCEPT !.st = 1]
        ELSE [s EXCEPT !.st = IF words[1] \in Failing THEN 1 ELSE 0,
                  !.out = @ \o [n \in 1..Units |-> words[1]],
                  !.seen = (words[1] :> FlattenSeq([k \in DOMAIN args |-> Contents(args[k], s.file)])
                                          \o (IF words[1] \in Filters THEN s.in ELSE <<>>)) @@ @]

RECURSIVE Run(_, _)
Run(c, s) ==
    CASE c.type \in {"SIMPLE", "SUBSHELL"} ->
           IF c.input # Null /\ Named(c.input) \cap DOMAIN s.file = {} THEN [s EXCEPT !.st = 1]
           ELSE Output(c, s,
                    IF c.type = "SUBSHELL" THEN Run(c.sub, Opened(c, s))
                    ELSE RunProgram(IF c.word[1] = "exec" THEN Tail(c.word) ELSE c.word, Opened(c, s)))
      [] c.type = "SEQUENCE" -> Run(c.right, Run(c.left, s))
      [] c.type = "AND" -> LET l == Run(c.left, s) IN IF l.st = 0 THEN Run(c.right, l) ELSE l
      [] c.type = "OR" -> LET l == Run(c.left, s) IN IF l.st # 0 THEN Run(c.right, l) ELSE l
      [] c.type = "PIPE" ->
           LET l == Run(c.left, [s EXCEPT !.out = <<>>])
               r == Run(c.right, [l EXCEPT !.in = l.out, !.out = s.out])
           IN  [r EXCEPT !.in = s.in]

InSequence ==
    FoldLeft(LAMBDA s, c : Run(c, s),
             [file |-> FirstFiles, seen |-> <<>>, in |-> <<>>, out |-> <<>>, st |-> 0],
             Trees(asked.tokens))

-----------------------------------------------------------------------------
(* read-command.c: what the two stacks build is the tree the grammar gives, and a
   string of words and operators is refused exactly when the grammar has none.
   print-command.c: the output of -p, read without its layout, is the script again. *)
ParsesAsMeant ==
    /\ commands = Trees(asked.tokens)
    /\ mode = "p" /\ AllDone /\ commands # <<Error>> =>
          FlattenSeq([k \in DOMAIN printed |-> printed[k][2]]) = FlattenSeq(FlattenSeq(asked.tokens))

(* main.c, execute_graph(): at no time has a program read anything but what it
   reads when the commands run one after the other. *)
ReadsAsInSequence ==
    mode # "p" =>
        \A s \in {InSequence.seen} : \A w \in DOMAIN seen : w \in DOMAIN s /\ IsPrefix(seen[w], s[w])

(* main.c, execute-command.c: in the end the files are what they are after the
   commands ran one after the other, and the same programs have run. *)
EndsAsInSequence ==
    mode # "p" /\ AllDone /\ commands # <<Error>> =>
        \A s \in {InSequence} : file = s.file /\ seen = s.seen

(* execute-command.c, exe_pipe_command(): no reader waits for the end of a pipe that
   somebody keeps open, no writer for a reader that is gone: every script ends. *)
EverythingEnds == <>AllDone

=============================================================================
