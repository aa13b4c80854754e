----------------------------- MODULE ShellParse -----------------------------
(***************************************************************************)
(* The command reader of the time-travel shell (project1/read-command.c,   *)
(* stack.c, print-command.c): from the text of a script to command trees.  *)
(*                                                                         *)
(* A text is a sequence of characters.  A word of the script is one        *)
(* character of Word; "nl" is the newline, and tabs are spaces.  Line      *)
(* numbers, which only appear in messages, are left out: a syntax error is *)
(* the value Error, after which the program exits.                         *)
(***************************************************************************)
EXTENDS Integers, Sequences, SequencesExt, FiniteSets

CONSTANT Word      \* words of scripts, one character each

NL == "nl"
Blank == " "
Operators == {<<"&", "&">>, <<"|", "|">>, <<"|">>, <<";">>}
Brackets == {<<"(">>, <<")">>}
Arrows == {<<"<">>, <<">">>}

-----------------------------------------------------------------------------
(* makeSeparation(): a text is cut at empty lines.                          *)

\* junk is what the memory of preCh, which is not initialised, holds.
Fresh(junk) == [str |-> <<>>, words |-> <<>>, newLine |-> TRUE, pre |-> junk,
                open |-> 0, comment |-> FALSE, closed |-> FALSE]

\* The end of the loop body.  The second newline in a row ends a word.
Put(s, ch) ==
    IF ch # NL
    THEN [s EXCEPT !.str = Append(@, ch), !.newLine = FALSE, !.pre = ch, !.closed = FALSE]
    ELSE [s EXCEPT !.newLine = TRUE, !.pre = NL, !.closed = FALSE,
              !.words = IF s.pre = NL /\ s.str # <<>> THEN Append(@, s.str) ELSE @,
              !.str = IF @ = <<>> \/ s.pre = NL THEN <<>> ELSE Append(@, NL)]

\* Inside a subshell everything but comments is kept, up to the bracket that
\* closes it; the character after it is put without being looked at.
InSubshell(s, ch) ==
    LET open == s.open + (IF ch = "(" THEN 1 ELSE 0) - (IF ch = ")" THEN 1 ELSE 0)
    IN  IF ch = "#" THEN [s EXCEPT !.comment = TRUE]
        ELSE [s EXCEPT !.str = Append(@, ch), !.open = open, !.closed = open = 0]

\* One character.  A comment goes with the newline that ends it.
Separate(s, ch) ==
    CASE s.comment -> [s EXCEPT !.comment = ch # NL]
      [] s.open > 0 /\ ~s.comment -> InSubshell(s, ch)
      [] s.closed /\ s.open = 0 /\ ~s.comment -> Put(s, ch)
      [] OTHER -> IF ch = Blank /\ s.newLine THEN s
                  ELSE IF ch = "#" THEN [s EXCEPT !.comment = TRUE]
                  ELSE IF ch = "(" THEN InSubshell(s, ch)
                  ELSE Put(s, ch)

Words(s) == IF s.str = <<>> THEN s.words ELSE Append(s.words, s.str)

\* One trailing newline is cut off.
Strip(w) == IF Last(w) = NL THEN Front(w) ELSE w

EndsInOperator(w) ==
    \/ Last(w) \in {"|", ";", "<", ">"}
    \/ Len(w) > 1 /\ SubSeq(w, Len(w) - 1, Len(w)) = <<"&", "&">>

\* A word that ends in an operator is joined to the next.  Of operators up to
\* the end of the text, the copy loop takes the first half.
RECURSIVE Merge(_)
Merge(ws) ==
    LET k == SelectInSeq(ws, LAMBDA w : ~EndsInOperator(w))
    IN  IF ws = <<>> THEN <<>>
        ELSE IF k = 0 THEN <<FlattenSeq(SubSeq(ws, 1, (Len(ws) + 1) \div 2))>>
        ELSE <<FlattenSeq(SubSeq(ws, 1, k))>> \o Merge(SubSeq(ws, k + 1, Len(ws)))

StripAll(ws) == [i \in DOMAIN ws |-> Strip(ws[i])]

makeSeparation(text, junk) == Merge(StripAll(Words(FoldLeft(Separate, Fresh(junk), text))))

-----------------------------------------------------------------------------
(* tokenize(): a token is a sequence of characters; what is between the     *)
(* brackets of a subshell is one token.                                     *)

NoToken == [buffer |-> <<>>, tokens |-> <<>>, simple |-> FALSE, sub |-> FALSE,
            after |-> FALSE, first |-> TRUE, comment |-> FALSE, skip |-> FALSE]

make_token(t, token) == [t EXCEPT !.tokens = Append(@, token), !.simple = FALSE]

\* The buffer becomes a token.
Flush(t) == IF t.buffer = <<>> THEN t ELSE [make_token(t, t.buffer) EXCEPT !.buffer = <<>>]

Emit(t, token) == make_token(Flush(t), token)
Keep(t, c) == [t EXCEPT !.buffer = Append(@, c)]

\* A newline is a ";" unless it follows an operator or nothing.
LexNewline(t, c2) ==
    IF t.comment THEN [t EXCEPT !.comment = FALSE]
    ELSE IF ~t.after /\ ~t.first THEN Emit(t, <<";">>)
    ELSE IF c2 = NL THEN Flush(t)
    ELSE [Flush(t) EXCEPT !.after = FALSE]

\* "&&" and "||" take the next character with them; a single "&" is kept.
LexDouble(t, c, c2) ==
    [IF c2 = c THEN Emit(t, <<c, c>>) ELSE IF c = "|" THEN Emit(t, <<c>>) ELSE Keep(t, c)
        EXCEPT !.skip = c2 = c, !.first = FALSE, !.after = TRUE]

Lex(t, c1, c2) ==
    CASE t.skip -> [t EXCEPT !.skip = FALSE]
      [] ~t.skip /\ t.comment /\ c1 # NL -> t
      [] ~t.skip /\ ~t.comment /\ t.sub /\ c1 # ")" -> Keep(t, c1)
      [] OTHER ->
           CASE c1 = "#" -> [t EXCEPT !.comment = TRUE]
             [] c1 = Blank -> IF t.simple THEN Keep(t, c1) ELSE t
             [] c1 = ";" -> Emit(t, <<c1>>)
             [] c1 = NL -> LexNewline(t, c2)
             [] c1 \in {"|", "&"} -> LexDouble(t, c1, c2)
             [] c1 = "(" -> [Emit(t, <<c1>>) EXCEPT !.sub = TRUE]
             [] c1 = ")" -> [Emit(t, <<c1>>) EXCEPT !.sub = FALSE]
             [] c1 \in {"<", ">"} -> [Emit(t, <<c1>>) EXCEPT !.first = FALSE, !.after = FALSE]
             [] OTHER -> [Keep(t, c1) EXCEPT !.simple = TRUE, !.first = FALSE, !.after = FALSE]

tokenize(w) ==
    LET at(i) == IF i > Len(w) THEN Blank ELSE w[i]
    IN  Flush(FoldLeft(LAMBDA t, i : Lex(t, at(i), at(i + 1)), NoToken,
                       [i \in 1..Len(w) |-> i])).tokens

-----------------------------------------------------------------------------
(* validate()                                                               *)

is_valid_operator(t) == t \in Operators \cup Brackets \cup Arrows

\* Every second character of a word is looked at.
is_valid_word(t) == \A i \in DOMAIN t : i % 2 = 1 => t[i] \in Word \cup {Blank, NL}

\* An operator needs something on both sides, and no operator after it.
ValidOperator(ts, i) ==
    /\ 1 < i /\ i < Len(ts)
    /\ ts[i + 1] \notin Operators \ {<<";">>}
    /\ ts[i] = <<";">> =>
           /\ ts[i + 1] # <<";">> /\ ts[i + 1][1] \notin {"<", ">"}
           /\ \A c \in Range(ts[i - 1]) : c \notin {"<", ">"}

ValidArrow(ts, i) == 1 < i /\ i < Len(ts) /\ ts[i + 1] \notin Arrows

\* ts[i] is what a subshell holds, and is skipped once it was validated.
Content(ts, i) == i > 1 /\ ts[i - 1] = <<"(">> /\ ts[i][1] # ")"

\* A closing bracket ends the subshell opened last, if there is one open.
Closes(ts, i) ==
    \E j \in 1..i-1 : /\ ts[j] = <<"(">>
                      /\ \A k \in j+1..i-1 : Content(ts, k) \/ ts[k][1] # ")"

RECURSIVE validate(_)
validate(ts) ==
    \A i \in DOMAIN ts :
        IF Content(ts, i) THEN validate(tokenize(ts[i]))
        ELSE /\ is_valid_operator(ts[i]) \/ is_valid_word(ts[i])
             /\ ts[i][1] = "(" => i < Len(ts)
             /\ ts[i][1] = ")" => Closes(ts, i)
             /\ ts[i] \in Operators => ValidOperator(ts, i)
             /\ ts[i] \in Arrows => ValidArrow(ts, i)

-----------------------------------------------------------------------------
(* make_command(): two stacks, the top first.                               *)

Null == <<>>
Error == [type |-> "ERROR"]

make_simple_command(words) ==
    [type |-> "SIMPLE", word |-> words, input |-> Null, output |-> Null]
make_subshell_command(c) ==
    [type |-> "SUBSHELL", sub |-> c, input |-> Null, output |-> Null]
make_compound_command(c1, c2, oper) ==
    [type |-> CASE oper = <<";">> -> "SEQUENCE" [] oper = <<"|", "|">> -> "OR"
                [] oper = <<"&", "&">> -> "AND" [] OTHER -> "PIPE",
     left |-> c1, right |-> c2, input |-> Null, output |-> Null]

push(x, s) == <<x>> \o s
pop(s) == Tail(s)
peer(s) == Head(s)
is_empty(s) == s = <<>>

eat_tail_white_space(t) ==
    SubSeq(t, 1, SelectLastInSeq(t, LAMBDA c : c # Blank))

Precedence(oper) == CASE oper = <<";">> -> 1 [] oper = <<"|">> -> 3 [] OTHER -> 2

\* Mutant: operators of one precedence group to the right.
oper_cmp_right(token, oper) == IF Precedence(token) < Precedence(oper) THEN -1 ELSE 1

\* Whether token binds less (-1), as (0) or more (1) than oper; "&&" and "||"
\* also give 0 against "|", and -1 against "||".
oper_cmp(token, oper) ==
    IF token = <<";">> THEN IF oper = <<";">> THEN 0 ELSE -1
    ELSE IF token \in {<<"&", "&">>, <<"|", "|">>}
    THEN IF oper = <<";">> THEN 1 ELSE IF oper # <<"|", "|">> THEN 0 ELSE -1
    ELSE IF oper \in Operators \ {<<"|">>} THEN 1 ELSE 0

Failed == [opers |-> <<>>, cmds |-> <<Error>>, ok |-> FALSE]

\* The top operator and its two commands become one command.
Reduce(m) ==
    IF Len(m.cmds) < 2 THEN Failed
    ELSE [m EXCEPT !.opers = pop(@),
              !.cmds = push(make_compound_command(@[2], @[1], peer(m.opers)), SubSeq(@, 3, Len(@)))]

RECURSIVE ReduceWhile(_, _)
ReduceWhile(m, token) ==
    IF ~m.ok \/ is_empty(m.opers) \/ oper_cmp(token, peer(m.opers)) > 0 THEN m
    ELSE ReduceWhile(Reduce(m), token)

RECURSIVE ReduceAll(_)
ReduceAll(m) == IF ~m.ok \/ is_empty(m.opers) THEN m ELSE ReduceAll(Reduce(m))

\* ")": its "(" and the command in between are popped.
CloseSubshell(m) ==
    IF is_empty(m.opers) \/ is_empty(m.cmds) THEN Failed
    ELSE IF peer(m.opers) # <<"(">> THEN Failed
    ELSE [m EXCEPT !.opers = pop(@), !.cmds = push(make_subshell_command(peer(@)), pop(@))]

\* "<" or ">" and the word after it belong to the command on top.
Redirected(m, token, file) ==
    IF is_empty(m.cmds) THEN Failed
    ELSE IF token = <<"<">> THEN [m EXCEPT !.cmds[1].input = file]
    ELSE [m EXCEPT !.cmds[1].output = file]

WordsOf(t) == LET start == {i \in DOMAIN t : t[i] # Blank}
              IN  [k \in 1..Cardinality(start) |->
                      t[CHOOSE i \in start : Cardinality({j \in start : j < i}) = k - 1]]

RECURSIVE make_command(_), Consume(_, _, _)
\* The tokens of ts from i on.
Consume(ts, i, m) ==
    IF i > Len(ts) \/ ~m.ok THEN ReduceAll(m)
    ELSE LET token == eat_tail_white_space(ts[i])
         IN  IF token \in Arrows
             THEN Consume(ts, i + 2, Redirected(m, token, eat_tail_white_space(ts[i + 1])))
             ELSE Consume(ts, i + 1,
                 IF token = <<")">> THEN CloseSubshell(m)
                 ELSE IF token = <<"(">> THEN [m EXCEPT !.opers = push(token, @)]
                 ELSE IF token \in Operators
                 THEN LET r == ReduceWhile(m, token)
                      IN  IF r.ok THEN [r EXCEPT !.opers = push(token, @)] ELSE r
                 ELSE IF i > 1 /\ ts[i - 1] = <<"(">>
                 THEN LET c == make_command(tokenize(token))
                      IN  IF c = Error THEN Failed ELSE [m EXCEPT !.cmds = push(c, @)]
                 ELSE [m EXCEPT !.cmds = push(make_simple_command(WordsOf(token)), @)])

\* What is on top in the end is the command.
make_command(ts) ==
    LET m == Consume(ts, 1, [opers |-> <<>>, cmds |-> <<>>, ok |-> TRUE])
    IN  IF is_empty(m.cmds) THEN Error ELSE peer(m.cmds)

validate_all(tokens) == \A i \in DOMAIN tokens : validate(tokens[i])

\* The commands of the words ws of a script, or <<Error>>.
CommandsOf(tokens) ==
    LET cmds == [i \in DOMAIN tokens |-> make_command(tokens[i])]
    IN  IF ~validate_all(tokens) \/ Error \in Range(cmds) THEN <<Error>> ELSE cmds

TokensOf(ws) == [i \in DOMAIN ws |-> tokenize(ws[i])]

make_commands(text, junk) == CommandsOf(TokensOf(makeSeparation(text, junk)))

-----------------------------------------------------------------------------
(* command_indented_print(): pairs of an indent and a token.                *)

Label(type) == CASE type = "AND" -> <<"&", "&">> [] type = "SEQUENCE" -> <<";">>
                 [] type = "OR" -> <<"|", "|">> [] type = "PIPE" -> <<"|">>

RECURSIVE Printed(_, _)
Printed(c, indent) ==
    LET deeper(child) == indent + (IF child.type # c.type THEN 2 ELSE 0)
    IN  (CASE c.type = "SIMPLE" -> [i \in DOMAIN c.word |-> <<indent, <<c.word[i]>>>>]
           [] c.type = "SUBSHELL" ->
                <<<<indent, <<"(">>>>>> \o Printed(c.sub, indent + 1) \o <<<<indent, <<")">>>>>>
           [] OTHER -> Printed(c.left, deeper(c.left)) \o <<<<indent, Label(c.type)>>>>
                         \o Printed(c.right, deeper(c.right)))
        \o (IF c.input # Null THEN <<<<indent, <<"<">> \o c.input>>>> ELSE <<>>)
        \o (IF c.output # Null THEN <<<<indent, <<">">> \o c.output>>>> ELSE <<>>)

print_command(c) == Printed(c, 2)

=============================================================================
