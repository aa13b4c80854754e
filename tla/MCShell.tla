------------------------------- MODULE MCShell -------------------------------
EXTENDS ShellSpec

And == <<"&", "&">>
Or == <<"|", "|">>
Bar == <<"|">>
Semi == <<";">>

\* The tokens of a command written as one string per token.
Tok(s) == [i \in DOMAIN s |-> CASE s[i] = "&&" -> And [] s[i] = "||" -> Or [] OTHER -> <<s[i]>>]

\* Tokens separated by blanks, or a newline where the grammar allows one.
Spread(ts) == FlattenSeq([i \in DOMAIN ts |-> Append(ts[i], Blank)])
Lines(ts) == FlattenSeq([i \in DOMAIN ts |->
                 CASE ts[i] = Semi -> <<NL>> [] ts[i] \in Operators \ {Semi} -> ts[i] \o <<NL>>
                   [] OTHER -> Append(ts[i], Blank)])

Script(cmds, modes, layout(_)) ==
    [tokens |-> cmds, modes |-> modes,
     text |-> FlattenSeq([i \in DOMAIN cmds |-> layout(cmds[i]) \o <<NL, NL>>])]

Strings == UNION {[1..n -> {<<"a">>, Semi, Bar, And, Or}] : n \in 1..4}

Shapes == {<<"a", "b", "<", "x", "|", "c", ">", "y">>,
           <<"a", ";", "b", "||", "c", "&&", "d", "|", "e">>,
           <<"a", "|", "b", "|", "c", "&&", "d", ";", "e">>,
           <<"(", "a", ";", "b", "|", "c", ")", "<", "x", ">", "y", "&&", "d">>,
           <<"a", "&&", "(", "b", "||", "c", ")", "|", "d">>}

Printable ==
    {Script(<<s>>, {"p"}, Spread) : s \in Strings}
    \cup {Script(<<Tok(s)>>, {"p"}, Spread) : s \in Shapes}
    \cup {Script(<<Tok(s), <<<<"f">>>>>>, {"p"}, Lines) : s \in Shapes}

Runnable ==
    {<< <<"a", ">", "x">>, <<"b", "<", "x", ">", "y">>, <<"d", "y", "-o">>, <<"e">> >>,
     << <<"b", "<", "x">>, <<"a", ">", "x">>, <<"d", ">", "x">>, <<"e", "x">> >>,
     << <<"a", "|", "b", "|", "c", ">", "y">>, <<"d", "y">> >>,
     << <<"f", "&&", "a", "||", "d", ";", "e", ">", "y">> >>,
     << <<"m", "||", "a", "||", "d">>, <<"f", "&&", "e">> >>,
     << <<"(", "a", ";", "d", ")", ">", "y">>, <<"e">>, <<"b", "<", "y">> >>,
     << <<"(", "a", "|", "b", ")", ">", "y">>, <<"c", "<", "y">> >>,
     << <<"a", "|", "d">>, <<"e", ">", "y">> >>,
     << <<"a", "<", "z">> >>,
     << <<"a", ">", "y">>, <<"exec", "e", "y">> >>}

RunInputs == {Script([i \in DOMAIN s |-> Tok(s[i])], {"run", "t"}, Spread) : s \in Runnable}
MCInputs == Printable \cup RunInputs
MCWord == {"a", "b", "c", "d", "e", "f", "m", "x", "y", "z", "exec", "-o"}
MCFiles == ("x" :> <<"old">>)

=============================================================================
