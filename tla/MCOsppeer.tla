------------------------------ MODULE MCOsppeer ------------------------------
EXTENDS Osppeer, TLC

Sending(data) == [up |-> TRUE, src |-> [data |-> data, end |-> "eof"]]

\* A good peer, one that sends nothing, one that fails, one that sends too much, one
\* that stalls, one that is not there.
MCSends ==
    ("good" :> Sending(<<1, 2, 3, 4, 5>>)) @@ ("small" :> Sending(<<6>>)) @@ ("empty" :> Sending(<<>>))
    @@ ("fails" :> [up |-> TRUE, src |-> [data |-> <<7, 8>>, end |-> "error"]])
    @@ ("stalls" :> [up |-> TRUE, src |-> [data |-> <<7>>, end |-> "stall"]])
    @@ ("huge" :> Sending([i \in 1..10 |-> 10 + i]))
    @@ ("gone" :> [up |-> FALSE, src |-> NoSource]) @@ ("me" :> Sending(<<9>>))

\* The tracker lists the last peer first.  The list of "z" does not fit in the buffer.
MCListed ==
    ("f" :> <<"good", "huge", "me", "gone">>) @@ ("g" :> <<"small", "fails">>) @@ ("o" :> <<"small", "empty">>)
    @@ ("x" :> <<"small", "stalls">>) @@ ("z" :> [i \in 1..6 |-> "small"])

Get(name) == [wellFormed |-> TRUE, name |-> name]
None == [n \in {} |-> <<>>]
Case(wanted, old, n, request) == [wanted |-> wanted, disk |-> old, faults |-> n, request |-> request]

\* One file, with old ones and with a fault; the same file more than once; two files;
\* a file nobody has; a peer that stalls; a reply that is too long.
MCScenarios ==
    {Case(<<"f">>, <<"f", 0>> :> <<1, 1>>, 0, Get(<<"f", 1>>)),
     Case(<<"f">>, None, 1, Get(<<"f", 0>>)),
     Case(<<"g">>, (<<"g", 0>> :> <<1>>) @@ (<<"g", 1>> :> <<2>>), 0, [wellFormed |-> FALSE, name |-> <<"g", 0>>]),
     Case(<<"o">>, (<<"o", 0>> :> <<1>>), 1, Get(<<"o", 0>>)),
     Case(<<"o", "o">>, None, 1, Get(<<"o", 0>>)),
     Case(<<"o", "g">>, None, 0, Get(<<"g", 0>>)),
     Case(<<"h", "x">>, <<"h", 0>> :> <<1, 2, 3, 4>>, 0, Get(<<"h", 0>>)),
     Case(<<"z">>, None, 0, Get(<<"z", 0>>))}

\* The instance meets the hypothesis of the theorems of OsppeerProofs.
ASSUME InstanceAssumption == SmallFiles

=============================================================================
