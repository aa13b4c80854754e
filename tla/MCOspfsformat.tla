--------------------------- MODULE MCOspfsformat ---------------------------
(***************************************************************************)
(* Small trees, one for each case of ospfsformat.c.                        *)
(***************************************************************************)
EXTENDS OspfsformatSpec

File(data, size, ino) == [kind |-> "file", data |-> data, size |-> size, ino |-> ino]
Symlink(text, ino) == [kind |-> "symlink", text |-> text, long |-> FALSE, ino |-> ino]
Dir(tree) == [kind |-> "dir", tree |-> tree]
Option(name, text) == [kind |-> "symlink", name |-> name, text |-> text, long |-> FALSE, ino |-> 0]

Empty == File(<<>>, 0, 0)
Partial == File(<<"p">>, 1, 0)
Full == File(<<"f", "g">>, 4, 0)                    \* ends on a block boundary
Double == File(<<"a", "b", "c", "d", "e", "f", "g">>, 13, 0)
TooLarge == File([i \in 1..9 |-> "z"], 18, 0)

\* A file of each size, and directories of one level.
Sizes == [tree |-> [empty |-> Empty, full |-> Full, double |-> Double,
                    sub |-> Dir([partial |-> Partial, link |-> Symlink("full", 0)])],
          links |-> <<>>]

\* Files and symbolic links with two names, files with the same contents.
Links == [tree |-> [one |-> File(<<"p">>, 1, 7), two |-> File(<<"p">>, 1, 7), same |-> Partial,
                    l |-> Symlink("one", 8), sub |-> Dir([l |-> Symlink("one", 8), same |-> Partial])],
          links |-> <<Option("x", "two"), Option("y", "nowhere")>>]

\* Names that are left out.
LeavesOut == [tree |-> [CVS |-> Dir([partial |-> Partial]), far |-> [Symlink("far away", 0) EXCEPT !.long = TRUE],
                        sub |-> Dir([CVS |-> Dir(Zero), full |-> Full])],
              links |-> <<>>]

\* A directory with entries behind doubly indirect pointers.
ManyNames == [tree |-> [a |-> Empty, b |-> Partial],
              links |-> [i \in 1..12 |-> Option("l" \o ToString(i), "a")]]

\* Directories next to each other, and inside one another.
Wide == [tree |-> [u |-> Dir([full |-> Full]), v |-> Dir([w |-> Dir([double |-> Double])]), x |-> Dir(Zero),
                   y |-> Dir([partial |-> Partial])],
         links |-> <<>>]
Deep == [tree |-> [a |-> Dir([b |-> Dir([c |-> Dir([d |-> Dir([e |-> Dir([double |-> Double])])])])])],
         links |-> <<>>]

\* Trees there is no room for.
NoRoom == [tree |-> [a |-> Double, b |-> Double, c |-> Double], links |-> <<>>]
NoName == [tree |-> [toolong |-> Partial], links |-> <<>>]
NoPointers == [tree |-> [large |-> TooLarge], links |-> <<>>]

MCHosts == {Sizes, Links, LeavesOut, ManyNames, Wide, Deep, NoRoom, NoName, NoPointers}

=============================================================================
