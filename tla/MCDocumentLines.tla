-------------------------- MODULE MCDocumentLines --------------------------
EXTENDS DocumentLines

\* Slot i of a document has the words <<i, n>>
W(i, n) == <<i, n>>
Line(i, n) == <<W(i, n)>>
TwoLines(i, break) == <<W(i, 1), break, W(i, 2)>>
Item(kind, text, from, to) == [kind |-> kind, text |-> text, from |-> from, to |-> to]

MCSources ==
  {[format |-> "subtitle", slots |-> s] :
     s \in {<<TwoLines(1, Newline), Line(2, 1), TwoLines(3, OtherBreak)>>,
            <<Line(1, 1), TwoLines(2, Newline)>>}}
  \cup {[format |-> "scan", slots |-> s] :
     s \in {<<Item("paragraph", TwoLines(1, Newline), FALSE, TRUE), Item("paragraph", Line(2, 1), TRUE, FALSE),
              Item("list", Line(3, 1), FALSE, TRUE), Item("list", Line(4, 1), TRUE, FALSE)>>,
            <<Item("quote", TwoLines(1, OtherBreak), FALSE, TRUE), Item("paragraph", Line(2, 1), TRUE, FALSE)>>,
            <<Item("table", Line(1, 1) \o <<Newline, Newline>>, FALSE, FALSE)>>}}
  \cup {[format |-> "epub", slots |-> s] :
     s \in {<<TwoLines(1, OtherBreak), <<>>, Line(3, 1) \o Line(3, 2)>>}}
  \cup {[format |-> "manga", slots |-> s] :
     s \in {<<TwoLines(1, Newline), <<>>, Line(3, 1)>>}}
MCFolders ==
  {[format |-> "folder", slots |-> <<TwoLines(1, Newline) \o ending, Line(2, 1) \o ending>>] :
     ending \in {<<>>, <<Newline>>}}
MCAll == MCSources \cup MCFolders
============================================================================
