---------------------------- MODULE MCEpubMarkup ----------------------------
(***************************************************************************)
(* Small chapters: every tree of three elements and a few larger ones, with *)
(* every set of places that hold a text; and the paragraphs whose           *)
(* translation is put back.                                                 *)
(***************************************************************************)
EXTENDS EpubMarkup

Tree(tag, up) == [tag |-> tag, up |-> up]

\* A reading is in a ruby and holds text only; a ruby holds no block.
WellFormed(t) ==
  \A n \in 1..3 :
    /\ t.tag[n] = "rt" => t.up[n] # 0 /\ t.tag[t.up[n]] = "ruby"
    /\ t.up[n] # 0 => t.tag[t.up[n]] # "rt" /\ (t.tag[t.up[n]] = "ruby" => t.tag[n] # "ruby")
    /\ t.tag[n] = "p" => \A m \in 1..3 : t.tag[m] = "ruby" => ~Within(t, m, n)

MCChapters ==
  {t \in [tag : [1..3 -> {"p", "b", "ruby", "rt"}],
          up : {<<0, 1, 1>>, <<0, 1, 2>>, <<0, 0, 2>>, <<0, 0, 0>>, <<0, 1, 0>>}] : WellFormed(t)}
  \cup {Tree(<<"div", "b", "p", "ruby">>, <<0, 1, 2, 1>>), Tree(<<"div", "p", "b", "p">>, <<0, 1, 1, 3>>),
        Tree(<<"b", "p", "b", "p">>, <<0, 1, 1, 3>>), Tree(<<"div", "p", "b", "ruby">>, <<0, 1, 2, 3>>)}
MCMergedBlocks == {
  Tree(<<"p", "b", "br">>, <<0, 1, 2>>), Tree(<<"p", "b", "a">>, <<0, 1, 2>>),
  Tree(<<"p", "a", "b">>, <<0, 1, 2>>), Tree(<<"p", "b", "i">>, <<0, 1, 1>>),
  Tree(<<"p", "b", "b">>, <<0, 1, 1>>), Tree(<<"p", "b", "b">>, <<0, 1, 2>>),
  Tree(<<"p", "a", "a">>, <<0, 1, 1>>), Tree(<<"p", "ruby", "b">>, <<0, 1, 1>>),
  Tree(<<"p", "b", "ruby", "br">>, <<0, 1, 2, 1>>),
  Tree(<<"p", "br", "br", "a">>, <<0, 1, 1, 1>>)}
MCForeign == {[at |-> "open", tag |-> "b", node |-> 9], [at |-> "close", tag |-> "b", node |-> 9]}
=============================================================================
