-------------------------- MODULE MCClientConsole ---------------------------
(* Lines that answer one prompt, none, or several at once, rightly and     *)
(* wrongly.  An article takes six lines, or four when the first has the    *)
(* command, the group and the title.                                       *)
EXTENDS ClientConsole

n(k) == <<"number", k>>
word == <<"word">>

MCLines ==
  {<<>>, <<word>>, <<<<"#done">>>>, <<n(0)>>, <<n(1)>>, <<n(2)>>, <<n(6), n(1), word, n(1)>>,
   <<n(5), n(1), word>>, <<word, n(8)>>}

=============================================================================
