--------------------------- MODULE ClientConsole ----------------------------
(***************************************************************************)
(* The user's side of newsclient (newsclient.cc): the menu, the prompts of *)
(* each command, and how cin is read for them, until a command is complete *)
(* and handed to the exchange with the server (NewsClient!GiveCommand).    *)
(*                                                                         *)
(* What the user types is a sequence of lines, a line a sequence of items  *)
(* with one blank between two.  A number that no int can hold is refused   *)
(* like a word, and takes the rest of its line with it just the same.      *)
(***************************************************************************)
EXTENDS Naturals, Sequences

CONSTANTS
  Lines,        \* what a line can be
  MaxLines      \* how many lines the user types at most

Item == ({"number"} \X Nat) \cup {<<"word">>, <<"#done">>}

ASSUME LinesAssumption == Lines \subseteq Seq(Item) /\ MaxLines \in Nat

VARIABLES
  input,        \* the lines cin can still give, numbered; of the first, what is left
  typed,        \* how many lines the user typed
  closed,       \* has the input ended?
  cut,          \* did it end without a newline after the last line?
  eof,          \* cin.eof()
  command,      \* the command being asked for, 0 at the menu
  prompts,      \* what is still to be read for it
  text,         \* the numbers of the lines that the article's text has so far
  stage,        \* "running", or how the process ended
  refused       \* the numbers of the lines that were refused, for the properties

vars == <<input, typed, closed, cut, eof, command, prompts, text, stage, refused>>
userVars == <<typed, closed, cut>>
dialogueVars == <<command, prompts, text>>

(* The prompts of each handler; "ignore" is cin.ignore(), which takes the  *)
(* newline or the blank that follows the number before it.                 *)
Prompts ==
  <<<<>>,                                                \* list newsgroups
    <<"ignore", "line">>,                                \* create newsgroup
    <<"int">>,                                           \* delete newsgroup
    <<"int">>,                                           \* list articles
    <<"int", "ignore", "line", "line", "text">>,         \* create an article
    <<"int", "int">>,                                    \* delete an article
    <<"int", "int">>>>                                   \* get an article

Init ==
  /\ input = <<>>
  /\ typed = 0
  /\ closed = FALSE
  /\ cut = FALSE
  /\ eof = FALSE
  /\ command = 0
  /\ prompts = <<>>
  /\ text = {}
  /\ stage = "running"
  /\ refused = {}

-----------------------------------------------------------------------------
(* cin *)

Items == IF input = <<>> THEN <<>> ELSE Head(input).items
Rest(line) == [line EXCEPT !.items = Tail(@)]

(* cin >> n skips newlines until it finds an item, if there is any. *)
Blank == \A i \in DOMAIN input : input[i].items = <<>>
FirstLine == CHOOSE i \in DOMAIN input :
               input[i].items # <<>> /\ \A j \in 1..i - 1 : input[j].items = <<>>
Skipped == SubSeq(input, FirstLine, Len(input))
NextItem == Head(Head(Skipped).items)

(* A number is taken, and eof set when the input ends right behind it.     *)
TakeNumber ==
  LET line == Rest(Head(Skipped))
      atEnd == cut /\ Len(Skipped) = 1 /\ line.items = <<>>
  IN  /\ ~Blank
      /\ NextItem[1] = "number"
      /\ input' = (IF atEnd THEN <<>> ELSE <<line>>) \o Tail(Skipped)
      /\ eof' = atEnd

Refuses == ~Blank /\ NextItem[1] # "number"

(* A faulty variant, which takes no more of the line than its first word.  *)
RefuseLine_one_word ==
  /\ Refuses
  /\ input' = <<Rest(Head(Skipped))>> \o Tail(Skipped)
  /\ UNCHANGED eof
  /\ refused' = refused \cup {Head(Skipped).nr}

(* No number: nothing is taken, then cin.ignore(max, '\n') takes the line. *)
RefuseLine ==
  /\ Refuses
  /\ input' = Tail(Skipped)
  /\ eof' = (cut /\ Len(Skipped) = 1)
  /\ refused' = refused \cup {Head(Skipped).nr}

(* Only the end of the input lets cin >> n fail without finding anything.  *)
NoNumber == Blank /\ closed /\ input' = <<>> /\ eof' = TRUE

(* getline takes what is left of the first line, or "" where nothing is.   *)
GetLine ==
  \/ input # <<>> /\ input' = Tail(input) /\ eof' = (cut /\ Len(input) = 1)
  \/ input = <<>> /\ closed /\ UNCHANGED input /\ eof' = TRUE

EmptyLine == Items = <<>>

-----------------------------------------------------------------------------
(* A faulty variant: a text that keeps the lines of the article before.    *)
ToMenu_keeping_text == command' = 0 /\ prompts' = <<>> /\ UNCHANGED text

ToMenu == command' = 0 /\ prompts' = <<>> /\ text' = {}

End(how) == stage' = how /\ ToMenu

Answered == prompts' = Tail(prompts) /\ UNCHANGED <<command, text, stage>>

(* main at the menu. *)
ReadCommand ==
  /\ command = 0
  /\ \/ /\ TakeNumber
        /\ LET n == NextItem[2]
           IN  CASE n = 0 -> End("exited")
                 [] n \in DOMAIN Prompts ->
                      command' = n /\ prompts' = Prompts[n] /\ UNCHANGED <<text, stage>>
                 [] OTHER -> UNCHANGED <<dialogueVars, stage>>
        /\ UNCHANGED refused
     \/ NoNumber /\ End("exited") /\ UNCHANGED refused
     \/ RefuseLine /\ UNCHANGED <<dialogueVars, stage>>

(* A faulty variant of read_int_cin, without check_for_eof. *)
read_int_cin_no_check ==
  \/ TakeNumber /\ Answered /\ UNCHANGED refused
  \/ NoNumber /\ UNCHANGED <<dialogueVars, stage, refused>>
  \/ RefuseLine /\ UNCHANGED <<dialogueVars, stage>>

read_int_cin ==
  \/ TakeNumber /\ Answered /\ UNCHANGED refused
  \/ NoNumber /\ End("exited") /\ UNCHANGED refused
  \/ RefuseLine /\ UNCHANGED <<dialogueVars, stage>>

(* An empty line, or none, is asked for again, whether or not the input    *)
(* has ended: check_for_eof comes after that loop.                         *)
read_line_cin ==
  /\ GetLine
  /\ \/ EmptyLine /\ UNCHANGED <<dialogueVars, stage>>
     \/ ~EmptyLine /\ eof' /\ End("exited")
     \/ ~EmptyLine /\ ~eof' /\ Answered
  /\ UNCHANGED refused

TextDone == input = <<>> \/ Items = <<<<"#done">>>>

(* A faulty variant: the end of the input taken for the end of the text.   *)
TextEnds_no_check ==
  \/ text = {} /\ End("aborted")
  \/ text # {} /\ Answered

(* What comes after the loop that reads the text: check_for_eof, and       *)
(* text.pop_back().  It makes of an empty text one of a length that cannot *)
(* be copied, and the program is terminated.                               *)
TextEnds ==
  \/ eof' /\ End("exited")
  \/ ~eof' /\ text = {} /\ End("aborted")
  \/ ~eof' /\ text # {} /\ Answered

ReadText ==
  /\ GetLine
  /\ \/ TextDone /\ TextEnds
     \/ ~TextDone /\ text' = text \cup {Head(input).nr} /\ UNCHANGED <<command, prompts, stage>>
  /\ UNCHANGED refused

Ignore ==
  /\ input' = IF input # <<>> /\ EmptyLine THEN Tail(input) ELSE input
  /\ Answered
  /\ UNCHANGED <<eof, refused>>

(* The exchange with the server, after which the menu comes back, unless   *)
(* the server is gone.                                                     *)
Exchange ==
  /\ command # 0 /\ prompts = <<>>
  /\ \/ ToMenu /\ UNCHANGED stage
     \/ End("exited")
  /\ UNCHANGED <<input, eof, refused>>

At(prompt) == prompts # <<>> /\ Head(prompts) = prompt

ClientNext ==
  /\ stage = "running"
  /\ \/ ReadCommand
     \/ At("int") /\ read_int_cin
     \/ At("ignore") /\ Ignore
     \/ At("line") /\ read_line_cin
     \/ At("text") /\ ReadText
     \/ Exchange
  /\ UNCHANGED userVars

(* The user may type ahead, and end the input after a line or within one.  *)
Type(line) ==
  /\ typed < MaxLines
  /\ input' = Append(input, [nr |-> typed + 1, items |-> line])
  /\ typed' = typed + 1

UserNext ==
  /\ stage = "running"
  /\ ~closed
  /\ \/ \E line \in Lines : Type(line) /\ UNCHANGED <<closed, cut>>
     \/ closed' = TRUE /\ UNCHANGED <<input, typed, cut>>
     \/ \E line \in Lines \ {<<>>} : Type(line) /\ closed' = TRUE /\ cut' = TRUE
  /\ UNCHANGED <<eof, dialogueVars, stage, refused>>

Next == ClientNext \/ UserNext

Spec == Init /\ [][Next]_vars

(* The program reads on as long as there is something to read. *)
FairSpec == Spec /\ WF_vars(ClientNext)

-----------------------------------------------------------------------------
(* cin.eof() means that the input has ended and that all of it was read;   *)
(* the dialogue is that of a command of the menu, and nothing of the       *)
(* article before is left in a text.                                       *)
TypeOK ==
  /\ eof => closed /\ input = <<>>
  /\ cut => closed
  /\ Len(input) <= typed /\ typed \in 0..MaxLines
  /\ command \in 0..Len(Prompts)
  /\ IF command = 0 THEN prompts = <<>>
     ELSE \E n \in 0..Len(Prompts[command]) :
            prompts = SubSeq(Prompts[command], n + 1, Len(Prompts[command]))
  /\ text # {} => command = 5 /\ (prompts = <<>> \/ At("text"))
  /\ stage \in {"running", "exited", "aborted"}

(* A line that was refused, at the menu or by read_int_cin, is gone with   *)
(* everything behind the word it was refused for: nothing of it is left to *)
(* answer another prompt or to be taken for a command.                     *)
RefusedIsGone ==
  \A i \in DOMAIN input : input[i].nr \notin refused

(* A name, title, author or text that the end of the input cut off is      *)
(* never sent: check_for_eof comes before the command is.                  *)
CutOffIsNotSent ==
  command \in {2, 5} /\ prompts = <<>> => ~eof

(* At the menu, where a number is asked for and in the middle of a text,   *)
(* the end of the input ends the program.                                  *)
EofEndsMostPrompts ==
  /\ stage = "running" /\ closed /\ input = <<>>
  /\ command = 0 \/ prompts = <<>> \/ At("int") \/ At("text")
  ~> stage = "exited"

(* newsclient.cc:254, the menu: "0. Exit the program (Ctrl+D)".  Whoever   *)
(* ends the input with Ctrl+D ends the program, at whatever prompt it is.  *)
EofEndsProgram == closed ~> stage # "running"

(* newsclient.cc:176 of text.pop_back(): "Removes last newline".  A text   *)
(* has a last newline when it is removed, or the string is left undefined. *)
TextHasNewline == stage # "aborted"

=============================================================================
