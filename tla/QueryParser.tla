---------------------------- MODULE QueryParser ----------------------------
(***************************************************************************)
(* The translation of ODBC SQL (query_parser.c).  Three hand-written       *)
(* readers go over the same text: the splitter cuts it at the semicolons,  *)
(* the scanner renumbers the markers and rewrites the escapes of each      *)
(* fragment, and the select-list reader finds the columns that are string  *)
(* literals.  The server reads the text a fourth time.  The model reads a  *)
(* text of any length unit by unit, all readers in step, and asks whether  *)
(* they understand it alike.                                               *)
(*                                                                         *)
(* A unit is a character, or a run of characters that every reader takes   *)
(* together ("--", "/*", a dollar-quote delimiter, an escape up to its     *)
(* parenthesis).  "dq" is the double quote, "nl" the end of a line, "a"    *)
(* any letter but E, "blank" any space or operator, "brace" a closing      *)
(* brace, "?" a marker, in a call with its cast; "oj" {oj, "date" {d,      *)
(* "fn(" a function {fn NAME(, "space(" {fn SPACE(, "call(" {call p( and   *)
(* "?=call(" {?=call p(.  In a select list "star" is * for a table of two  *)
(* columns, "array" ARRAY[1, 2] and "distinct" IS DISTINCT FROM.           *)
(***************************************************************************)
EXTENDS Integers, Sequences, FiniteSets

CONSTANTS Careful,        \* the application avoids the spellings the readers disagree on
          MaxMarkers,     \* bound: markers of one fragment
          MaxArguments,   \* MAX_FN_ARGUMENTS (16 in the code)
          MaxLiteral,     \* QUERY_MAX_CALL_LITERAL (128 in the code)
          MaxCallArguments,  \* QUERY_MAX_CALL_ARGUMENTS (32 in the code)
          MaxEscapes,     \* bound: escapes open at once
          MaxNesting,     \* bound: comments open at once
          MaxParens,      \* bound: parentheses open at once
          MaxColumns      \* bound: columns of a select list

ASSUME ParserAssumption ==
  /\ Careful \in BOOLEAN
  /\ \A bound \in {MaxMarkers, MaxArguments, MaxLiteral, MaxCallArguments, MaxEscapes,
                   MaxNesting, MaxParens, MaxColumns} : bound \in Nat \ {0}

VARIABLES
  task,        \* what is read: a "statement" or the "columns" of a select list
  conforming,  \* standard_conforming_strings of the session
  peek,        \* the kind of the next unit, the only thing the readers look ahead for
  scan,        \* the Scanner of query_analyze, for the fragment being read
  split,       \* the state of query_split_statements
  columns,     \* the state of query_parse_select_columns
  server,      \* the server's own reading of the text
  hollow       \* ghost: a fragment without a command was kept for execution

vars == <<task, conforming, peek, scan, split, columns, server, hollow>>

Letters == {"a", "E"}
Blank == {"blank", "nl"}
Delimiters == {"$$", "$t$"}
Comments == {"--", "/*", "*/"}
Functions == {"fn(", "space("}
Calls == {"call(", "?=call("}
Raw == {"date"}
Brackets == {"(", ")", "comma"}

Statement == {"'", "dq", "\\", "?", "semicolon", "brace", "oj"} \union Letters \union Blank
               \union Delimiters \union Comments \union Functions \union Calls \union Raw \union Brackets
Several == {"star", "array", "distinct"}
SelectList == {"'", "dq", "\\", "from"} \union Letters \union Blank \union Delimiters
                \union Comments \union Brackets \union Several

Kinds == {"'", "dq", "?", "other", "end"}
KindOf(unit) == IF unit \in Kinds THEN unit ELSE "other"

\* A reader's lexical state: its mode, ScanState, the depth of a block comment, whether it
\* has consumed the next unit already ("skip"), and whether the character before continues
\* an identifier ("word").
Modes == {"normal", "single", "escape", "double", "line", "block"} \union Delimiters

----------------------------------------------------------------------------
(* The lexical contexts, which scanner and splitter spell out alike.       *)

QuotedStep(s, c, next) ==
  LET quote == IF s.mode = "double" THEN "dq" ELSE "'"
      backslashes == s.mode = "escape" \/ (s.mode = "single" /\ ~conforming)
  IN CASE c = "\\" /\ backslashes -> [s EXCEPT !.skip = next # "end"]
       [] c = quote /\ next = quote -> [s EXCEPT !.skip = TRUE]
       [] c = quote /\ next # quote -> [s EXCEPT !.mode = "normal", !.word = FALSE]
       [] OTHER -> s

\* Mutant: as C has them, where the first closing delimiter ends a comment.
CommentStepFlat(s, c) ==
  IF c = (IF s.mode = "line" THEN "nl" ELSE "*/")
  THEN [s EXCEPT !.mode = "normal", !.depth = 0, !.word = FALSE] ELSE s

\* Block comments nest.
CommentStep(s, c) ==
  CASE s.mode = "line" /\ c = "nl" -> [s EXCEPT !.mode = "normal", !.word = FALSE]
    [] s.mode = "block" /\ c = "/*" -> [s EXCEPT !.depth = @ + 1]
    [] s.mode = "block" /\ c = "*/" ->
         [s EXCEPT !.depth = @ - 1, !.mode = IF s.depth = 1 THEN "normal" ELSE @, !.word = FALSE]
    [] OTHER -> s

\* A dollar-quoted body runs to the delimiter that opened it.
DollarStep(s, c) == IF c = s.mode THEN [s EXCEPT !.mode = "normal", !.word = FALSE] ELSE s

InsideStep(s, c, next) ==
  CASE s.mode \in {"single", "escape", "double"} -> QuotedStep(s, c, next)
    [] s.mode \in {"line", "block"} -> CommentStep(s, c)
    [] s.mode \in Delimiters -> DollarStep(s, c)

\* What a unit of ordinary text opens.  The E of an escape string need not start a word;
\* a dollar quote does not open where an identifier continues (dollar_can_open_here).
Opened(s, c, next) ==
  CASE c = "E" /\ next = "'" -> [s EXCEPT !.mode = "escape", !.skip = TRUE]
    [] c \in Delimiters /\ ~s.word -> [s EXCEPT !.mode = c]
    [] c = "'" -> [s EXCEPT !.mode = "single"]
    [] c = "dq" -> [s EXCEPT !.mode = "double"]
    [] c = "--" -> [s EXCEPT !.mode = "line"]
    [] c = "/*" -> [s EXCEPT !.mode = "block", !.depth = 1]
    [] OTHER -> [s EXCEPT !.word = c \in Letters]

----------------------------------------------------------------------------
(* The splitter: a semicolon of ordinary text ends a fragment.             *)

NoSplit == [mode |-> "normal", depth |-> 0, skip |-> FALSE, word |-> FALSE, text |-> FALSE]

\* Mutant: every fragment is kept.
KeptAlways(s) == TRUE

\* statement_list_append_range keeps a fragment that is more than white space.
Kept(s) == s.text

Ends(s, c) == c = "semicolon" /\ s.mode = "normal" /\ ~s.skip

SplitStep(s, c, next) ==
  IF Ends(s, c) THEN NoSplit
  ELSE LET read == CASE s.skip -> [s EXCEPT !.skip = FALSE]
                     [] ~s.skip /\ s.mode = "normal" -> Opened(s, c, next)
                     [] ~s.skip /\ s.mode # "normal" -> InsideStep(s, c, next)
       IN [read EXCEPT !.text = @ \/ c \notin Blank]

----------------------------------------------------------------------------
(* The scanner.  Besides the lexical contexts it is "raw" in a date escape *)
(* and copies to the brace, in "call" takes the arguments of a procedure   *)
(* call apart, in "tail" skips to the brace after them, and is "closing"   *)
(* after a function's last parenthesis.  "count" is param_number, "out"    *)
(* the markers the text or the recorded arguments mention so far,          *)
(* "arguments" is call_argument_count.                                     *)

NoScan == [mode |-> "normal", depth |-> 0, skip |-> FALSE, word |-> FALSE,
           stack |-> <<>>, count |-> 0, out |-> {}, parens |-> 0, literal |-> FALSE, length |-> 0,
           arguments |-> 0]

ScanModes == Modes \union {"raw", "call", "tail", "closing"}

Top(s) == s.stack[Len(s.stack)]
Pop(s) == SubSeq(s.stack, 1, Len(s.stack) - 1)
InFunction(s) == s.stack # <<>> /\ Top(s).kind # "oj"
InJoin(s) == s.stack # <<>> /\ Top(s).kind = "oj"

\* emit_parameter_marker.
Marker(s) == [s EXCEPT !.count = @ + 1, !.out = @ \union {s.count + 1}, !.word = TRUE]

\* {fn NAME( : the arguments are collected in buffers of their own.
OpenFunction(s, c) ==
  [s EXCEPT !.stack = Append(@, [kind |-> c, outer |-> s.out, args |-> <<>>, parens |-> 1]),
            !.out = {}, !.word = FALSE]

\* More arguments than the table holds: what was collected is dropped and the scan goes on.
Dropped(s) == [s EXCEPT !.stack = Pop(s), !.out = Top(s).outer]

EndArgument(s) ==
  IF Len(Top(s).args) < MaxArguments
  THEN [s EXCEPT !.stack[Len(s.stack)].args = Append(@, s.out), !.out = {}, !.word = FALSE]
  ELSE Dropped(s)

\* Mutant: the last argument is forgotten.
TextOfAllButLast(frame, args) == UNION {args[i] : i \in 1..(Len(args) - 1)}

\* emit_function_template: a template names arguments by number, SPACE only the first; a
\* function without one gets them all.
TextOf(frame, args) ==
  IF frame.kind = "space(" THEN args[1] ELSE UNION {args[i] : i \in DOMAIN args}

CloseFunction(s) ==
  IF Len(Top(s).args) < MaxArguments
  THEN [s EXCEPT !.out = Top(s).outer \union TextOf(Top(s), Append(Top(s).args, s.out)),
                 !.stack = Pop(s), !.mode = "closing", !.word = FALSE]
  ELSE Dropped(s)

\* collect_function_arguments on a parenthesis or a comma of ordinary text.
ArgumentStep(s, c) ==
  LET depth == Top(s).parens
  IN CASE c = "comma" /\ depth = 1 -> EndArgument(s)
       [] c = "comma" /\ depth # 1 -> [s EXCEPT !.word = FALSE]
       [] c = "(" -> [s EXCEPT !.stack[Len(s.stack)].parens = @ + 1, !.word = FALSE]
       [] c = ")" /\ depth = 1 -> CloseFunction(s)
       [] c = ")" /\ depth # 1 -> [s EXCEPT !.stack[Len(s.stack)].parens = @ - 1, !.word = FALSE]

\* { call p( and { ? = call p( : the return value counts as a marker and is never emitted.
OpenCall(s, c) ==
  LET opened == IF c = "?=call(" THEN Marker(s) ELSE s
  IN [opened EXCEPT !.mode = "call", !.parens = 1, !.literal = FALSE, !.length = 0, !.word = FALSE]

\* What an argument is recorded in: there are QUERY_MAX_CALL_ARGUMENTS of them.
Recorded(s) == IF s.arguments < MaxCallArguments THEN s.arguments + 1 ELSE s.arguments

\* A marker is an argument by itself; one too many is counted and forgotten.
CallMarker(s) ==
  [s EXCEPT !.count = @ + 1, !.arguments = Recorded(s), !.word = TRUE,
            !.out = IF s.arguments < MaxCallArguments THEN @ \union {s.count + 1} ELSE @]

EndLiteral(s) == [s EXCEPT !.literal = FALSE, !.length = 0, !.arguments = Recorded(s)]

\* Mutant: parentheses inside an argument are not counted.
CallLiteralStepFlat(s, c) ==
  CASE c = "comma" -> EndLiteral(s)
    [] c = ")" -> [EndLiteral(s) EXCEPT !.mode = "tail", !.parens = 0]
    [] OTHER -> [s EXCEPT !.literal = TRUE, !.length = @ + 1]

\* A literal argument: copied raw to the next comma or parenthesis of its own depth, or to
\* the size of the argument's buffer.
CallLiteralStep(s, c) ==
  LET copied == [s EXCEPT !.literal = TRUE, !.length = @ + 1]
  IN CASE c = "comma" /\ s.parens = 1 -> EndLiteral(s)
       [] c = ")" /\ s.parens = 1 -> [EndLiteral(s) EXCEPT !.mode = "tail", !.parens = 0]
       [] c = "(" -> [copied EXCEPT !.parens = @ + 1]
       [] c = ")" /\ s.parens # 1 -> [copied EXCEPT !.parens = @ - 1]
       [] OTHER -> copied

\* parse_call_arguments.  After a marker, as after a literal that fills its buffer, the
\* next argument begins, whether or not there is a comma.
CallStep(s, c, next) ==
  LET here == IF s.literal /\ s.length = MaxLiteral THEN EndLiteral(s) ELSE s
  IN CASE here.literal -> CallLiteralStep(here, c)
       [] ~here.literal /\ c \in Blank \union {"comma"} -> here
       [] ~here.literal /\ c = ")" -> [here EXCEPT !.mode = "tail", !.parens = 0]
       [] ~here.literal /\ c = "?" /\ next # "?" -> CallMarker(here)
       [] OTHER -> CallLiteralStep(here, c)

\* scan_step on ordinary text.
NormalStep(s, c, next) ==
  CASE c = "?" /\ next = "?" -> [s EXCEPT !.skip = TRUE, !.word = FALSE]
    [] c = "?" /\ next # "?" -> Marker(s)
    [] c \in Functions -> OpenFunction(s, c)
    [] c \in Calls -> OpenCall(s, c)
    [] c \in Raw -> [s EXCEPT !.mode = "raw"]
    [] c = "oj" -> [s EXCEPT !.stack = Append(@, [kind |-> c, outer |-> {}, args |-> <<>>,
                                              parens |-> 0])]
    [] c = "brace" /\ InJoin(s) -> [s EXCEPT !.stack = Pop(s)]
    [] c \in Brackets /\ InFunction(s) -> ArgumentStep(s, c)
    [] OTHER -> Opened(s, c, next)

\* After the last parenthesis white space and the brace are consumed, if they are there.
ClosingStep(s, c, next) ==
  CASE c \in Blank -> s
    [] c = "brace" -> [s EXCEPT !.mode = "normal"]
    [] OTHER -> NormalStep([s EXCEPT !.mode = "normal"], c, next)

\* Date escapes, LIKE escapes and the end of a call: to the first brace, quoted or not.
BraceStep(s, c) == IF c = "brace" THEN [s EXCEPT !.mode = "normal", !.word = s.mode = "raw"] ELSE s

ScanStep(s, c, next) ==
  CASE s.skip -> [s EXCEPT !.skip = FALSE]
    [] ~s.skip /\ s.mode = "normal" -> NormalStep(s, c, next)
    [] ~s.skip /\ s.mode = "closing" -> ClosingStep(s, c, next)
    [] ~s.skip /\ s.mode = "call" -> CallStep(s, c, next)
    [] ~s.skip /\ s.mode \in {"raw", "tail"} -> BraceStep(s, c)
    [] ~s.skip /\ s.mode \in Modes \ {"normal"} -> InsideStep(s, c, next)

----------------------------------------------------------------------------
(* query_parse_select_columns, after the word SELECT.  It knows literals   *)
(* and identifiers in quotes and parentheses, and finds FROM anywhere.     *)

NoColumns == [mode |-> "normal", skip |-> FALSE, start |-> TRUE, literal |-> FALSE,
              parens |-> 0, count |-> 0, done |-> FALSE]

\* Mutant: parentheses of an expression are not counted.
SkipSelectTokenFlat(s, c) ==
  CASE c = "'" -> [s EXCEPT !.mode = "single"]
    [] c = "dq" -> [s EXCEPT !.mode = "double"]
    [] OTHER -> s

\* skip_select_token and measure_string_literal: literals, identifiers and parentheses.
SkipSelectToken(s, c) ==
  CASE c = "'" -> [s EXCEPT !.mode = "single"]
    [] c = "dq" -> [s EXCEPT !.mode = "double"]
    [] c = "(" -> [s EXCEPT !.parens = @ + 1]
    [] c = ")" -> [s EXCEPT !.parens = @ - 1]
    [] OTHER -> s

SkipQuoted(s, c, next) ==
  LET quote == IF s.mode = "double" THEN "dq" ELSE "'"
  IN CASE s.skip -> [s EXCEPT !.skip = FALSE]
       [] ~s.skip /\ c = quote /\ next = quote -> [s EXCEPT !.skip = TRUE]
       [] ~s.skip /\ c = quote /\ next # quote -> [s EXCEPT !.mode = "normal"]
       [] OTHER -> s

ColumnStep(s, c, next) ==
  LET here == IF s.start THEN [s EXCEPT !.start = FALSE, !.literal = c = "'"] ELSE s
  IN CASE s.done -> s
       [] ~s.done /\ s.mode # "normal" -> SkipQuoted(s, c, next)
       [] ~s.done /\ s.mode = "normal" /\ s.start /\ c \in Blank -> s
       [] ~s.done /\ s.mode = "normal" /\ c \in {"from", "distinct"} /\ s.parens = 0 ->
            [here EXCEPT !.count = @ + 1, !.done = TRUE]
       [] ~s.done /\ s.mode = "normal" /\ c = "array" /\ s.parens = 0 ->
            [here EXCEPT !.count = @ + 1]
       [] ~s.done /\ s.mode = "normal" /\ c = "comma" /\ s.parens = 0 ->
            [here EXCEPT !.count = @ + 1, !.start = TRUE, !.literal = FALSE]
       [] OTHER -> SkipSelectToken(here, c)

----------------------------------------------------------------------------

InEscape == scan.stack # <<>> \/ scan.mode \in {"raw", "call", "tail"}

InArguments ==
  scan.mode = "call" \/ \E i \in DOMAIN scan.stack : scan.stack[i].kind # "oj"

----------------------------------------------------------------------------
(* The server's lexer: an escape string only where E starts a word, and a  *)
(* literal that a new line interrupts goes on in its own kind.  It also    *)
(* counts, for reference, the open parentheses of an argument list, the    *)
(* arguments of calls ("argument" while it is in one), the columns that    *)
(* have ended and the markers outside literals.                            *)

NoServer == [mode |-> "normal", depth |-> 0, skip |-> FALSE, word |-> FALSE, resume |-> "no",
             parens |-> 0, commas |-> 0, markers |-> 0, content |-> "none", from |-> FALSE,
             arguments |-> 0, argument |-> FALSE]

ServerInside(s, c, next) ==
  LET closer == CASE s.mode \in {"single", "escape"} -> "'"
                  [] s.mode = "double" -> "dq"
                  [] s.mode = "line" -> "nl"
                  [] s.mode = "block" -> "*/"
                  [] s.mode \in Delimiters -> s.mode
      escapes == s.mode = "escape" \/ (s.mode = "single" /\ ~conforming)
      doubled == c \in {"'", "dq"} /\ next = c
  IN CASE c = "\\" /\ escapes -> [s EXCEPT !.skip = next # "end"]
       [] c = "/*" /\ s.mode = "block" -> [s EXCEPT !.depth = @ + 1]
       [] c = closer /\ s.depth > 1 -> [s EXCEPT !.depth = @ - 1]
       [] c = closer /\ s.depth <= 1 /\ doubled -> [s EXCEPT !.skip = TRUE]
       [] c = closer /\ s.depth <= 1 /\ ~doubled ->
            [s EXCEPT !.mode = "normal", !.depth = 0, !.word = FALSE]
       [] OTHER -> s

ServerText(s, c, next) ==
  CASE c = "E" /\ next = "'" /\ ~s.word -> [s EXCEPT !.mode = "escape", !.skip = TRUE]
    [] c = "'" /\ s.resume = "broken" -> [s EXCEPT !.mode = "escape"]
    [] c = "?" /\ next = "?" -> [s EXCEPT !.skip = TRUE, !.word = FALSE]
    [] c = "?" /\ next # "?" -> [s EXCEPT !.markers = @ + 1]
    [] c \in Functions \union {"(", "call("} -> [s EXCEPT !.parens = @ + 1, !.word = FALSE]
    [] c = "?=call(" -> [s EXCEPT !.parens = @ + 1, !.markers = @ + 1, !.word = FALSE]
    [] c = ")" -> [s EXCEPT !.parens = @ - 1, !.word = FALSE]
    [] c \in {"comma", "star"} /\ task = "columns" /\ s.parens = 0 ->
         [s EXCEPT !.commas = @ + 1, !.word = FALSE]
    [] c = "from" /\ s.parens = 0 /\ ~s.word -> [s EXCEPT !.from = TRUE]
    [] c \in Delimiters /\ ~s.word -> [s EXCEPT !.mode = c]
    [] c = "'" /\ s.resume # "broken" -> [s EXCEPT !.mode = "single"]
    [] c = "dq" -> [s EXCEPT !.mode = "double"]
    [] c = "--" -> [s EXCEPT !.mode = "line"]
    [] c = "/*" -> [s EXCEPT !.mode = "block", !.depth = 1]
    [] OTHER -> [s EXCEPT !.word = c \in Letters]

\* An argument of a call begins, or ends at a comma or parenthesis of the call's own.
Begins(s, c) ==
  /\ scan.mode = "call" /\ s.mode = "normal" /\ ~s.argument
  /\ c \notin Blank \union Comments \union {"comma", ")"}
Finishes(s, c) == scan.mode = "call" /\ s.mode = "normal" /\ s.parens = 1 /\ c \in {"comma", ")"}

ServerStep(s, c, next) ==
  LET resume == CASE s.mode = "escape" /\ c = "'" /\ next # "'" -> "closed"
                  [] c = "nl" /\ s.resume # "no" -> "broken"
                  [] c = "blank" -> s.resume
                  [] OTHER -> "no"
      read == CASE s.skip -> [s EXCEPT !.skip = FALSE]
                [] ~s.skip /\ s.mode = "normal" -> ServerText(s, c, next)
                [] ~s.skip /\ s.mode # "normal" -> ServerInside(s, c, next)
      counted == task = "columns" \/ InArguments \/ c \in Functions \union Calls
      content == CASE s.mode # "normal" \/ c \in Blank -> s.content
                   [] s.mode = "normal" /\ c \in Comments ->
                        IF s.content = "none" THEN "comment" ELSE s.content
                   [] OTHER -> "command"
  IN IF Ends(s, c) THEN NoServer
     ELSE [read EXCEPT !.resume = IF s.skip THEN "no" ELSE resume,
                       !.parens = IF counted THEN @ ELSE s.parens,
                       !.content = content,
                       !.arguments = IF Begins(s, c) THEN @ + 1 ELSE @,
                       !.argument = (@ \/ Begins(s, c)) /\ ~Finishes(s, c)]

----------------------------------------------------------------------------
(* The text.                                                               *)

\* The units that may come here, within the bounds.
InPlace(c) ==
  \/ server.skip
  \/ /\ server.mode = "block"
     /\ c = "/*" => server.depth < MaxNesting
  \/ server.mode \notin {"normal", "block"}
  \/ /\ server.mode = "normal"
     /\ c = "*/" => FALSE
     /\ c = "semicolon" => ~InEscape
     /\ c = "?" => server.markers < MaxMarkers /\ scan.mode \notin {"raw", "tail"}
     /\ c \in Delimiters => ~scan.word /\ ~split.word /\ scan.mode \notin {"raw", "closing", "tail"}
     /\ c = "(" => server.parens < MaxParens /\ scan.mode \notin {"raw", "tail"}
     /\ c = ")" => /\ task = "columns" => server.parens > 0
                   /\ scan.mode \notin {"raw", "tail"}
     /\ c \in {"star", "array"} => server.commas < MaxColumns /\ columns.count <= MaxColumns
     /\ c = "comma" => /\ task = "columns" => server.commas < MaxColumns
                       /\ scan.mode \notin {"raw", "tail"}
     /\ c = "brace" => \/ scan.mode \in {"raw", "tail", "closing"}
                       \/ scan.mode = "normal" /\ InJoin(scan)
     /\ c \in Functions \union Raw \union {"oj"} \union Calls =>
          /\ Len(scan.stack) < MaxEscapes
          /\ scan.mode = "normal"
     /\ c \in Functions \union Calls => server.parens < MaxParens
     /\ c = "oj" => scan.stack = <<>>
     /\ c \in Calls => scan.stack = <<>> /\ server.markers < MaxMarkers
     \* The brace comes right after the last parenthesis of a function.
     /\ scan.mode = "closing" => c \in Blank \union {"brace"}
     /\ scan.mode = "tail" => c \in Blank \union {"brace"}
     \* A call is the last thing in its statement.
     /\ scan.mode = "normal" /\ server.arguments > 0 => c \in Blank \union Comments \union {"semicolon"}

\* A select list ends at its FROM.
WellFormed(c) ==
  /\ ~server.from
  /\ Begins(server, c) => server.arguments <= MaxCallArguments
  /\ InPlace(c)

\* The fragment read so far has comments in it, and nothing else.
OnlyComment == server.content = "comment"

\* The spellings the readers are known to take differently.
Spelled(c) ==
  \* name'...' : the E that ends a word before a quote
  /\ server.mode = "normal" /\ c = "E" => ~server.word
  \* an escape string resumed on the next line
  /\ server.resume = "broken" => c # "'"
  \* a separator or a brace quoted inside text that is copied raw
  /\ scan.mode \in {"raw", "call"} /\ server.mode # "normal" => c \notin Brackets \union {"brace"}
  \* a marker or a comment inside an expression of a call
  /\ scan.mode = "call" => c \notin Comments \union Delimiters
  /\ scan.mode = "call" /\ server.mode = "normal" /\ c = "?" => ~scan.literal
  \* text after a marker of a call, other than its cast
  /\ scan.mode = "call" /\ ~scan.literal /\ server.argument =>
       c \in Blank \union {"comma", ")"}
  \* more arguments of a call than are kept
  /\ Begins(server, c) => scan.arguments < MaxCallArguments
  \* a literal longer than its buffer
  /\ scan.mode = "call" /\ scan.length = MaxLiteral =>
       server.mode = "normal" /\ scan.parens = 1 /\ c \in {"comma", ")"}
  \* a number of arguments the function's template does not name
  /\ InFunction(scan) /\ scan.mode = "normal" /\ c = "comma" /\ Top(scan).parens = 1 =>
       Top(scan).kind = "fn(" /\ Len(Top(scan).args) < MaxArguments - 1
  \* a fragment that is nothing but a comment
  /\ Ends(split, c) => ~OnlyComment
  \* in a select list, what its reader does not know, and a name that ends in "from"
  /\ task = "columns" /\ server.mode = "normal" =>
       /\ c \notin Comments \union Delimiters \union {"E"}
       /\ c \in Several => server.parens > 0
       /\ c = "from" => ~server.word
  /\ task = "columns" /\ server.mode = "single" /\ ~conforming => c # "\\"

Admissible(c) ==
  /\ c \in IF task = "columns" THEN SelectList ELSE Statement
  /\ KindOf(c) = peek
  /\ WellFormed(c)
  /\ Careful => Spelled(c)

\* A fragment that ends here is executed although the server finds no command in it.
EndsHollow == Kept(split) /\ server.content # "command"

\* One unit more of the text, read by everyone.
ReadUnit ==
  \E c \in Statement \union SelectList, next \in Kinds :
    /\ Admissible(c)
    /\ peek' = next
    /\ server' = ServerStep(server, c, next)
    /\ IF task = "columns"
       THEN /\ columns' = ColumnStep(columns, c, next)
            /\ UNCHANGED <<scan, split, hollow>>
       ELSE /\ split' = SplitStep(split, c, next)
            /\ scan' = IF Ends(split, c) THEN NoScan ELSE ScanStep(scan, c, next)
            /\ hollow' = (hollow \/ (Ends(split, c) /\ EndsHollow))
            /\ UNCHANGED columns
    /\ UNCHANGED <<task, conforming>>

Init ==
  /\ task \in {"statement", "columns"}
  /\ conforming \in BOOLEAN
  /\ peek \in Kinds
  /\ scan = NoScan
  /\ split = NoSplit
  /\ columns = NoColumns
  /\ server = NoServer
  /\ hollow = FALSE

\* The text ends, or the model gives it up; another one comes.
NextText ==
  /\ peek = "end" \/ \A c \in Statement \union SelectList : ~Admissible(c)
  /\ hollow' = (hollow \/ /\ peek = "end"
                          /\ task = "statement"
                          /\ EndsHollow
                          /\ Careful => ~OnlyComment)
  /\ task' \in {"statement", "columns"}
  /\ conforming' \in BOOLEAN
  /\ peek' \in Kinds
  /\ scan' = NoScan
  /\ split' = NoSplit
  /\ columns' = NoColumns
  /\ server' = NoServer

Next == ReadUnit \/ NextText

Spec == Init /\ [][Next]_vars

----------------------------------------------------------------------------
\* Properties.

\* No reader is in the middle of a pair of units.
Aligned == ~scan.skip /\ ~split.skip /\ ~server.skip /\ ~columns.skip

\* The parentheses of function arguments that the scanner knows to be open, each by its
\* function and its depth there, and with those of a call their number.
Parens(stack) == UNION {{i} \X (1..stack[i].parens) : i \in DOMAIN stack}

OpenParens(s) == Cardinality(Parens(s.stack)) + (IF s.mode = "call" THEN s.parens ELSE 0)

\* Splitter, scanner and server agree on what is a literal, an identifier, a comment or
\* ordinary text: a semicolon or a marker is one for all of them or for none
\* (query_parser.c:973-1166, 1457-1618).
LexersAgree ==
  (task = "statement" /\ Aligned) =>
    /\ split.mode = server.mode /\ split.depth = server.depth
    /\ scan.mode \in Modes => scan.mode = server.mode /\ scan.depth = server.depth

\* The arguments of functions and calls are taken apart where the server would: at commas
\* and parentheses outside literals and at the right depth; and as many arguments of a
\* call are recorded as the server finds in it (query_parser.c:356-453, 634-730).
ArgumentsAreWhole ==
  (task = "statement" /\ Aligned) =>
    /\ InArguments /\ server.mode = "normal" => OpenParens(scan) = server.parens
    /\ scan.mode = "call" /\ ~scan.literal => server.mode = "normal"
    /\ (scan.mode = "call" => ~scan.literal) => scan.arguments = server.arguments

\* Where no escape is open, every marker outside literals has been counted, and every
\* counted marker is mentioned by the text or by an argument: the server is sent as many
\* values as the statement it gets has parameters (query_parser.c:285-311, 459-486;
\* statement.c:1674-1679).
MarkersReachServer ==
  (task = "statement" /\ Aligned /\ ~InEscape /\ scan.mode = "normal") =>
    /\ scan.count = server.markers
    /\ scan.out = 1..scan.count

\* What is kept for execution is a command: an empty fragment never becomes one
\* (query_parser.c:1407-1455).
FragmentsAreCommands == ~hollow

\* The overrides of a select list line up with the server's columns, by whose
\* numbers they are looked up (query_parser.c:1315-1405, results.c:1972).  It is about
\* lists without comments, dollar quotes, E'...', stars and the like (Spelled).
OverridesMatchColumns ==
  (task = "columns" /\ Aligned /\ server.mode = "normal") =>
    columns.count = server.commas + (IF server.from THEN 1 ELSE 0)

============================================================================
