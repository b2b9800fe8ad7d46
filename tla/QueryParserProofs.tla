-------------------------- MODULE QueryParserProofs --------------------------
(***************************************************************************)
(* The readers of the query parser, for a text of any length and within    *)
(* any bounds.  The invariant relates each of them to the lexer of the     *)
(* server: the splitter and the scanner are in its mode at its depth, the  *)
(* parentheses the scanner counts, function by function, add up to the     *)
(* server's, and the markers it has numbered are those the text and the    *)
(* arguments collected so far mention.  Each reader's step is described    *)
(* first by cases, by itself; the cases are then put side by side.         *)
(***************************************************************************)
EXTENDS QueryParser, FiniteSetTheorems, SequenceTheorems, TLAPS

\* The states of each reader, and one argument list on the scanner's stack.
SplitState == [mode: Modes, depth: Int, skip: BOOLEAN, word: BOOLEAN, text: BOOLEAN]

Frame == [kind: Functions \union {"oj"}, outer: SUBSET Int, args: Seq(SUBSET Int), parens: Int]

ScanState == [mode: ScanModes, depth: Int, skip: BOOLEAN, word: BOOLEAN, stack: Seq(Frame),
              count: Nat, out: SUBSET Int, parens: Int, literal: BOOLEAN, length: Nat,
              arguments: Nat]

ColumnState == [mode: Modes, skip: BOOLEAN, start: BOOLEAN, literal: BOOLEAN, parens: Int,
                count: Nat, done: BOOLEAN]

ServerState == [mode: Modes, depth: Int, skip: BOOLEAN, word: BOOLEAN,
                resume: {"no", "closed", "broken"}, parens: Int, commas: Nat, markers: Nat,
                content: {"none", "comment", "command"}, from: BOOLEAN,
                arguments: Nat, argument: BOOLEAN]

TypeOK == scan \in ScanState /\ split \in SplitState /\ server \in ServerState

Unbroken == {"line", "block"} \union Delimiters

\* The reader of the select list keeps to the server until the list ends.
ListInv ==
  /\ server.mode \in {"normal", "single", "double"} /\ server.depth = 0 /\ server.resume = "no"
  /\ server.skip => server.mode # "normal"
  /\ server.from <=> columns.done
  /\ ~columns.done =>
       /\ columns.mode = server.mode
       /\ columns.skip <=> server.skip
       /\ columns.parens = server.parens
  /\ columns.count = server.commas + (IF server.from THEN 1 ELSE 0)

\* The server's own reading.
ServerInv ==
  /\ IF server.mode = "block" THEN server.depth > 0 ELSE server.depth = 0
  /\ server.skip => server.mode \notin Unbroken
  /\ server.skip /\ server.mode = "normal" => peek = "?" /\ ~server.word
  /\ server.mode # "normal" \/ server.skip => server.content # "none"
  /\ ~server.from

\* The splitter keeps to the server, but for the marker that is escaped by another.
SplitInv ==
  /\ split.mode = server.mode /\ split.depth = server.depth
  /\ split.skip <=> server.skip /\ server.mode # "normal"
  /\ split.text <=> server.content # "none"
  /\ server.word /\ server.mode = "normal" => split.word \/ scan.word

\* The scanner keeps to the server where it reads the text itself; what it copies raw may
\* have anything in it.
ScanInv ==
  /\ IF scan.mode \in Modes
     THEN scan.mode = server.mode /\ scan.depth = server.depth /\ (scan.skip <=> server.skip)
     ELSE scan.depth = 0 /\ ~scan.skip
  /\ scan.mode \in {"tail", "closing"} => server.mode = "normal" /\ ~server.skip
  /\ scan.mode = "call" /\ ~scan.literal => server.mode = "normal" /\ ~server.skip

\* The functions whose arguments are being collected, within a join at most.
FrameInv(i, frame) ==
  IF frame.kind = "oj"
  THEN i = 1 /\ frame.outer = {} /\ frame.args = <<>> /\ frame.parens = 0
  ELSE /\ frame.parens > 0
       /\ Len(frame.args) < MaxArguments
       /\ frame.kind = "space(" => frame.args = <<>>

FramesInv == \A i \in 1..Len(scan.stack) : FrameInv(i, scan.stack[i])

CallInv ==
  scan.mode = "call" =>
    /\ scan.stack = <<>>
    /\ ~scan.literal => scan.parens = 1 /\ scan.length = 0

ParensInv == IsFiniteSet(Parens(scan.stack)) /\ OpenParens(scan) = server.parens

\* The markers that the text and the arguments collected so far mention.
MentionedIn(frame) == frame.outer \union UNION {frame.args[i] : i \in DOMAIN frame.args}
Mentioned(s) == s.out \union UNION {MentionedIn(s.stack[i]) : i \in DOMAIN s.stack}

MarkersInv == scan.count = server.markers /\ Mentioned(scan) = 1..scan.count

\* The arguments of a call: the server is in one wherever the scanner is copying one, which
\* it records when it ends.
ArgumentsInv ==
  /\ scan.mode = "call" /\ scan.literal => server.argument
  /\ scan.mode # "call" => ~server.argument
  /\ server.arguments = scan.arguments + (IF scan.mode = "call" /\ scan.literal THEN 1 ELSE 0)
  /\ server.arguments <= MaxCallArguments

StatementInv ==
  /\ ServerInv /\ SplitInv /\ ScanInv /\ FramesInv /\ CallInv /\ ParensInv /\ MarkersInv
  /\ ArgumentsInv

Inv ==
  /\ task \in {"statement", "columns"} /\ conforming \in BOOLEAN /\ peek \in Kinds
  /\ task = "columns" /\ Careful => columns \in ColumnState /\ server \in ServerState /\ ListInv
  /\ task = "statement" /\ Careful => TypeOK /\ StatementInv
  /\ Careful => ~hollow

----------------------------------------------------------------------------
(* The lexical contexts.                                                   *)

\* Literals and identifiers, by the character that ends them and the escapes they have.
Quoted == {"single", "escape", "double"}
Quote(mode) == IF mode = "double" THEN "dq" ELSE "'"
Backslashes(mode) == mode = "escape" \/ (mode = "single" /\ ~conforming)

\* The context that a unit of ordinary text leads to.
Opening(c, next) ==
  IF c = "E" /\ next = "'" THEN "escape"
  ELSE IF c \in Delimiters THEN c
  ELSE IF c = "'" THEN "single"
  ELSE IF c = "dq" THEN "double"
  ELSE IF c = "--" THEN "line"
  ELSE IF c = "/*" THEN "block"
  ELSE "normal"

\* What a unit does inside a literal, an identifier or a comment.
Closes(mode, depth, c, next) ==
  \/ mode \in Quoted /\ c = Quote(mode) /\ next # c
  \/ mode = "line" /\ c = "nl"
  \/ mode = "block" /\ c = "*/" /\ depth = 1
  \/ mode \in Delimiters /\ c = mode

Consumes(mode, c, next) ==
  /\ mode \in Quoted
  /\ \/ c = "\\" /\ Backslashes(mode) /\ next # "end"
     \/ c = Quote(mode) /\ next = c

DepthAfter(mode, depth, c) ==
  IF mode = "block" /\ c = "/*" THEN depth + 1
  ELSE IF mode = "block" /\ c = "*/" THEN depth - 1
  ELSE depth

\* What ordinary text opens, and what a unit does inside a context, as records.
OpensTo(s, c, next, read) ==
  /\ c = "E" /\ next = "'" => read = [s EXCEPT !.mode = "escape", !.skip = TRUE]
  /\ c \in Delimiters /\ ~s.word => read = [s EXCEPT !.mode = c]
  /\ c \in {"'", "dq", "--"} => read = [s EXCEPT !.mode = Opening(c, next)]
  /\ c = "/*" => read = [s EXCEPT !.mode = "block", !.depth = 1]
  /\ c \notin Delimiters /\ Opening(c, next) = "normal" => read = [s EXCEPT !.word = c \in Letters]

LeadsTo(s, c, next, read) ==
  /\ Consumes(s.mode, c, next) => read = [s EXCEPT !.skip = TRUE]
  /\ Closes(s.mode, s.depth, c, next) /\ s.mode # "block" =>
       read = [s EXCEPT !.mode = "normal", !.word = FALSE]
  /\ s.mode = "block" /\ c = "/*" => read = [s EXCEPT !.depth = s.depth + 1]
  /\ s.mode = "block" /\ c = "*/" =>
       read = [s EXCEPT !.depth = s.depth - 1, !.mode = IF s.depth = 1 THEN "normal" ELSE s.mode,
                        !.word = FALSE]
  /\ s.mode \in Quoted /\ c = "\\" /\ Backslashes(s.mode) /\ next = "end" =>
       read = [s EXCEPT !.skip = FALSE]
  /\ /\ ~Consumes(s.mode, c, next) /\ ~Closes(s.mode, s.depth, c, next)
     /\ s.mode = "block" => c \notin {"/*", "*/"}
     /\ s.mode \in Quoted => c # "\\" \/ ~Backslashes(s.mode)
     => read = s

\* What ordinary text opens.
LEMMA OpenedCases ==
  ASSUME NEW s, NEW c, NEW next
  PROVE  OpensTo(s, c, next, Opened(s, c, next))
<1>1. ASSUME c = "E", next = "'"
      PROVE  Opened(s, c, next) = [s EXCEPT !.mode = "escape", !.skip = TRUE]
  BY <1>1, Zenon DEF Opened, Delimiters
<1>2. ASSUME c \in Delimiters, ~s.word
      PROVE  Opened(s, c, next) = [s EXCEPT !.mode = c]
  BY <1>2, Zenon DEF Opened, Delimiters
<1>3. ASSUME c = "'" PROVE Opened(s, c, next) = [s EXCEPT !.mode = "single"]
  BY <1>3, Zenon DEF Opened, Delimiters
<1>4. ASSUME c = "dq" PROVE Opened(s, c, next) = [s EXCEPT !.mode = "double"]
  BY <1>4, Zenon DEF Opened, Delimiters
<1>5. ASSUME c = "--" PROVE Opened(s, c, next) = [s EXCEPT !.mode = "line"]
  BY <1>5, Zenon DEF Opened, Delimiters
<1>6. ASSUME c = "/*" PROVE Opened(s, c, next) = [s EXCEPT !.mode = "block", !.depth = 1]
  BY <1>6, Zenon DEF Opened, Delimiters
<1>7. ASSUME c \notin Delimiters, Opening(c, next) = "normal"
      PROVE  Opened(s, c, next) = [s EXCEPT !.word = c \in Letters]
  <2>1. ~(c = "E" /\ next = "'") /\ c \notin {"'", "dq", "--", "/*"}
    BY <1>7 DEF Opening, Delimiters
  <2> QED
    BY <1>7, <2>1, Zenon DEF Opened
<1>8. c \in {"'", "dq", "--"} =>
        Opening(c, next) = IF c = "'" THEN "single" ELSE IF c = "dq" THEN "double" ELSE "line"
  BY DEF Opening, Delimiters
<1> QED
  BY <1>1, <1>2, <1>3, <1>4, <1>5, <1>6, <1>7, <1>8 DEF OpensTo

\* What the splitter and the scanner do inside a context.
LEMMA InsideCases ==
  ASSUME NEW s, NEW c, NEW next, s.mode \in Modes \ {"normal"}
  PROVE  LeadsTo(s, c, next, InsideStep(s, c, next))
<1> DEFINE read == InsideStep(s, c, next)
<1>1. CASE s.mode \in Quoted
  <2>1. read = QuotedStep(s, c, next)
    BY <1>1, Zenon DEF InsideStep, Delimiters, Quoted
  <2>2. Quote(s.mode) # "\\"
    BY DEF Quote
  <2>3. ASSUME c = "\\", Backslashes(s.mode) PROVE read = [s EXCEPT !.skip = next # "end"]
    BY <2>1, <2>2, <2>3, Zenon DEF QuotedStep, Backslashes, Quote
  <2>4. ASSUME c = "\\", ~Backslashes(s.mode) PROVE read = s
    BY <2>1, <2>2, <2>4, Zenon DEF QuotedStep, Backslashes, Quote
  <2>5. ASSUME c = Quote(s.mode), next = c PROVE read = [s EXCEPT !.skip = TRUE]
    BY <2>1, <2>2, <2>5, Zenon DEF QuotedStep, Backslashes, Quote
  <2>6. ASSUME c = Quote(s.mode), next # c
        PROVE  read = [s EXCEPT !.mode = "normal", !.word = FALSE]
    BY <2>1, <2>2, <2>6, Zenon DEF QuotedStep, Backslashes, Quote
  <2>7. ASSUME c # "\\", c # Quote(s.mode) PROVE read = s
    BY <2>1, <2>2, <2>7, Zenon DEF QuotedStep, Backslashes, Quote
  <2>8. c = "\\" /\ next # "end" /\ Backslashes(s.mode) => read = [s EXCEPT !.skip = TRUE]
    <3>1. next # "end" => (next # "end") = TRUE
      OBVIOUS
    <3> QED
      BY <2>3, <3>1, Zenon
  <2>9. c = "\\" /\ next = "end" /\ Backslashes(s.mode) => read = [s EXCEPT !.skip = FALSE]
    <3>1. next = "end" => (next # "end") = FALSE
      OBVIOUS
    <3> QED
      BY <2>3, <3>1, Zenon
  <2>10. s.mode \notin Delimiters /\ s.mode \notin {"line", "block"}
    BY <1>1 DEF Delimiters, Quoted
  <2> HIDE DEF read
  <2>11. Closes(s.mode, s.depth, c, next) => c = Quote(s.mode) /\ next # c
    BY <2>10 DEF Closes
  <2>12. c = Quote(s.mode) /\ next # c => Closes(s.mode, s.depth, c, next)
    BY <1>1 DEF Closes
  <2>13. Consumes(s.mode, c, next) <=>
           \/ c = "\\" /\ Backslashes(s.mode) /\ next # "end"
           \/ c = Quote(s.mode) /\ next = c
    BY <1>1, Zenon DEF Consumes
  <2>14. Consumes(s.mode, c, next) => read = [s EXCEPT !.skip = TRUE]
    BY <2>5, <2>8, <2>13, Zenon
  <2>15. ASSUME ~Consumes(s.mode, c, next), ~Closes(s.mode, s.depth, c, next),
                c # "\\" \/ ~Backslashes(s.mode)
         PROVE  read = s
    BY <2>4, <2>7, <2>12, <2>13, <2>15, Zenon
  <2>16. Closes(s.mode, s.depth, c, next) => read = [s EXCEPT !.mode = "normal", !.word = FALSE]
    BY <2>6, <2>11, Zenon
  <2> QED
    BY <1>1, <2>9, <2>10, <2>14, <2>15, <2>16, Zenon DEF read, LeadsTo
<1>2. CASE s.mode \in Unbroken
  <2>1. s.mode \notin Quoted
    BY <1>2 DEF Unbroken, Delimiters, Quoted
  <2>2. ~Consumes(s.mode, c, next)
    BY <2>1 DEF Consumes
  <2>3. s.mode = "line" => read = CommentStep(s, c)
    BY Zenon DEF InsideStep, Delimiters, Quoted
  <2>4. s.mode = "block" => read = CommentStep(s, c)
    BY Zenon DEF InsideStep, Delimiters, Quoted
  <2>5. s.mode \in Delimiters => read = DollarStep(s, c)
    BY Zenon DEF InsideStep, Delimiters, Quoted
  <2> HIDE DEF read
  <2>6. CASE s.mode = "line"
    BY <2>2, <2>3, <2>6 DEF CommentStep, Closes, Delimiters, read, LeadsTo, Quoted
  <2>7. CASE s.mode = "block"
    <3>1. s.mode \notin Delimiters
      BY <2>7 DEF Delimiters
    <3>2. Closes(s.mode, s.depth, c, next) => c = "*/"
      BY <2>1, <2>7, <3>1 DEF Closes
    <3>3. c = "/*" => CommentStep(s, c) = [s EXCEPT !.depth = s.depth + 1]
      BY <2>7, Zenon DEF CommentStep
    <3>4. c = "*/" => CommentStep(s, c) =
            [s EXCEPT !.depth = s.depth - 1,
                      !.mode = IF s.depth = 1 THEN "normal" ELSE s.mode, !.word = FALSE]
      BY <2>7, Zenon DEF CommentStep
    <3>5. c \notin {"/*", "*/"} => CommentStep(s, c) = s
      BY <2>7, Zenon DEF CommentStep
    <3> QED
      BY <2>1, <2>2, <2>4, <2>7, <3>2, <3>3, <3>4, <3>5 DEF read, LeadsTo
  <2>8. CASE s.mode \in Delimiters
    BY <2>2, <2>5, <2>8 DEF DollarStep, Closes, Delimiters, read, LeadsTo, Quoted
  <2> QED
    BY <1>2, <2>6, <2>7, <2>8 DEF Unbroken
<1> QED
  BY <1>1, <1>2 DEF Modes, Unbroken, Quoted

\* The cases of what a reader does with a unit inside a context.
LEMMA InsideSplit ==
  ASSUME NEW mode \in Modes \ {"normal"}, NEW depth \in Int, NEW c, NEW next
  PROVE  \/ Consumes(mode, c, next) /\ ~Closes(mode, depth, c, next) /\ mode # "block"
         \/ Closes(mode, depth, c, next) /\ mode # "block" /\ ~Consumes(mode, c, next)
         \/ mode = "block" /\ c = "/*" /\ ~Closes(mode, depth, c, next) /\ ~Consumes(mode, c, next)
         \/ mode = "block" /\ c = "*/" /\ ~Consumes(mode, c, next)
              /\ (Closes(mode, depth, c, next) <=> depth = 1)
         \/ /\ mode \in Quoted /\ c = "\\" /\ Backslashes(mode) /\ next = "end"
            /\ ~Consumes(mode, c, next) /\ ~Closes(mode, depth, c, next)
         \/ /\ ~Consumes(mode, c, next) /\ ~Closes(mode, depth, c, next)
            /\ mode = "block" => c \notin {"/*", "*/"}
            /\ mode \in Quoted => c # "\\" \/ ~Backslashes(mode)
<1>1. CASE mode \in Quoted
  BY <1>1 DEF Consumes, Closes, Quote, Delimiters, Quoted
<1>2. CASE mode \in Unbroken
  BY <1>2 DEF Consumes, Closes, Delimiters, Unbroken, Quoted
<1> QED
  BY <1>1, <1>2 DEF Modes, Unbroken, Quoted

\* The splitter inside a context.
LEMMA SplitInside ==
  ASSUME NEW s \in SplitState, NEW c, NEW next, s.mode # "normal", ~s.skip,
         s.mode = "block" => s.depth > 0
  PROVE  LET read == InsideStep(s, c, next)
         IN /\ read \in SplitState
            /\ read.mode = IF Closes(s.mode, s.depth, c, next) THEN "normal" ELSE s.mode
            /\ read.depth = DepthAfter(s.mode, s.depth, c)
            /\ read.skip <=> Consumes(s.mode, c, next)
            /\ Closes(s.mode, s.depth, c, next) => ~read.word
            /\ read.text = s.text
<1> DEFINE read == InsideStep(s, c, next)
<1> HIDE DEF read
<1>1. s.mode \in Modes \ {"normal"} /\ s.depth \in Int /\ "normal" \in Modes
  BY DEF SplitState, Modes
<1>2. LeadsTo(s, c, next, read)
  BY <1>1, InsideCases DEF read
<1>3. CASE Consumes(s.mode, c, next) /\ ~Closes(s.mode, s.depth, c, next) /\ s.mode # "block"
  <2>1. read = [s EXCEPT !.skip = TRUE]
    BY <1>2, <1>3 DEF LeadsTo
  <2>2. s.mode \in Quoted => s.mode # "block"
    BY DEF Quoted
  <2> QED
    BY <1>1, <1>3, <2>1, <2>2 DEF SplitState, DepthAfter, read
<1>4. CASE Closes(s.mode, s.depth, c, next) /\ s.mode # "block" /\ ~Consumes(s.mode, c, next)
  <2>1. read = [s EXCEPT !.mode = "normal", !.word = FALSE]
    BY <1>2, <1>4 DEF LeadsTo
  <2> QED
    BY <1>1, <1>4, <2>1 DEF SplitState, DepthAfter, read
<1>5. CASE s.mode = "block" /\ c = "/*" /\ ~Closes(s.mode, s.depth, c, next) /\ ~Consumes(s.mode, c, next)
  <2>1. read = [s EXCEPT !.depth = s.depth + 1]
    BY <1>2, <1>5 DEF LeadsTo
  <2>2. s.mode \in Quoted => s.mode # "block"
    BY DEF Quoted
  <2> QED
    BY <1>1, <1>5, <2>1, <2>2 DEF SplitState, DepthAfter, read
<1>6. CASE s.mode = "block" /\ c = "*/" /\ ~Consumes(s.mode, c, next)
             /\ (Closes(s.mode, s.depth, c, next) <=> s.depth = 1)
  <2>1. read = [s EXCEPT !.depth = s.depth - 1,
                         !.mode = IF s.depth = 1 THEN "normal" ELSE s.mode, !.word = FALSE]
    BY <1>2, <1>6 DEF LeadsTo
  <2>2. read = [s EXCEPT !.depth = s.depth - 1,
                         !.mode = IF Closes(s.mode, s.depth, c, next) THEN "normal" ELSE s.mode,
                         !.word = FALSE]
    BY <1>6, <2>1, Zenon
  <2> HIDE DEF read
  <2>3. ~Consumes(s.mode, c, next) /\ DepthAfter(s.mode, s.depth, c) = s.depth - 1
    BY <1>6 DEF DepthAfter
  <2> DEFINE closes == Closes(s.mode, s.depth, c, next)
             mode == IF closes THEN "normal" ELSE s.mode
             depth == s.depth - 1
  <2>4. mode \in Modes
    BY <1>1 DEF Modes
  <2>5. read = [s EXCEPT !.depth = depth, !.mode = mode, !.word = FALSE]
    BY <2>2
  <2>9. depth \in Int
    BY <1>1
  <2>8. mode \in ScanModes
    BY <2>4 DEF ScanModes
  <2> HIDE DEF mode, depth
  <2>6. /\ read \in SplitState /\ read.mode = mode /\ read.depth = depth /\ ~read.skip
        /\ ~read.word /\ read.text = s.text
    BY <1>1, <2>4, <2>8, <2>5, <2>9 DEF SplitState
  <2> QED
    BY <2>3, <2>6 DEF read, mode, depth
<1>7. CASE /\ s.mode \in Quoted /\ c = "\\" /\ Backslashes(s.mode) /\ next = "end"
           /\ ~Consumes(s.mode, c, next) /\ ~Closes(s.mode, s.depth, c, next)
  <2>1. read = [s EXCEPT !.skip = FALSE]
    BY <1>2, <1>7 DEF LeadsTo
  <2>2. s.mode \in Quoted => s.mode # "block"
    BY DEF Quoted
  <2> QED
    BY <1>1, <1>7, <2>1, <2>2 DEF SplitState, DepthAfter, read
<1>8. CASE /\ ~Consumes(s.mode, c, next) /\ ~Closes(s.mode, s.depth, c, next)
           /\ s.mode = "block" => c \notin {"/*", "*/"}
           /\ s.mode \in Quoted => c # "\\" \/ ~Backslashes(s.mode)
  <2>1. read = s
    BY <1>2, <1>8 DEF LeadsTo
  <2> QED
    BY <1>8, <2>1 DEF DepthAfter, read
<1> QED
  BY <1>1, <1>3, <1>4, <1>5, <1>6, <1>7, <1>8, InsideSplit

\* The scanner inside a context leaves its functions and markers alone.
LEMMA ScanInside ==
  ASSUME NEW s \in ScanState, NEW c, NEW next, s.mode \in Modes \ {"normal"}, ~s.skip,
         s.mode = "block" => s.depth > 0
  PROVE  LET read == InsideStep(s, c, next)
         IN /\ read \in ScanState
            /\ read.mode = IF Closes(s.mode, s.depth, c, next) THEN "normal" ELSE s.mode
            /\ read.depth = DepthAfter(s.mode, s.depth, c)
            /\ read.skip <=> Consumes(s.mode, c, next)
            /\ Closes(s.mode, s.depth, c, next) => ~read.word
            /\ read.stack = s.stack /\ read.count = s.count /\ read.out = s.out
            /\ read.parens = s.parens /\ read.literal = s.literal /\ read.length = s.length
            /\ read.arguments = s.arguments
<1> DEFINE read == InsideStep(s, c, next)
<1> HIDE DEF read
<1>1. s.mode \in Modes \ {"normal"} /\ s.depth \in Int /\ "normal" \in ScanModes
  BY DEF ScanState, ScanModes, Modes
<1>2. LeadsTo(s, c, next, read)
  BY <1>1, InsideCases DEF read
<1>3. CASE Consumes(s.mode, c, next) /\ ~Closes(s.mode, s.depth, c, next) /\ s.mode # "block"
  <2>1. read = [s EXCEPT !.skip = TRUE]
    BY <1>2, <1>3 DEF LeadsTo
  <2>2. s.mode \in Quoted => s.mode # "block"
    BY DEF Quoted
  <2> QED
    BY <1>1, <1>3, <2>1, <2>2 DEF ScanState, DepthAfter, read
<1>4. CASE Closes(s.mode, s.depth, c, next) /\ s.mode # "block" /\ ~Consumes(s.mode, c, next)
  <2>1. read = [s EXCEPT !.mode = "normal", !.word = FALSE]
    BY <1>2, <1>4 DEF LeadsTo
  <2> QED
    BY <1>1, <1>4, <2>1 DEF ScanState, DepthAfter, read
<1>5. CASE s.mode = "block" /\ c = "/*" /\ ~Closes(s.mode, s.depth, c, next) /\ ~Consumes(s.mode, c, next)
  <2>1. read = [s EXCEPT !.depth = s.depth + 1]
    BY <1>2, <1>5 DEF LeadsTo
  <2>2. s.mode \in Quoted => s.mode # "block"
    BY DEF Quoted
  <2> QED
    BY <1>1, <1>5, <2>1, <2>2 DEF ScanState, DepthAfter, read
<1>6. CASE s.mode = "block" /\ c = "*/" /\ ~Consumes(s.mode, c, next)
             /\ (Closes(s.mode, s.depth, c, next) <=> s.depth = 1)
  <2>1. read = [s EXCEPT !.depth = s.depth - 1,
                         !.mode = IF s.depth = 1 THEN "normal" ELSE s.mode, !.word = FALSE]
    BY <1>2, <1>6 DEF LeadsTo
  <2>2. read = [s EXCEPT !.depth = s.depth - 1,
                         !.mode = IF Closes(s.mode, s.depth, c, next) THEN "normal" ELSE s.mode,
                         !.word = FALSE]
    BY <1>6, <2>1, Zenon
  <2> HIDE DEF read
  <2>3. ~Consumes(s.mode, c, next) /\ DepthAfter(s.mode, s.depth, c) = s.depth - 1
    BY <1>6 DEF DepthAfter
  <2> DEFINE closes == Closes(s.mode, s.depth, c, next)
             mode == IF closes THEN "normal" ELSE s.mode
             depth == s.depth - 1
  <2>4. mode \in Modes
    BY <1>1 DEF Modes
  <2>5. read = [s EXCEPT !.depth = depth, !.mode = mode, !.word = FALSE]
    BY <2>2
  <2>9. depth \in Int
    BY <1>1
  <2>8. mode \in ScanModes
    BY <2>4 DEF ScanModes
  <2> HIDE DEF mode, depth
  <2>6. /\ read \in ScanState /\ read.mode = mode /\ read.depth = depth /\ ~read.skip
        /\ ~read.word
        /\ read.stack = s.stack /\ read.count = s.count /\ read.out = s.out
        /\ read.parens = s.parens /\ read.literal = s.literal /\ read.length = s.length
            /\ read.arguments = s.arguments
    BY <1>1, <2>4, <2>8, <2>5, <2>9 DEF ScanState
  <2> QED
    BY <2>3, <2>6 DEF read, mode, depth
<1>7. CASE /\ s.mode \in Quoted /\ c = "\\" /\ Backslashes(s.mode) /\ next = "end"
           /\ ~Consumes(s.mode, c, next) /\ ~Closes(s.mode, s.depth, c, next)
  <2>1. read = [s EXCEPT !.skip = FALSE]
    BY <1>2, <1>7 DEF LeadsTo
  <2>2. s.mode \in Quoted => s.mode # "block"
    BY DEF Quoted
  <2> QED
    BY <1>1, <1>7, <2>1, <2>2 DEF ScanState, DepthAfter, read
<1>8. CASE /\ ~Consumes(s.mode, c, next) /\ ~Closes(s.mode, s.depth, c, next)
           /\ s.mode = "block" => c \notin {"/*", "*/"}
           /\ s.mode \in Quoted => c # "\\" \/ ~Backslashes(s.mode)
  <2>1. read = s
    BY <1>2, <1>8 DEF LeadsTo
  <2> QED
    BY <1>8, <2>1 DEF DepthAfter, read
<1> QED
  BY <1>1, <1>3, <1>4, <1>5, <1>6, <1>7, <1>8, InsideSplit

\* The splitter where ordinary text may open a context.
LEMMA SplitOpened ==
  ASSUME NEW s \in SplitState, NEW c, NEW next, s.mode = "normal", s.depth = 0, ~s.skip,
         c \in Delimiters => ~s.word
  PROVE  LET read == Opened(s, c, next)
         IN /\ read \in SplitState
            /\ read.mode = Opening(c, next)
            /\ read.depth = IF c = "/*" THEN 1 ELSE 0
            /\ read.skip <=> c = "E" /\ next = "'"
            /\ read.mode = "normal" => (read.word <=> c \in Letters)
            /\ read.text = s.text
<1> DEFINE read == Opened(s, c, next)
<1> HIDE DEF read
<1>0. OpensTo(s, c, next, read)
  BY OpenedCases DEF read
<1>1. CASE c = "E" /\ next = "'"
  <2>1. read = [s EXCEPT !.mode = "escape", !.skip = TRUE]
    BY <1>0, <1>1 DEF OpensTo
  <2> QED
    BY <1>1, <2>1 DEF SplitState, Modes, Opening, read
<1>2. CASE c \in Delimiters
  <2>1. read = [s EXCEPT !.mode = c]
    BY <1>0, <1>2 DEF OpensTo
  <2>2. Opening(c, next) = c /\ c \notin {"E", "/*", "normal"} /\ c \in Modes
    BY <1>2 DEF Opening, Delimiters, Modes
  <2> QED
    BY <1>2, <2>1, <2>2 DEF SplitState, read
<1>3. CASE c \in {"'", "dq", "--"}
  <2>1. read = [s EXCEPT !.mode = Opening(c, next)]
    BY <1>0, <1>3 DEF OpensTo
  <2>2. Opening(c, next) \in Modes \ {"normal"} /\ c \notin {"E", "/*"}
    BY <1>3 DEF Opening, Delimiters, Modes
  <2> QED
    BY <1>3, <2>1, <2>2 DEF SplitState, read
<1>4. CASE c = "/*"
  <2>1. read = [s EXCEPT !.mode = "block", !.depth = 1]
    BY <1>0, <1>4 DEF OpensTo
  <2>2. Opening(c, next) = "block" /\ "block" \in Modes
    BY <1>4 DEF Opening, Delimiters, Modes
  <2> QED
    <3> DEFINE one == 1
    <3>2. one \in Int
      OBVIOUS
    <3>3. read = [s EXCEPT !.mode = "block", !.depth = one]
      BY <2>1
    <3> HIDE DEF one
    <3>1. /\ read \in SplitState /\ read.mode = "block" /\ read.depth = one /\ ~read.skip /\ read.text = s.text
      BY <2>1, <2>2, <3>2, <3>3 DEF SplitState
    <3> QED
      BY <1>4, <2>2, <3>1 DEF read, one
<1>5. CASE c \notin Delimiters /\ Opening(c, next) = "normal"
  <2> DEFINE w == c \in Letters
  <2>1. w \in BOOLEAN /\ ~(c = "E" /\ next = "'") /\ c # "/*"
    BY <1>5 DEF Opening
  <2>2. read = [s EXCEPT !.word = w]
    BY <1>0, <1>5 DEF OpensTo
  <2> HIDE DEF w
  <2>3. /\ read \in SplitState /\ read.mode = "normal" /\ read.depth = 0 /\ ~read.skip
        /\ read.word = w  /\ read.text = s.text
    BY <2>1, <2>2 DEF SplitState
  <2> QED
    BY <1>5, <2>1, <2>3 DEF read, w
<1> QED
  BY <1>1, <1>2, <1>3, <1>4, <1>5 DEF Opening

\* The scanner where ordinary text may open a context.
LEMMA ScanOpened ==
  ASSUME NEW s \in ScanState, NEW c, NEW next, s.mode = "normal", s.depth = 0, ~s.skip,
         c \in Delimiters => ~s.word
  PROVE  LET read == Opened(s, c, next)
         IN /\ read \in ScanState
            /\ read.mode = Opening(c, next)
            /\ read.depth = IF c = "/*" THEN 1 ELSE 0
            /\ read.skip <=> c = "E" /\ next = "'"
            /\ read.stack = s.stack /\ read.count = s.count /\ read.out = s.out
            /\ read.parens = s.parens /\ read.literal = s.literal /\ read.length = s.length
            /\ read.arguments = s.arguments
<1> DEFINE read == Opened(s, c, next)
<1> HIDE DEF read
<1>0. OpensTo(s, c, next, read)
  BY OpenedCases DEF read
<1>1. CASE c = "E" /\ next = "'"
  <2>1. read = [s EXCEPT !.mode = "escape", !.skip = TRUE]
    BY <1>0, <1>1 DEF OpensTo
  <2> QED
    BY <1>1, <2>1 DEF ScanState, ScanModes, Modes, Opening, read
<1>2. CASE c \in Delimiters
  <2>1. read = [s EXCEPT !.mode = c]
    BY <1>0, <1>2 DEF OpensTo
  <2>2. Opening(c, next) = c /\ c \notin {"E", "/*", "normal"} /\ c \in ScanModes
    BY <1>2 DEF Opening, Delimiters, ScanModes, Modes
  <2> QED
    BY <1>2, <2>1, <2>2 DEF ScanState, read
<1>3. CASE c \in {"'", "dq", "--"}
  <2>1. read = [s EXCEPT !.mode = Opening(c, next)]
    BY <1>0, <1>3 DEF OpensTo
  <2>2. Opening(c, next) \in ScanModes \ {"normal"} /\ c \notin {"E", "/*"}
    BY <1>3 DEF Opening, Delimiters, ScanModes, Modes
  <2> QED
    BY <1>3, <2>1, <2>2 DEF ScanState, read
<1>4. CASE c = "/*"
  <2>1. read = [s EXCEPT !.mode = "block", !.depth = 1]
    BY <1>0, <1>4 DEF OpensTo
  <2>2. Opening(c, next) = "block" /\ "block" \in ScanModes
    BY <1>4 DEF Opening, Delimiters, ScanModes, Modes
  <2> QED
    <3> DEFINE one == 1
    <3>2. one \in Int
      OBVIOUS
    <3>3. read = [s EXCEPT !.mode = "block", !.depth = one]
      BY <2>1
    <3> HIDE DEF one
    <3>1. /\ read \in ScanState /\ read.mode = "block" /\ read.depth = one /\ ~read.skip
        /\ read.stack = s.stack /\ read.count = s.count /\ read.out = s.out
        /\ read.parens = s.parens /\ read.literal = s.literal /\ read.length = s.length
            /\ read.arguments = s.arguments
      BY <2>1, <2>2, <3>2, <3>3 DEF ScanState
    <3> QED
      BY <1>4, <2>2, <3>1 DEF read, one
<1>5. CASE c \notin Delimiters /\ Opening(c, next) = "normal"
  <2> DEFINE w == c \in Letters
  <2>1. w \in BOOLEAN /\ ~(c = "E" /\ next = "'") /\ c # "/*"
    BY <1>5 DEF Opening
  <2>2. read = [s EXCEPT !.word = w]
    BY <1>0, <1>5 DEF OpensTo
  <2> HIDE DEF w
  <2>3. /\ read \in ScanState /\ read.mode = "normal" /\ read.depth = 0 /\ ~read.skip
        /\ read.word = w 
        /\ read.stack = s.stack /\ read.count = s.count /\ read.out = s.out
        /\ read.parens = s.parens /\ read.literal = s.literal /\ read.length = s.length
            /\ read.arguments = s.arguments
    BY <2>1, <2>2 DEF ScanState
  <2> QED
    BY <1>5, <2>1, <2>3 DEF read, w
<1> QED
  BY <1>1, <1>2, <1>3, <1>4, <1>5 DEF Opening

----------------------------------------------------------------------------
(* The server's reading.                                                   *)

\* What reading a unit leaves alone: the counts of a call are kept by ServerStep itself.
SameRest(read, s) ==
  read.from = s.from /\ read.arguments = s.arguments /\ read.argument = s.argument

\* The server's reading of a unit inside a context.
LEMMA ServerInsideCases ==
  ASSUME NEW s \in ServerState, NEW c, NEW next, s.mode # "normal", ~s.skip,
         IF s.mode = "block" THEN s.depth > 0 ELSE s.depth = 0
  PROVE  LET read == ServerInside(s, c, next)
         IN /\ read \in ServerState
            /\ read.mode = IF Closes(s.mode, s.depth, c, next) THEN "normal" ELSE s.mode
            /\ read.depth = DepthAfter(s.mode, s.depth, c)
            /\ read.skip <=> Consumes(s.mode, c, next)
            /\ Closes(s.mode, s.depth, c, next) => ~read.word
            /\ read.parens = s.parens /\ read.commas = s.commas /\ read.markers = s.markers
            /\ SameRest(read, s)
<1> DEFINE read == ServerInside(s, c, next)
           closer == CASE s.mode \in {"single", "escape"} -> "'"
                       [] s.mode = "double" -> "dq"
                       [] s.mode = "line" -> "nl"
                       [] s.mode = "block" -> "*/"
                       [] s.mode \in Delimiters -> s.mode
           escapes == s.mode = "escape" \/ (s.mode = "single" /\ ~conforming)
           doubled == c \in {"'", "dq"} /\ next = c
           zero == 0
<1>0. s.depth \in Int /\ s.mode \in Modes \ {"normal"}
  BY DEF ServerState, SameRest
<1>1. /\ s.mode \in Quoted => closer = Quote(s.mode)
      /\ s.mode = "line" => closer = "nl"
      /\ s.mode = "block" => closer = "*/"
      /\ s.mode \in Delimiters => closer = s.mode
  <2>1. CASE s.mode \in Quoted
    BY <2>1, Zenon DEF Quoted, Quote, Delimiters
  <2>2. CASE s.mode = "line"
    BY <2>2, Zenon DEF Quoted, Quote, Delimiters
  <2>3. CASE s.mode = "block"
    BY <2>3, Zenon DEF Quoted, Quote, Delimiters
  <2>4. CASE s.mode \in Delimiters
    BY <2>4, Zenon DEF Quoted, Quote, Delimiters
  <2> QED
    BY <1>0, <2>1, <2>2, <2>3, <2>4 DEF Modes, Quoted
<1>2. read = CASE c = "\\" /\ escapes -> [s EXCEPT !.skip = next # "end"]
               [] c = "/*" /\ s.mode = "block" -> [s EXCEPT !.depth = s.depth + 1]
               [] c = closer /\ s.depth > 1 -> [s EXCEPT !.depth = s.depth - 1]
               [] c = closer /\ s.depth <= 1 /\ doubled -> [s EXCEPT !.skip = TRUE]
               [] c = closer /\ s.depth <= 1 /\ ~doubled ->
                    [s EXCEPT !.mode = "normal", !.depth = zero, !.word = FALSE]
               [] OTHER -> s
  BY Zenon DEF ServerInside
<1>3. escapes <=> s.mode \in Quoted /\ Backslashes(s.mode)
  BY DEF Quoted, Backslashes
<1>4. (s.depth > 1 <=> s.mode = "block" /\ s.depth # 1) /\ (s.depth <= 1 <=> ~(s.depth > 1))
  BY <1>0
<1>5. zero \in Int /\ "normal" \in Modes /\ s.depth + 1 \in Int /\ s.depth - 1 \in Int
  BY <1>0 DEF Modes
<1> HIDE DEF read, closer, escapes, zero
<1>6. CASE s.mode \in Quoted
  <2>1. s.mode \notin Unbroken /\ closer = Quote(s.mode) /\ Quote(s.mode) \in {"'", "dq"} /\ s.mode # "block"
    BY <1>1, <1>6 DEF Quoted, Unbroken, Quote, Delimiters
  <2>2. ~(s.depth > 1) /\ s.depth <= 1
    BY <1>4, <2>1
  <2>3. ASSUME c = "\\", escapes, next # "end" PROVE read = [s EXCEPT !.skip = TRUE]
    <3>1. (next # "end") = TRUE
      BY <2>3
    <3>2. read = [s EXCEPT !.skip = next # "end"]
      BY <1>2, <2>1, <2>3, Zenon
    <3> QED
      BY <3>1, <3>2, Zenon
  <2>4. ASSUME c = "\\", escapes, next = "end" PROVE read = [s EXCEPT !.skip = FALSE]
    <3>1. (next # "end") = FALSE
      BY <2>4
    <3>2. read = [s EXCEPT !.skip = next # "end"]
      BY <1>2, <2>1, <2>4, Zenon
    <3> QED
      BY <3>1, <3>2, Zenon
  <2>5. ASSUME c = Quote(s.mode), next = c PROVE read = [s EXCEPT !.skip = TRUE]
    BY <1>2, <2>1, <2>2, <2>5, Zenon
  <2>6. ASSUME c = Quote(s.mode), next # c
        PROVE  read = [s EXCEPT !.mode = "normal", !.depth = zero, !.word = FALSE]
    BY <1>2, <2>1, <2>2, <2>6, Zenon
  <2>7. ASSUME c # Quote(s.mode), ~(c = "\\" /\ escapes) PROVE read = s
    BY <1>2, <2>1, <2>2, <2>7, Zenon
  <2>8. Closes(s.mode, s.depth, c, next) <=> c = Quote(s.mode) /\ next # c
    BY <1>6, <2>1 DEF Closes, Unbroken
  <2>9. Consumes(s.mode, c, next) <=>
          (c = "\\" /\ escapes /\ next # "end") \/ (c = Quote(s.mode) /\ next = c)
    BY <1>3, <1>6 DEF Consumes
  <2>10. DepthAfter(s.mode, s.depth, c) = s.depth /\ s.depth = zero
    BY <2>1 DEF DepthAfter, zero
  <2>11. CASE c = "\\" /\ escapes
    <3>1. Quote(s.mode) # c
      BY <2>1, <2>11
    <3> QED
      BY <2>3, <2>4, <2>8, <2>9, <2>10, <2>11, <3>1 DEF ServerState, SameRest, read
  <2>12. CASE c = Quote(s.mode) /\ next = c
    BY <2>1, <2>5, <2>8, <2>9, <2>10, <2>12 DEF ServerState, SameRest, read
  <2>13. CASE c = Quote(s.mode) /\ next # c
    <3>1. c # "\\"
      BY <2>1, <2>13
    <3> QED
      BY <1>5, <2>6, <2>8, <2>9, <2>10, <2>13, <3>1 DEF ServerState, SameRest, read
  <2>14. CASE c # Quote(s.mode) /\ ~(c = "\\" /\ escapes)
    <3>1. read = s
      BY <2>7, <2>14
    <3> QED
      BY <2>8, <2>9, <2>10, <2>14, <3>1 DEF read, SameRest
  <2> QED
    BY <2>11, <2>12, <2>13, <2>14
<1>7. CASE s.mode \in Unbroken \ {"block"}
  <2>1. /\ s.mode \notin Quoted /\ ~escapes /\ closer \notin {"'", "dq"}
        /\ c = closer <=> (s.mode = "line" /\ c = "nl") \/ (s.mode \in Delimiters /\ c = s.mode)
    BY <1>1, <1>3, <1>7 DEF Quoted, Unbroken, Quote, Delimiters
  <2>2. ~(s.depth > 1) /\ s.depth <= 1 /\ s.mode # "block"
    BY <1>4, <1>7
  <2>3. c = closer => read = [s EXCEPT !.mode = "normal", !.depth = zero, !.word = FALSE]
    BY <1>2, <2>1, <2>2, Zenon
  <2>4. c # closer => read = s
    BY <1>2, <2>1, <2>2, Zenon
  <2>5. Closes(s.mode, s.depth, c, next) <=> c = closer
    BY <2>1, <2>2 DEF Closes, Quoted
  <2>6. ~Consumes(s.mode, c, next) /\ DepthAfter(s.mode, s.depth, c) = s.depth /\ s.depth = zero
    BY <2>1, <2>2 DEF Consumes, DepthAfter, zero, Quoted
  <2>7. CASE c = closer
    BY <1>5, <2>3, <2>5, <2>6, <2>7 DEF ServerState, SameRest, read
  <2>8. CASE c # closer
    <3>1. read = s
      BY <2>4, <2>8
    <3> QED
      BY <2>5, <2>6, <2>8, <3>1 DEF read, SameRest
  <2> QED
    BY <2>7, <2>8
<1>8. CASE s.mode = "block"
  <2> DEFINE deeper == s.depth + 1
             shallower == s.depth - 1
  <2>0. deeper \in Int /\ shallower \in Int
    BY <1>0
  <2>1. closer = "*/" /\ ~escapes /\ ~Consumes(s.mode, c, next)
    BY <1>1, <1>3, <1>8 DEF Quoted, Consumes
  <2>2. Closes(s.mode, s.depth, c, next) <=> c = "*/" /\ s.depth = 1
    BY <1>8 DEF Closes, Quoted, Delimiters
  <2>3. c = "/*" => read = [s EXCEPT !.depth = deeper]
    BY <1>2, <1>8, <2>1, Zenon
  <2>4. c = "*/" /\ s.depth > 1 => read = [s EXCEPT !.depth = shallower]
    BY <1>2, <1>4, <1>8, <2>1, Zenon
  <2>5. c = "*/" /\ s.depth <= 1 => read = [s EXCEPT !.mode = "normal", !.depth = zero, !.word = FALSE]
    BY <1>2, <1>4, <1>8, <2>1, Zenon
  <2>6. c \notin {"/*", "*/"} => read = s
    BY <1>2, <1>8, <2>1, Zenon
  <2>7. DepthAfter(s.mode, s.depth, c) = IF c = "/*" THEN deeper ELSE IF c = "*/" THEN shallower ELSE s.depth
    BY <1>8 DEF DepthAfter
  <2>8. s.depth = 1 <=> shallower = zero
    BY <1>0 DEF zero
  <2>9. s.depth > 1 <=> s.depth # 1
    BY <1>4, <1>8
  <2> HIDE DEF deeper, shallower
  <2>10. CASE c = "/*"
    BY <2>0, <2>1, <2>2, <2>3, <2>7, <2>10 DEF ServerState, SameRest, read
  <2>11. CASE c = "*/" /\ s.depth > 1
    BY <2>0, <2>1, <2>2, <2>4, <2>7, <2>9, <2>11 DEF ServerState, SameRest, read
  <2>12. CASE c = "*/" /\ ~(s.depth > 1)
    <3>1. s.depth <= 1 /\ s.depth = 1
      BY <1>4, <2>9, <2>12
    <3> QED
      BY <1>5, <2>1, <2>2, <2>5, <2>7, <2>8, <2>12, <3>1 DEF ServerState, SameRest, read
  <2>13. CASE c \notin {"/*", "*/"}
    <3>1. read = s
      BY <2>6, <2>13
    <3> QED
      BY <2>1, <2>2, <2>7, <2>13, <3>1 DEF read, SameRest
  <2> QED
    BY <2>10, <2>11, <2>12, <2>13
<1> QED
  BY <1>0, <1>6, <1>7, <1>8 DEF Modes, Quoted, Unbroken

\* What a unit of ordinary text adds to the parentheses and the markers.
Nesting(c) == IF c \in Functions \union Calls \union {"("} THEN 1 ELSE IF c = ")" THEN -1 ELSE 0
Marks(c, next) == IF c = "?=call(" \/ (c = "?" /\ next # "?") THEN 1 ELSE 0

\* The server's reading of a unit of ordinary text of a statement.
LEMMA ServerTextCases ==
  ASSUME task = "statement", NEW s \in ServerState, NEW c \in Statement, NEW next,
         s.mode = "normal", s.depth = 0, ~s.skip, s.resume = "broken" => c # "'",
         c \in Delimiters => ~s.word, c = "E" => ~s.word
  PROVE  LET read == ServerText(s, c, next)
         IN /\ read \in ServerState
            /\ read.mode = Opening(c, next)
            /\ read.depth = IF c = "/*" THEN 1 ELSE 0
            /\ read.skip <=> (c = "E" /\ next = "'") \/ (c = "?" /\ next = "?")
            /\ read.parens = s.parens + Nesting(c)
            /\ read.markers = s.markers + Marks(c, next)
            /\ read.mode = "normal" /\ read.word => c \in Letters \/ (c = "?" /\ next # "?")
            /\ SameRest(read, s)
<1> DEFINE read == ServerText(s, c, next)
           one == 1
           more == s.parens + 1
           less == s.parens - 1
           another == s.markers + 1
<1>0. /\ one \in Int /\ more \in Int /\ less \in Int /\ another \in Nat /\ s.parens \in Int
      /\ s.markers \in Nat /\ "normal" \in Modes /\ "escape" \in Modes /\ "block" \in Modes
  BY DEF ServerState, SameRest, Modes
<1>1. c # "from"
  BY DEF Statement, Letters, Blank, Delimiters, Comments, Functions, Calls, Raw, Brackets
<1>2. ASSUME c = "E", next = "'" PROVE read = [s EXCEPT !.mode = "escape", !.skip = TRUE]
  BY <1>2, Zenon DEF ServerText, Functions, Delimiters
<1>3. ASSUME c = "?", next = "?" PROVE read = [s EXCEPT !.skip = TRUE, !.word = FALSE]
  BY <1>3, Zenon DEF ServerText, Functions, Delimiters
<1>4. ASSUME c = "?", next # "?" PROVE read = [s EXCEPT !.markers = another]
  BY <1>4, Zenon DEF ServerText, Functions, Delimiters
<1>5. ASSUME c \in Functions \union {"(", "call("}
      PROVE  read = [s EXCEPT !.parens = more, !.word = FALSE]
  BY <1>5, Zenon DEF ServerText, Functions, Delimiters
<1>6. ASSUME c = "?=call(" PROVE read = [s EXCEPT !.parens = more, !.markers = another, !.word = FALSE]
  BY <1>6, Zenon DEF ServerText, Functions, Delimiters
<1>7. ASSUME c = ")" PROVE read = [s EXCEPT !.parens = less, !.word = FALSE]
  BY <1>7, Zenon DEF ServerText, Functions, Delimiters
<1>8. ASSUME c \in Delimiters PROVE read = [s EXCEPT !.mode = c]
  BY <1>8, Zenon DEF ServerText, Functions, Delimiters
<1>9. ASSUME c = "'" PROVE read = [s EXCEPT !.mode = "single"]
  BY <1>9, Zenon DEF ServerText, Functions, Delimiters
<1>10. ASSUME c = "dq" PROVE read = [s EXCEPT !.mode = "double"]
  BY <1>10, Zenon DEF ServerText, Functions, Delimiters
<1>11. ASSUME c = "--" PROVE read = [s EXCEPT !.mode = "line"]
  BY <1>11, Zenon DEF ServerText, Functions, Delimiters
<1>12. ASSUME c = "/*" PROVE read = [s EXCEPT !.mode = "block", !.depth = one]
  BY <1>12, Zenon DEF ServerText, Functions, Delimiters
<1>13. ASSUME Opening(c, next) = "normal",
              c \notin Functions \union Calls \union {"(", ")", "?"} \union Delimiters
       PROVE  read = [s EXCEPT !.word = c \in Letters]
  <2>1. ~(c = "E" /\ next = "'") /\ c \notin {"'", "dq", "--", "/*"}
    BY <1>13 DEF Opening
  <2> QED
    BY <1>1, <1>13, <2>1, Zenon DEF ServerText, Calls
<1> HIDE DEF read, one, more, less, another
<1>14. CASE c = "E" /\ next = "'"
  <2>1. Nesting(c) = 0 /\ Marks(c, next) = 0 /\ Opening(c, next) = "escape" /\ c \notin {"/*", "?"}
    BY <1>14 DEF Nesting, Marks, Opening, Functions, Calls
  <2>2. /\ read \in ServerState /\ read.mode = "escape" /\ read.skip /\ read.depth = s.depth
        /\ read.parens = s.parens /\ read.markers = s.markers /\ SameRest(read, s)
    BY <1>0, <1>2, <1>14 DEF ServerState, SameRest
  <2> QED
    BY <1>0, <1>14, <2>1, <2>2 DEF read
<1>15. CASE c = "?"
  <2>1. Nesting(c) = 0 /\ Opening(c, next) = "normal" /\ c \notin {"/*", "E"}
        /\ Marks(c, next) = IF next = "?" THEN 0 ELSE 1
    BY <1>15 DEF Nesting, Marks, Opening, Functions, Calls, Delimiters
  <2>2. CASE next = "?"
    <3>1. /\ read \in ServerState /\ read.mode = "normal" /\ read.skip /\ read.depth = s.depth
          /\ read.parens = s.parens /\ read.markers = s.markers /\ SameRest(read, s) /\ ~read.word
      BY <1>0, <1>3, <1>15, <2>2 DEF ServerState, SameRest
    <3> QED
      BY <1>0, <1>15, <2>1, <2>2, <3>1 DEF read
  <2>3. CASE next # "?"
    <3>1. /\ read \in ServerState /\ read.mode = "normal" /\ ~read.skip /\ read.depth = s.depth
          /\ read.parens = s.parens /\ read.markers = another /\ SameRest(read, s)
      BY <1>0, <1>4, <1>15, <2>3 DEF ServerState, SameRest
    <3> QED
      BY <1>0, <1>15, <2>1, <2>3, <3>1 DEF read, another
  <2> QED
    BY <2>2, <2>3
<1>16. CASE c \in Functions \union {"(", "call("}
  <2>1. Nesting(c) = 1 /\ Marks(c, next) = 0 /\ Opening(c, next) = "normal" /\ c \notin {"/*", "?", "E"}
    BY <1>16 DEF Nesting, Marks, Opening, Functions, Calls, Delimiters
  <2>2. /\ read \in ServerState /\ read.mode = "normal" /\ ~read.skip /\ read.depth = s.depth
        /\ read.parens = more /\ read.markers = s.markers /\ SameRest(read, s) /\ ~read.word
    BY <1>0, <1>5, <1>16 DEF ServerState, SameRest
  <2> QED
    BY <1>0, <2>1, <2>2 DEF read, more
<1>17. CASE c = "?=call("
  <2>1. Nesting(c) = 1 /\ Marks(c, next) = 1 /\ Opening(c, next) = "normal" /\ c \notin {"/*", "?", "E"}
    BY <1>17 DEF Nesting, Marks, Opening, Functions, Calls, Delimiters
  <2>2. /\ read \in ServerState /\ read.mode = "normal" /\ ~read.skip /\ read.depth = s.depth
        /\ read.parens = more /\ read.markers = another /\ SameRest(read, s) /\ ~read.word
    BY <1>0, <1>6, <1>17 DEF ServerState, SameRest
  <2> QED
    BY <1>0, <1>17, <2>1, <2>2 DEF read, more, another
<1>18. CASE c = ")"
  <2>1. Nesting(c) = -1 /\ Marks(c, next) = 0 /\ Opening(c, next) = "normal" /\ c \notin {"/*", "?", "E"}
    BY <1>18 DEF Nesting, Marks, Opening, Functions, Calls, Delimiters
  <2>2. /\ read \in ServerState /\ read.mode = "normal" /\ ~read.skip /\ read.depth = s.depth
        /\ read.parens = less /\ read.markers = s.markers /\ SameRest(read, s) /\ ~read.word
    BY <1>0, <1>7, <1>18 DEF ServerState, SameRest
  <2> QED
    BY <1>0, <1>18, <2>1, <2>2 DEF read, less
<1>19. CASE c \in Delimiters \union {"'", "dq", "--"}
  <2>1. /\ Nesting(c) = 0 /\ Marks(c, next) = 0 /\ c \notin {"/*", "?", "E"}
        /\ Opening(c, next) \in Modes \ {"normal"}
        /\ Opening(c, next) = IF c = "'" THEN "single" ELSE IF c = "dq" THEN "double"
                             ELSE IF c = "--" THEN "line" ELSE c
    BY <1>19 DEF Nesting, Marks, Opening, Functions, Calls, Delimiters, Modes
  <2>2. read = [s EXCEPT !.mode = Opening(c, next)]
    BY <1>8, <1>9, <1>10, <1>11, <1>19, <2>1
  <2>3. /\ read \in ServerState /\ read.mode = Opening(c, next) /\ ~read.skip /\ read.depth = s.depth
        /\ read.parens = s.parens /\ read.markers = s.markers /\ SameRest(read, s)
    BY <1>0, <2>1, <2>2 DEF ServerState, SameRest
  <2> QED
    BY <1>0, <1>19, <2>1, <2>3 DEF read
<1>20. CASE c = "/*"
  <2>1. Nesting(c) = 0 /\ Marks(c, next) = 0 /\ Opening(c, next) = "block" /\ c \notin {"?", "E"}
    BY <1>20 DEF Nesting, Marks, Opening, Functions, Calls, Delimiters
  <2>2. /\ read \in ServerState /\ read.mode = "block" /\ ~read.skip /\ read.depth = one
        /\ read.parens = s.parens /\ read.markers = s.markers /\ SameRest(read, s)
    BY <1>0, <1>12, <1>20 DEF ServerState, SameRest
  <2> QED
    BY <1>0, <1>20, <2>1, <2>2 DEF read, one
<1>21. CASE /\ Opening(c, next) = "normal"
            /\ c \notin Functions \union Calls \union {"(", ")", "?"} \union Delimiters
  <2> DEFINE w == c \in Letters
  <2>1. Nesting(c) = 0 /\ Marks(c, next) = 0 /\ ~(c = "E" /\ next = "'") /\ c # "/*" /\ c # "?"
    BY <1>21 DEF Nesting, Marks, Opening, Calls
  <2>2. w \in BOOLEAN /\ read = [s EXCEPT !.word = w]
    BY <1>13, <1>21
  <2> HIDE DEF w
  <2>3. /\ read \in ServerState /\ read.mode = "normal" /\ ~read.skip /\ read.depth = s.depth
        /\ read.parens = s.parens /\ read.markers = s.markers /\ SameRest(read, s)
        /\ read.word => w
    BY <1>0, <2>2 DEF ServerState, SameRest
  <2> QED
    BY <1>0, <1>21, <2>1, <2>3 DEF read, w
<1> QED
  BY <1>14, <1>15, <1>16, <1>17, <1>18, <1>19, <1>20, <1>21 DEF Opening, Calls

\* One unit of a statement, spelled with care.
StatementUnit(c, next) ==
  /\ task = "statement" /\ Careful /\ Admissible(c)
  /\ peek' = next
  /\ server' = ServerStep(server, c, next)
  /\ split' = SplitStep(split, c, next)
  /\ scan' = IF Ends(split, c) THEN NoScan ELSE ScanStep(scan, c, next)
  /\ hollow' = (hollow \/ (Ends(split, c) /\ EndsHollow))
  /\ UNCHANGED <<columns, task, conforming>>

\* What a unit in ordinary text has been seen to.
LEMMA Units ==
  ASSUME Inv, NEW c, NEW next \in Kinds, StatementUnit(c, next)
  PROVE  /\ TypeOK /\ StatementInv /\ ~hollow
         /\ c \in Statement
         /\ c \notin {"'", "dq", "?"} => peek \notin {"'", "dq", "?"}
         /\ server.skip /\ server.mode = "normal" => c = "?"
         /\ server.mode = "normal" /\ c = "E" => ~server.word
         /\ server.resume = "broken" => c # "'"
         /\ server.mode = "normal" /\ ~server.skip /\ c \in Delimiters => ~server.word /\ ~scan.word /\ ~split.word
<1>1. TypeOK /\ StatementInv /\ ~hollow
  BY DEF Inv, StatementUnit
<1>2. c \in Statement /\ KindOf(c) = peek /\ WellFormed(c) /\ Spelled(c)
  BY DEF StatementUnit, Admissible
<1>3. c \notin {"'", "dq", "?"} => peek \notin {"'", "dq", "?"}
  BY <1>2 DEF KindOf, Kinds
<1>4. server.mode = "normal" /\ ~server.skip /\ c \in Delimiters => ~scan.word /\ ~split.word
  BY <1>2 DEF WellFormed, InPlace
<1> QED
  BY <1>1, <1>2, <1>3, <1>4 DEF Spelled, StatementInv, ServerInv, SplitInv, KindOf, Kinds

\* The server's reading of a unit that ends no fragment.
LEMMA ServerReads ==
  ASSUME Inv, NEW c, NEW next \in Kinds, StatementUnit(c, next), ~Ends(server, c)
  PROVE  /\ server' \in ServerState /\ ~server'.from
         /\ server'.arguments = IF Begins(server, c) THEN server.arguments + 1 ELSE server.arguments
         /\ server'.argument <=> (server.argument \/ Begins(server, c)) /\ ~Finishes(server, c)
         /\ server'.content # "none" <=> server.content # "none" \/ c \notin Blank
         /\ server.skip =>
              /\ server'.mode = server.mode /\ server'.depth = server.depth /\ ~server'.skip
              /\ server'.parens = server.parens /\ server'.markers = server.markers
              /\ server'.word = server.word
         /\ ~server.skip /\ server.mode # "normal" =>
              /\ server'.mode = IF Closes(server.mode, server.depth, c, next) THEN "normal" ELSE server.mode
              /\ server'.depth = DepthAfter(server.mode, server.depth, c)
              /\ server'.skip <=> Consumes(server.mode, c, next)
              /\ server'.mode = "normal" => ~server'.word
              /\ server'.parens = server.parens /\ server'.markers = server.markers
         /\ ~server.skip /\ server.mode = "normal" =>
              /\ server'.mode = Opening(c, next)
              /\ server'.depth = IF c = "/*" THEN 1 ELSE 0
              /\ server'.skip <=> (c = "E" /\ next = "'") \/ (c = "?" /\ next = "?")
              /\ server'.mode = "normal" /\ server'.word => c \in Letters \/ (c = "?" /\ next # "?")
              /\ server'.parens = server.parens +
                   (IF InArguments \/ c \in Functions \union Calls THEN Nesting(c) ELSE 0)
              /\ server'.markers = server.markers + Marks(c, next)
<1> DEFINE resume == CASE server.mode = "escape" /\ c = "'" /\ next # "'" -> "closed"
                       [] c = "nl" /\ server.resume # "no" -> "broken"
                       [] c = "blank" -> server.resume
                       [] OTHER -> "no"
           read == CASE server.skip -> [server EXCEPT !.skip = FALSE]
                     [] ~server.skip /\ server.mode = "normal" -> ServerText(server, c, next)
                     [] ~server.skip /\ server.mode # "normal" -> ServerInside(server, c, next)
           counted == task = "columns" \/ InArguments \/ c \in Functions \union Calls
           content == CASE server.mode # "normal" \/ c \in Blank -> server.content
                        [] server.mode = "normal" /\ c \in Comments ->
                             IF server.content = "none" THEN "comment" ELSE server.content
                        [] OTHER -> "command"
           resumes == IF server.skip THEN "no" ELSE resume
           parens == IF counted THEN read.parens ELSE server.parens
           arguments == IF Begins(server, c) THEN read.arguments + 1 ELSE read.arguments
           argument == (read.argument \/ Begins(server, c)) /\ ~Finishes(server, c)
<1>1. TypeOK /\ ServerInv /\ c \in Statement /\ server \in ServerState /\ task = "statement"
  BY Units DEF TypeOK, StatementInv, StatementUnit
<1>2. server' = [read EXCEPT !.resume = resumes, !.parens = parens, !.content = content,
                             !.arguments = arguments, !.argument = argument]
  BY Zenon DEF StatementUnit, ServerStep
<1>3. resumes \in {"no", "closed", "broken"}
  BY <1>1 DEF ServerState
<1>4. content \in {"none", "comment", "command"} /\ (content # "none" <=> server.content # "none" \/ c \notin Blank)
  <2>1. CASE server.mode # "normal" \/ c \in Blank
    <3>1. content = server.content
      BY <2>1, Zenon DEF Blank, Comments
    <3>2. server.mode # "normal" => server.content # "none"
      BY <1>1 DEF ServerInv
    <3> HIDE DEF content
    <3> QED
      BY <1>1, <2>1, <3>1, <3>2 DEF ServerState
  <2>2. CASE server.mode = "normal" /\ c \in Comments
    <3>1. content = (IF server.content = "none" THEN "comment" ELSE server.content) /\ c \notin Blank
      BY <2>2, Zenon DEF Blank, Comments
    <3> HIDE DEF content
    <3> QED
      BY <1>1, <3>1 DEF ServerState
  <2>3. CASE server.mode = "normal" /\ c \notin Blank \union Comments
    <3>1. content = "command"
      BY <2>3, Zenon
    <3> HIDE DEF content
    <3> QED
      BY <2>3, <3>1
  <2> QED
    BY <2>1, <2>2, <2>3
<1>5. ASSUME read \in ServerState, parens \in Int, SameRest(read, server)
      PROVE  /\ server' \in ServerState /\ server'.content = content /\ server'.parens = parens
             /\ server'.mode = read.mode /\ server'.depth = read.depth /\ server'.skip = read.skip
             /\ server'.word = read.word /\ server'.markers = read.markers /\ server'.from = server.from
             /\ server'.arguments = IF Begins(server, c) THEN server.arguments + 1 ELSE server.arguments
             /\ server'.argument <=> (server.argument \/ Begins(server, c)) /\ ~Finishes(server, c)
  <2>1. /\ arguments = IF Begins(server, c) THEN server.arguments + 1 ELSE server.arguments
        /\ arguments \in Nat /\ argument \in BOOLEAN
        /\ argument <=> (server.argument \/ Begins(server, c)) /\ ~Finishes(server, c)
    BY <1>1, <1>5 DEF SameRest, ServerState
  <2> HIDE DEF read, resumes, parens, content, arguments, argument
  <2>2. /\ server' \in ServerState /\ server'.content = content /\ server'.parens = parens
        /\ server'.mode = read.mode /\ server'.depth = read.depth /\ server'.skip = read.skip
        /\ server'.word = read.word /\ server'.markers = read.markers /\ server'.from = read.from
        /\ server'.arguments = arguments /\ server'.argument = argument
    BY <1>2, <1>3, <1>4, <1>5, <2>1 DEF ServerState
  <2> QED
    BY <1>5, <2>1, <2>2 DEF SameRest
<1>6. ~server.from /\ server.parens \in Int
  BY <1>1 DEF ServerInv, ServerState
<1> HIDE DEF resume, content, counted, resumes, arguments, argument
<1>7. CASE server.skip
  <2>1. read = [server EXCEPT !.skip = FALSE]
    BY <1>7, Zenon
  <2> HIDE DEF read
  <2>2. /\ read \in ServerState /\ read.mode = server.mode /\ read.depth = server.depth /\ ~read.skip
        /\ read.parens = server.parens /\ read.markers = server.markers /\ read.word = server.word
        /\ SameRest(read, server)
    BY <1>1, <2>1 DEF ServerState, SameRest
  <2>3. parens = server.parens
    BY <2>2
  <2> HIDE DEF parens
  <2> QED
    BY <1>4, <1>5, <1>6, <1>7, <2>2, <2>3
<1>8. CASE ~server.skip /\ server.mode # "normal"
  <2>1. read = ServerInside(server, c, next)
    BY <1>8, Zenon
  <2>2. IF server.mode = "block" THEN server.depth > 0 ELSE server.depth = 0
    BY <1>1 DEF ServerInv
  <2> HIDE DEF read
  <2>3. /\ read \in ServerState
        /\ read.mode = IF Closes(server.mode, server.depth, c, next) THEN "normal" ELSE server.mode
        /\ read.depth = DepthAfter(server.mode, server.depth, c)
        /\ read.skip <=> Consumes(server.mode, c, next)
        /\ Closes(server.mode, server.depth, c, next) => ~read.word
        /\ read.parens = server.parens /\ read.markers = server.markers /\ SameRest(read, server)
    BY <1>1, <1>8, <2>1, <2>2, ServerInsideCases
  <2>4. parens = server.parens
    BY <2>3
  <2> HIDE DEF parens
  <2> QED
    BY <1>4, <1>5, <1>6, <1>8, <2>3, <2>4
<1>9. CASE ~server.skip /\ server.mode = "normal"
  <2>1. read = ServerText(server, c, next)
    BY <1>9, Zenon
  <2>2. /\ server.depth = 0 /\ (server.resume = "broken" => c # "'") /\ (c \in Delimiters => ~server.word)
        /\ c = "E" => ~server.word
    BY <1>1, <1>9, Units DEF ServerInv
  <2> HIDE DEF read
  <2>3. /\ read \in ServerState
        /\ read.mode = Opening(c, next)
        /\ read.depth = IF c = "/*" THEN 1 ELSE 0
        /\ read.skip <=> (c = "E" /\ next = "'") \/ (c = "?" /\ next = "?")
        /\ read.parens = server.parens + Nesting(c)
        /\ read.markers = server.markers + Marks(c, next)
        /\ read.mode = "normal" /\ read.word => c \in Letters \/ (c = "?" /\ next # "?")
        /\ SameRest(read, server)
    BY <1>1, <1>9, <2>1, <2>2, ServerTextCases
  <2>4. parens = server.parens + (IF InArguments \/ c \in Functions \union Calls THEN Nesting(c) ELSE 0)
    BY <1>1, <1>6, <2>3 DEF counted
  <2>5. parens \in Int
    BY <1>6, <2>4 DEF Nesting
  <2> HIDE DEF parens
  <2> QED
    BY <1>4, <1>5, <1>6, <1>9, <2>3, <2>4, <2>5
<1> QED
  BY <1>7, <1>8, <1>9

\* The semicolons of the splitter are the server's.
LEMMA EndsTogether ==
  ASSUME Inv, NEW c, NEW next \in Kinds, StatementUnit(c, next)
  PROVE  Ends(split, c) <=> Ends(server, c)
<1>1. SplitInv
  BY Units DEF StatementInv
<1>2. server.skip /\ server.mode = "normal" => c = "?"
  BY Units
<1> QED
  BY <1>1, <1>2 DEF Ends, SplitInv

\* The server's reading keeps its own part of the invariant.
LEMMA ServerKeeps ==
  ASSUME Inv, NEW c, NEW next \in Kinds, StatementUnit(c, next), ~Ends(server, c)
  PROVE  ServerInv'
<1>1. ServerInv /\ TypeOK /\ server \in ServerState /\ server.mode \in Modes /\ server.depth \in Int
  BY Units DEF StatementInv, TypeOK, ServerState
<1>2. peek' = next
  BY DEF StatementUnit
<1>3. server'.content # "none" <=> server.content # "none" \/ c \notin Blank
  BY ServerReads
<1>4. ~server'.from
  BY ServerReads
<1>5. CASE server.skip
  <2>1. server'.mode = server.mode /\ server'.depth = server.depth /\ ~server'.skip
    BY <1>5, ServerReads
  <2> QED
    BY <1>1, <1>3, <1>4, <1>5, <2>1 DEF ServerInv
<1>6. CASE ~server.skip /\ server.mode # "normal"
  <2>1. /\ server'.mode = IF Closes(server.mode, server.depth, c, next) THEN "normal" ELSE server.mode
        /\ server'.depth = DepthAfter(server.mode, server.depth, c)
        /\ server'.skip <=> Consumes(server.mode, c, next)
    BY <1>6, ServerReads
  <2>2. server.content # "none" /\ server'.content # "none"
    BY <1>1, <1>3, <1>6 DEF ServerInv
  <2>3. server'.skip => server.mode \in Quoted /\ server'.mode = server.mode
    BY <2>1 DEF Consumes, Closes, Unbroken, Quoted, Quote, Delimiters
  <2>4. Quoted \intersect Unbroken = {} /\ "normal" \notin Quoted
    BY DEF Quoted, Unbroken, Delimiters
  <2>5. IF server'.mode = "block" THEN server'.depth > 0 ELSE server'.depth = 0
    <3>1. CASE server.mode = "block"
      <4>1. server.depth > 0 /\ (Closes(server.mode, server.depth, c, next) <=> c = "*/" /\ server.depth = 1)
        BY <1>1, <3>1 DEF ServerInv, Closes, Delimiters, Quoted
      <4> QED
        BY <1>1, <2>1, <3>1, <4>1 DEF DepthAfter
    <3>2. CASE server.mode # "block"
      BY <1>1, <2>1, <3>2 DEF ServerInv, DepthAfter
    <3> QED
      BY <3>1, <3>2
  <2> QED
    BY <1>4, <1>6, <2>2, <2>3, <2>4, <2>5 DEF ServerInv
<1>7. CASE ~server.skip /\ server.mode = "normal"
  <2>1. /\ server'.mode = Opening(c, next)
        /\ server'.depth = IF c = "/*" THEN 1 ELSE 0
        /\ server'.skip <=> (c = "E" /\ next = "'") \/ (c = "?" /\ next = "?")
        /\ server'.mode = "normal" /\ server'.word => c \in Letters \/ (c = "?" /\ next # "?")
    BY <1>7, ServerReads
  <2>2. Opening(c, next) = "block" <=> c = "/*"
    BY DEF Opening, Delimiters
  <2>3. c = "E" /\ next = "'" => Opening(c, next) = "escape"
    BY DEF Opening
  <2>4. c = "?" => Opening(c, next) = "normal" /\ c \notin Letters /\ c \notin Blank
    BY DEF Opening, Letters, Blank, Delimiters
  <2>5. Opening(c, next) # "normal" \/ server'.skip => c \notin Blank
    BY <2>1 DEF Opening, Blank, Delimiters
  <2>6. "escape" \notin Unbroken /\ "normal" \notin Unbroken
    BY DEF Unbroken, Delimiters
  <2> QED
    BY <1>2, <1>3, <1>4, <2>1, <2>2, <2>3, <2>4, <2>5, <2>6 DEF ServerInv
<1> QED
  BY <1>5, <1>6, <1>7

\* The splitter's reading keeps to the server's.
LEMMA SplitReads ==
  ASSUME Inv, NEW c, NEW next \in Kinds, StatementUnit(c, next), ~Ends(split, c)
  PROVE  /\ split' \in SplitState
         /\ split'.mode = server'.mode /\ split'.depth = server'.depth
         /\ split'.skip <=> server'.skip /\ server'.mode # "normal"
         /\ split'.text <=> server'.content # "none"
         /\ ~server.skip /\ server.mode = "normal" /\ c \in Letters /\ split'.mode = "normal" => split'.word
<1> DEFINE read == CASE split.skip -> [split EXCEPT !.skip = FALSE]
                     [] ~split.skip /\ split.mode = "normal" -> Opened(split, c, next)
                     [] ~split.skip /\ split.mode # "normal" -> InsideStep(split, c, next)
           text == read.text \/ c \notin Blank
<1>1. /\ SplitInv /\ ServerInv /\ split \in SplitState /\ server \in ServerState
      /\ split.mode = server.mode /\ split.depth = server.depth
      /\ split.skip <=> server.skip /\ server.mode # "normal"
      /\ split.text <=> server.content # "none"
  BY Units DEF StatementInv, TypeOK, SplitInv
<1>2. ~Ends(server, c)
  BY EndsTogether
<1>3. split' = [read EXCEPT !.text = text]
  BY Zenon DEF StatementUnit, SplitStep
<1>4. ASSUME read \in SplitState, read.text = split.text
      PROVE  /\ split' \in SplitState /\ split'.mode = read.mode /\ split'.depth = read.depth
             /\ split'.skip = read.skip /\ split'.word = read.word
             /\ split'.text <=> server'.content # "none"
  <2>1. text \in BOOLEAN
    BY <1>4 DEF SplitState
  <2>2. text <=> server'.content # "none"
    BY <1>1, <1>2, <1>4, ServerReads
  <2> HIDE DEF read, text
  <2>3. /\ split' \in SplitState /\ split'.mode = read.mode /\ split'.depth = read.depth
        /\ split'.skip = read.skip /\ split'.word = read.word /\ split'.text = text
    BY <1>3, <1>4, <2>1 DEF SplitState
  <2> QED
    BY <2>2, <2>3
<1>5. CASE server.skip /\ server.mode # "normal"
  <2>1. split.skip
    BY <1>1, <1>5
  <2>2. read = [split EXCEPT !.skip = FALSE]
    BY <2>1, Zenon
  <2> HIDE DEF read
  <2>3. /\ read \in SplitState /\ read.mode = split.mode /\ read.depth = split.depth /\ ~read.skip
        /\ read.text = split.text
    BY <1>1, <2>2 DEF SplitState
  <2>4. server'.mode = server.mode /\ server'.depth = server.depth /\ ~server'.skip
    BY <1>2, <1>5, ServerReads
  <2> HIDE DEF text
  <2> QED
    BY <1>1, <1>4, <1>5, <2>3, <2>4
<1>6. CASE ~server.skip /\ server.mode # "normal"
  <2>1. ~split.skip /\ split.mode # "normal"
    BY <1>1, <1>6
  <2>2. read = InsideStep(split, c, next)
    BY <2>1, Zenon
  <2> HIDE DEF read
  <2>3. split.mode = "block" => split.depth > 0
    BY <1>1 DEF ServerInv
  <2>4. /\ read \in SplitState
        /\ read.mode = IF Closes(split.mode, split.depth, c, next) THEN "normal" ELSE split.mode
        /\ read.depth = DepthAfter(split.mode, split.depth, c)
        /\ read.skip <=> Consumes(split.mode, c, next)
        /\ read.text = split.text
    BY <1>1, <2>1, <2>2, <2>3, SplitInside
  <2>5. /\ server'.mode = IF Closes(server.mode, server.depth, c, next) THEN "normal" ELSE server.mode
        /\ server'.depth = DepthAfter(server.mode, server.depth, c)
        /\ server'.skip <=> Consumes(server.mode, c, next)
    BY <1>2, <1>6, ServerReads
  <2>6. Consumes(server.mode, c, next) => server'.mode # "normal"
    BY <1>6, <2>5 DEF Consumes, Closes, Quoted, Quote, Delimiters
  <2> HIDE DEF text
  <2> QED
    BY <1>1, <1>4, <1>6, <2>4, <2>5, <2>6
<1>7. CASE server.mode = "normal"
  <2>1. ~split.skip /\ split.mode = "normal" /\ split.depth = 0
    BY <1>1, <1>7 DEF ServerInv
  <2>2. read = Opened(split, c, next)
    BY <2>1, Zenon
  <2>3. c \in Delimiters => ~split.word
    <3>1. c \in Delimiters => c # "?"
      BY DEF Delimiters
    <3> QED
      BY <1>7, <3>1, Units
  <2> HIDE DEF read
  <2>4. /\ read \in SplitState
        /\ read.mode = Opening(c, next)
        /\ read.depth = IF c = "/*" THEN 1 ELSE 0
        /\ read.skip <=> c = "E" /\ next = "'"
        /\ read.mode = "normal" => (read.word <=> c \in Letters)
        /\ read.text = split.text
    BY <1>1, <2>1, <2>2, <2>3, SplitOpened
  <2>5. c = "E" /\ next = "'" => Opening(c, next) = "escape"
    BY DEF Opening
  <2>6. c = "?" => Opening(c, next) = "normal" /\ c \notin Letters
    BY DEF Opening, Letters, Delimiters
  <2> HIDE DEF text
  <2>7. CASE server.skip
    <3>1. c = "?"
      BY <1>7, <2>7, Units
    <3>2. server'.mode = server.mode /\ server'.depth = server.depth /\ ~server'.skip
      BY <1>2, <2>7, ServerReads
    <3> QED
      BY <1>1, <1>4, <1>7, <2>1, <2>4, <2>6, <2>7, <3>1, <3>2
  <2>8. CASE ~server.skip
    <3>1. /\ server'.mode = Opening(c, next)
          /\ server'.depth = IF c = "/*" THEN 1 ELSE 0
          /\ server'.skip <=> (c = "E" /\ next = "'") \/ (c = "?" /\ next = "?")
      BY <1>2, <1>7, <2>8, ServerReads
    <3> QED
      BY <1>1, <1>4, <1>7, <2>4, <2>5, <2>6, <2>8, <3>1
  <2> QED
    BY <2>7, <2>8
<1> QED
  BY <1>5, <1>6, <1>7

----------------------------------------------------------------------------
(* The stack of functions and what it stands for.                          *)

\* The depth in a function is a number.
LEMMA FrameParens ==
  /\ \A frame \in Frame : frame.parens \in Int
  /\ \A stack \in Seq(Frame) : \A i \in 1..Len(stack) : stack[i] \in Frame /\ stack[i].parens \in Int
<1>1. \A frame \in Frame : frame.parens \in Int
  BY DEF Frame
<1>2. ASSUME NEW stack \in Seq(Frame), NEW i \in 1..Len(stack) PROVE stack[i] \in Frame
  OBVIOUS
<1> QED
  BY <1>1, <1>2

\* A parenthesis that is open belongs to a function and has a depth in it.
LEMMA ParensMember ==
  ASSUME NEW stack \in Seq(Frame), NEW p
  PROVE  p \in Parens(stack) <=> \E i \in 1..Len(stack) : \E k \in 1..stack[i].parens : p = <<i, k>>
BY DEF Parens

\* A function is opened.
LEMMA ParensPushed ==
  ASSUME NEW stack \in Seq(Frame), NEW frame \in Frame, IsFiniteSet(Parens(stack))
  PROVE  /\ Append(stack, frame) \in Seq(Frame)
         /\ frame.parens = 0 => Parens(Append(stack, frame)) = Parens(stack)
         /\ frame.parens = 1 =>
              /\ IsFiniteSet(Parens(Append(stack, frame)))
              /\ Cardinality(Parens(Append(stack, frame))) = Cardinality(Parens(stack)) + 1
<1> DEFINE longer == Append(stack, frame)
           n == Len(stack)
<1>1. /\ longer \in Seq(Frame) /\ Len(longer) = n + 1 /\ n \in Nat /\ longer[n + 1] = frame
      /\ \A i \in 1..n : longer[i] = stack[i]
  OBVIOUS
<1> HIDE DEF longer, n
<1>2. \A i \in 1..n : stack[i].parens \in Int
  BY FrameParens DEF n
<1>3. \A p : p \in Parens(stack) <=> \E i \in 1..n : \E k \in 1..stack[i].parens : p = <<i, k>>
  BY ParensMember DEF n
<1>4. \A p : p \in Parens(longer) <=> \E i \in 1..(n + 1) : \E k \in 1..longer[i].parens : p = <<i, k>>
  BY <1>1, ParensMember
<1>5. \A p : p \in Parens(longer) <=> p \in Parens(stack) \/ \E k \in 1..frame.parens : p = <<n + 1, k>>
  BY <1>1, <1>3, <1>4
<1>6. frame.parens = 0 => Parens(longer) = Parens(stack)
  <2>1. frame.parens = 0 => \A p : p \in Parens(longer) <=> p \in Parens(stack)
    BY <1>5
  <2> QED
    BY <2>1
<1>7. ASSUME frame.parens = 1
      PROVE  IsFiniteSet(Parens(longer)) /\ Cardinality(Parens(longer)) = Cardinality(Parens(stack)) + 1
  <2>1. Parens(longer) = Parens(stack) \union {<<n + 1, 1>>}
    BY <1>5, <1>7
  <2>2. <<n + 1, 1>> \notin Parens(stack)
    BY <1>1, <1>3
  <2> QED
    BY <2>1, <2>2, FS_AddElement
<1> QED
  BY <1>1, <1>6, <1>7 DEF longer

\* What the innermost function collects, or the depth in it, changes.
LEMMA ParensReplaced ==
  ASSUME NEW stack \in Seq(Frame), stack # <<>>, NEW frame \in Frame, IsFiniteSet(Parens(stack))
  PROVE  LET n == Len(stack)
             other == [stack EXCEPT ![n] = frame]
         IN /\ other \in Seq(Frame) /\ Len(other) = n /\ n \in 1..n /\ other[n] = frame
            /\ \A i \in 1..(n - 1) : other[i] = stack[i]
            /\ frame.parens = stack[n].parens => Parens(other) = Parens(stack)
            /\ frame.parens = stack[n].parens + 1 /\ stack[n].parens >= 0 =>
                 IsFiniteSet(Parens(other)) /\ Cardinality(Parens(other)) = Cardinality(Parens(stack)) + 1
            /\ frame.parens = stack[n].parens - 1 /\ stack[n].parens >= 1 =>
                 IsFiniteSet(Parens(other)) /\ Cardinality(Parens(other)) = Cardinality(Parens(stack)) - 1
<1> DEFINE n == Len(stack)
           other == [stack EXCEPT ![n] = frame]
<1>1. /\ other \in Seq(Frame) /\ Len(other) = n /\ n \in Nat /\ n \in 1..n /\ other[n] = frame
      /\ \A i \in 1..(n - 1) : other[i] = stack[i]
  OBVIOUS
<1> HIDE DEF other, n
<1>2. /\ \A i \in 1..n : stack[i].parens \in Int
      /\ frame.parens \in Int
  BY FrameParens DEF n
<1>3. \A p : p \in Parens(stack) <=> \E i \in 1..n : \E k \in 1..stack[i].parens : p = <<i, k>>
  BY ParensMember DEF n
<1>4. \A p : p \in Parens(other) <=> \E i \in 1..n : \E k \in 1..other[i].parens : p = <<i, k>>
  BY <1>1, ParensMember
<1> DEFINE Rest == {p \in Parens(stack) : \E i \in 1..(n - 1) : \E k \in 1..stack[i].parens : p = <<i, k>>}
<1>5. \A p : p \in Parens(stack) <=> p \in Rest \/ \E k \in 1..stack[n].parens : p = <<n, k>>
  BY <1>1, <1>3
<1>6. \A p : p \in Parens(other) <=> p \in Rest \/ \E k \in 1..frame.parens : p = <<n, k>>
  BY <1>1, <1>3, <1>4
<1>7. \A k : <<n, k>> \notin Rest
  BY <1>1
<1> HIDE DEF Rest
<1>8. ASSUME frame.parens = stack[n].parens PROVE Parens(other) = Parens(stack)
  <2>1. \A p : p \in Parens(other) <=> p \in Parens(stack)
    BY <1>5, <1>6, <1>8
  <2> QED
    BY <2>1
<1>9. ASSUME frame.parens = stack[n].parens + 1, stack[n].parens >= 0
      PROVE  IsFiniteSet(Parens(other)) /\ Cardinality(Parens(other)) = Cardinality(Parens(stack)) + 1
  <2>1. Parens(other) = Parens(stack) \union {<<n, frame.parens>>}
    BY <1>1, <1>2, <1>5, <1>6, <1>9
  <2>2. <<n, frame.parens>> \notin Parens(stack)
    BY <1>1, <1>2, <1>5, <1>7, <1>9
  <2> QED
    BY <2>1, <2>2, FS_AddElement
<1>10. ASSUME frame.parens = stack[n].parens - 1, stack[n].parens >= 1
       PROVE  IsFiniteSet(Parens(other)) /\ Cardinality(Parens(other)) = Cardinality(Parens(stack)) - 1
  <2> DEFINE depth == stack[n].parens
  <2>1. Parens(other) = Parens(stack) \ {<<n, depth>>}
    BY <1>1, <1>2, <1>5, <1>6, <1>7, <1>10
  <2>2. <<n, depth>> \in Parens(stack)
    BY <1>1, <1>2, <1>5, <1>10
  <2>3. IsFiniteSet(Parens(stack) \ {<<n, depth>>})
        /\ Cardinality(Parens(stack) \ {<<n, depth>>}) = Cardinality(Parens(stack)) - 1
    BY <2>2, FS_RemoveElement
  <2> QED
    BY <2>1, <2>3
<1> QED
  BY <1>1, <1>8, <1>9, <1>10 DEF other, n

\* A function is closed.
LEMMA ParensPopped ==
  ASSUME NEW stack \in Seq(Frame), stack # <<>>, IsFiniteSet(Parens(stack))
  PROVE  LET n == Len(stack)
             shorter == SubSeq(stack, 1, n - 1)
         IN /\ shorter \in Seq(Frame) /\ Len(shorter) = n - 1 /\ n - 1 \in Nat
            /\ \A i \in 1..(n - 1) : shorter[i] = stack[i]
            /\ stack[n].parens = 0 => Parens(shorter) = Parens(stack)
            /\ stack[n].parens = 1 =>
                 IsFiniteSet(Parens(shorter)) /\ Cardinality(Parens(shorter)) = Cardinality(Parens(stack)) - 1
<1> DEFINE n == Len(stack)
           shorter == SubSeq(stack, 1, n - 1)
<1>1. /\ shorter \in Seq(Frame) /\ Len(shorter) = n - 1 /\ n - 1 \in Nat /\ n \in Nat /\ n \in 1..n
      /\ \A i \in 1..(n - 1) : shorter[i] = stack[i]
  <2>1. n \in Nat /\ n >= 1
    OBVIOUS
  <2>2. \A i \in 1..(n - 1) : stack[i] \in Frame
    BY <2>1
  <2> HIDE DEF n
  <2> QED
    BY <2>1, <2>2, SubSeqProperties
<1> HIDE DEF shorter, n
<1>2. \A i \in 1..n : stack[i].parens \in Int
  BY FrameParens DEF n
<1>3. \A p : p \in Parens(stack) <=> \E i \in 1..n : \E k \in 1..stack[i].parens : p = <<i, k>>
  BY ParensMember DEF n
<1>4. \A p : p \in Parens(shorter) <=> \E i \in 1..(n - 1) : \E k \in 1..shorter[i].parens : p = <<i, k>>
  BY <1>1, ParensMember
<1>5. \A p : p \in Parens(stack) <=> p \in Parens(shorter) \/ \E k \in 1..stack[n].parens : p = <<n, k>>
  BY <1>1, <1>3, <1>4
<1>6. \A k : <<n, k>> \notin Parens(shorter)
  BY <1>1, <1>4
<1>7. ASSUME stack[n].parens = 0 PROVE Parens(shorter) = Parens(stack)
  <2>1. \A p : p \in Parens(shorter) <=> p \in Parens(stack)
    BY <1>5, <1>7
  <2> QED
    BY <2>1
<1>8. ASSUME stack[n].parens = 1
      PROVE  IsFiniteSet(Parens(shorter)) /\ Cardinality(Parens(shorter)) = Cardinality(Parens(stack)) - 1
  <2>1. Parens(shorter) = Parens(stack) \ {<<n, 1>>}
    BY <1>5, <1>6, <1>8
  <2>2. <<n, 1>> \in Parens(stack)
    BY <1>5, <1>8
  <2>3. IsFiniteSet(Parens(stack) \ {<<n, 1>>})
        /\ Cardinality(Parens(stack) \ {<<n, 1>>}) = Cardinality(Parens(stack)) - 1
    BY <2>2, FS_RemoveElement
  <2> QED
    BY <2>1, <2>3
<1> QED
  BY <1>1, <1>7, <1>8 DEF shorter, n

\* A marker is mentioned by the text, or by a function around it.
LEMMA MentionedMember ==
  ASSUME NEW s \in ScanState, NEW x
  PROVE  x \in Mentioned(s) <=> x \in s.out \/ \E i \in 1..Len(s.stack) : x \in MentionedIn(s.stack[i])
BY DEF Mentioned, ScanState

----------------------------------------------------------------------------
(* The scanner's reading.                                                  *)

\* What a unit of ordinary text may be, by what the scanner reads.
LEMMA UnitsOfText ==
  ASSUME Inv, NEW c, NEW next \in Kinds, StatementUnit(c, next), ~Ends(split, c),
         ~server.skip, server.mode = "normal"
  PROVE  /\ c # "*/" /\ c # "semicolon"
         /\ scan.mode = "raw" => c \notin {"?", "(", ")", "comma"} \union Delimiters
         /\ scan.mode \in {"closing", "tail"} => c \in Blank \union {"brace"}
         /\ c = "brace" => scan.mode \in {"raw", "tail", "closing"} \/ (scan.mode = "normal" /\ InJoin(scan))
         /\ c \in Functions \union Raw \union {"oj"} \union Calls => scan.mode = "normal"
         /\ c \in Calls \union {"oj"} => scan.stack = <<>>
<1>1. WellFormed(c)
  BY DEF StatementUnit, Admissible
<1>2. ~split.skip /\ split.mode = "normal"
  BY Units DEF StatementInv, SplitInv
<1>3. c # "semicolon"
  BY <1>2 DEF Ends
<1> QED
  BY <1>1, <1>3 DEF WellFormed, InPlace

\* How text inside an escape is spelled.
LEMMA UnitsOfEscapes ==
  ASSUME Inv, NEW c, NEW next \in Kinds, StatementUnit(c, next)
  PROVE  /\ scan.mode \in {"raw", "call"} /\ server.mode # "normal" => c \notin Brackets \union {"brace"}
         /\ scan.mode = "call" => c \notin Comments \union Delimiters
         /\ scan.mode = "call" /\ server.mode = "normal" /\ c = "?" => ~scan.literal
         /\ scan.mode = "call" /\ ~scan.literal /\ server.argument => c \in Blank \union {"comma", ")"}
         /\ Begins(server, c) => scan.arguments < MaxCallArguments
         /\ scan.mode = "call" /\ scan.length = MaxLiteral =>
              server.mode = "normal" /\ scan.parens = 1 /\ c \in {"comma", ")"}
         /\ InFunction(scan) /\ scan.mode = "normal" /\ c = "comma" /\ Top(scan).parens = 1 =>
              Top(scan).kind = "fn(" /\ Len(Top(scan).args) < MaxArguments - 1
<1>1. Spelled(c)
  BY DEF StatementUnit, Admissible
<1> QED
  BY <1>1 DEF Spelled

\* What the scanner's reading of a unit has to see to.
ScanKept(c, next) ==
  /\ scan' \in ScanState /\ ScanInv' /\ FramesInv' /\ CallInv' /\ ParensInv' /\ MarkersInv'
  /\ c = "?" /\ next # "?" /\ server.mode = "normal" /\ ~server.skip => scan'.word

\* Steps that leave the functions and the markers alone.
LEMMA SameStack ==
  ASSUME StatementInv, TypeOK, scan' \in ScanState, scan'.stack = scan.stack
  PROVE  /\ FramesInv'
         /\ IsFiniteSet(Parens(scan'.stack))
         /\ Cardinality(Parens(scan'.stack)) = Cardinality(Parens(scan.stack))
         /\ scan'.out = scan.out => Mentioned(scan') = Mentioned(scan)
         /\ scan'.out = scan.out /\ scan'.count = scan.count /\ server'.markers = server.markers => MarkersInv'
<1>1. FramesInv'
  BY DEF StatementInv, FramesInv
<1>2. IsFiniteSet(Parens(scan'.stack)) /\ Cardinality(Parens(scan'.stack)) = Cardinality(Parens(scan.stack))
  BY DEF StatementInv, ParensInv
<1>3. scan'.out = scan.out => Mentioned(scan') = Mentioned(scan)
  BY DEF Mentioned
<1> QED
  BY <1>1, <1>2, <1>3 DEF StatementInv, MarkersInv

\* The second unit of a pair.
LEMMA ScanSkips ==
  ASSUME Inv, NEW c, NEW next \in Kinds, StatementUnit(c, next), ~Ends(split, c), scan.skip
  PROVE  ScanKept(c, next)
<1>1. StatementInv /\ TypeOK /\ ScanInv /\ ParensInv /\ CallInv /\ scan \in ScanState
  BY Units DEF StatementInv, TypeOK
<1>2. scan.mode \in Modes /\ server.skip /\ scan.mode = server.mode /\ scan.depth = server.depth
  BY <1>1 DEF ScanInv
<1>3. scan.mode \notin {"tail", "closing", "call"}
  BY <1>2 DEF Modes, Delimiters
<1>4. scan' = [scan EXCEPT !.skip = FALSE]
  BY Zenon DEF StatementUnit, ScanStep
<1>5. /\ scan' \in ScanState /\ scan'.mode = scan.mode /\ scan'.depth = scan.depth /\ ~scan'.skip
      /\ scan'.stack = scan.stack /\ scan'.out = scan.out /\ scan'.count = scan.count
  BY <1>1, <1>4 DEF ScanState
<1>6. /\ server'.mode = server.mode /\ server'.depth = server.depth /\ ~server'.skip
      /\ server'.parens = server.parens /\ server'.markers = server.markers
  BY <1>2, EndsTogether, ServerReads
<1>7. FramesInv' /\ MarkersInv' /\ IsFiniteSet(Parens(scan'.stack))
      /\ Cardinality(Parens(scan'.stack)) = Cardinality(Parens(scan.stack))
  BY <1>1, <1>5, <1>6, SameStack
<1>8. ScanInv' /\ CallInv'
  BY <1>2, <1>3, <1>5, <1>6 DEF ScanInv, CallInv
<1>9. ParensInv'
  BY <1>1, <1>3, <1>5, <1>6, <1>7 DEF ParensInv, OpenParens
<1> QED
  BY <1>2, <1>5, <1>7, <1>8, <1>9 DEF ScanKept

\* Literals, identifiers and comments that the scanner reads itself.
LEMMA ScanContexts ==
  ASSUME Inv, NEW c, NEW next \in Kinds, StatementUnit(c, next), ~Ends(split, c), ~scan.skip,
         scan.mode \in Modes \ {"normal"}
  PROVE  ScanKept(c, next)
<1>1. StatementInv /\ TypeOK /\ ScanInv /\ ParensInv /\ ServerInv /\ scan \in ScanState
  BY Units DEF StatementInv, TypeOK
<1>2. ~server.skip /\ scan.mode = server.mode /\ scan.depth = server.depth /\ server.mode # "normal"
  BY <1>1 DEF ScanInv
<1>3. scan.mode \notin {"tail", "closing", "call", "raw"}
  BY DEF Modes, Delimiters
<1>4. scan' = InsideStep(scan, c, next)
  BY <1>3, Zenon DEF StatementUnit, ScanStep
<1>5. scan.mode = "block" => scan.depth > 0
  BY <1>1, <1>2 DEF ServerInv
<1>6. /\ scan' \in ScanState
      /\ scan'.mode = IF Closes(scan.mode, scan.depth, c, next) THEN "normal" ELSE scan.mode
      /\ scan'.depth = DepthAfter(scan.mode, scan.depth, c)
      /\ scan'.skip <=> Consumes(scan.mode, c, next)
      /\ scan'.stack = scan.stack /\ scan'.count = scan.count /\ scan'.out = scan.out
  BY <1>1, <1>4, <1>5, ScanInside
<1>7. /\ server'.mode = IF Closes(server.mode, server.depth, c, next) THEN "normal" ELSE server.mode
      /\ server'.depth = DepthAfter(server.mode, server.depth, c)
      /\ server'.skip <=> Consumes(server.mode, c, next)
      /\ server'.parens = server.parens /\ server'.markers = server.markers
  BY <1>2, EndsTogether, ServerReads
<1>8. FramesInv' /\ MarkersInv' /\ IsFiniteSet(Parens(scan'.stack))
      /\ Cardinality(Parens(scan'.stack)) = Cardinality(Parens(scan.stack))
  BY <1>1, <1>6, <1>7, SameStack
<1>9. scan'.mode \in Modes /\ scan'.mode \notin {"tail", "closing", "call"}
  BY <1>3, <1>6 DEF Modes
<1>10. ScanInv' /\ CallInv'
  BY <1>2, <1>6, <1>7, <1>9 DEF ScanInv, CallInv
<1>11. ParensInv'
  BY <1>1, <1>3, <1>7, <1>8, <1>9 DEF ParensInv, OpenParens
<1> QED
  BY <1>2, <1>6, <1>8, <1>10, <1>11 DEF ScanKept

\* One more unit of a literal argument.
Copied(s) == [s EXCEPT !.literal = TRUE, !.length = @ + 1]

\* It changes the length of the literal and nothing else that is asked about.
LEMMA CopiedState ==
  ASSUME scan \in ScanState, NEW read, read = Copied(scan)
  PROVE  /\ read \in ScanState /\ read.mode = scan.mode /\ read.depth = scan.depth /\ read.skip = scan.skip
         /\ read.stack = scan.stack /\ read.out = scan.out /\ read.count = scan.count
         /\ read.parens = scan.parens /\ read.literal /\ read.arguments = scan.arguments
<1> DEFINE longer == scan.length + 1
<1>1. longer \in Nat
  BY DEF ScanState
<1>2. read = [scan EXCEPT !.literal = TRUE, !.length = longer]
  BY DEF Copied
<1> HIDE DEF longer
<1> QED
  BY <1>1, <1>2 DEF ScanState

\* What is copied raw may have literals in it.
LEMMA ScanCopies ==
  ASSUME Inv, NEW c, NEW next \in Kinds, StatementUnit(c, next), ~Ends(split, c), ~scan.skip,
         scan.mode \notin Modes, server.skip \/ server.mode # "normal"
  PROVE  ScanKept(c, next)
<1>1. StatementInv /\ TypeOK /\ ScanInv /\ ParensInv /\ CallInv /\ scan \in ScanState
  BY Units DEF StatementInv, TypeOK
<1>2. scan.mode = "raw" \/ (scan.mode = "call" /\ scan.literal)
  BY <1>1 DEF ScanInv, ScanState, ScanModes
<1>3. scan.depth = 0
  BY <1>1 DEF ScanInv
<1>4. server'.parens = server.parens /\ server'.markers = server.markers
  BY EndsTogether, ServerReads
<1>5. c \notin Brackets \union {"brace"} /\ (scan.mode = "call" => scan.length # MaxLiteral)
  <2>1. CASE server.mode # "normal"
    BY <1>2, <2>1, UnitsOfEscapes
  <2>2. CASE server.mode = "normal"
    BY <1>2, <2>2, Units, UnitsOfEscapes DEF Brackets
  <2> QED
    BY <2>1, <2>2
<1>6. CASE scan.mode = "raw"
  <2>1. scan' = BraceStep(scan, c)
    BY <1>6, Zenon DEF StatementUnit, ScanStep, Modes
  <2>2. scan' = scan
    BY <1>5, <2>1 DEF BraceStep
  <2>3. FramesInv' /\ MarkersInv' /\ IsFiniteSet(Parens(scan'.stack))
    BY <1>1, <1>4, <2>2, SameStack
  <2>4. ScanInv' /\ CallInv'
    BY <1>1, <1>3, <1>6, <2>2 DEF ScanInv, CallInv
  <2>5. ParensInv'
    BY <1>1, <1>4, <2>2 DEF ParensInv
  <2> QED
    BY <1>1, <2>2, <2>3, <2>4, <2>5 DEF ScanKept
<1>7. CASE scan.mode = "call" /\ scan.literal
  <2>1. scan' = CallStep(scan, c, next)
    BY <1>7, Zenon DEF StatementUnit, ScanStep, Modes
  <2>2. CallStep(scan, c, next) = CallLiteralStep(scan, c)
    BY <1>5, <1>7, Zenon DEF CallStep
  <2>3. c \notin {"comma", ")", "("}
    BY <1>5 DEF Brackets
  <2>4. scan' = Copied(scan)
    BY <2>1, <2>2, <2>3, Zenon DEF CallLiteralStep, Copied
  <2>5. /\ scan' \in ScanState /\ scan'.mode = scan.mode /\ scan'.depth = scan.depth /\ scan'.skip = scan.skip
        /\ scan'.stack = scan.stack /\ scan'.out = scan.out /\ scan'.count = scan.count
        /\ scan'.parens = scan.parens /\ scan'.literal
    BY <1>1, <2>4, CopiedState
  <2>6. FramesInv' /\ MarkersInv' /\ IsFiniteSet(Parens(scan'.stack))
        /\ Cardinality(Parens(scan'.stack)) = Cardinality(Parens(scan.stack))
    BY <1>1, <1>4, <2>5, SameStack
  <2>7. ScanInv' /\ CallInv'
    BY <1>1, <1>3, <1>7, <2>5 DEF ScanInv, CallInv
  <2>8. ParensInv'
    BY <1>1, <1>4, <1>7, <2>5, <2>6 DEF ParensInv, OpenParens
  <2> QED
    BY <2>5, <2>6, <2>7, <2>8 DEF ScanKept
<1> QED
  BY <1>2, <1>6, <1>7

\* To the brace that ends a date, a call or a function.
LEMMA ScanBraces ==
  ASSUME Inv, NEW c, NEW next \in Kinds, StatementUnit(c, next), ~Ends(split, c), ~scan.skip,
         ~server.skip, server.mode = "normal", scan.mode \in {"raw", "tail", "closing"}
  PROVE  ScanKept(c, next)
<1>1. StatementInv /\ TypeOK /\ ScanInv /\ ParensInv /\ CallInv /\ scan \in ScanState
  BY Units DEF StatementInv, TypeOK
<1>2. scan.depth = 0 /\ server.parens \in Int /\ server.markers \in Nat
  BY <1>1 DEF ScanInv, Modes, Delimiters, TypeOK, ServerState
<1>3. /\ c \notin {"?", "(", ")", "comma"}
      /\ scan.mode \in {"closing", "tail"} => c \in Blank \union {"brace"}
      /\ c \notin Functions \union Raw \union Calls
  BY UnitsOfText DEF Blank, Functions, Raw, Calls, Modes
<1>4. Nesting(c) = 0 /\ Marks(c, next) = 0
  BY <1>3 DEF Nesting, Marks, Functions, Calls
<1>5. server'.parens = server.parens /\ server'.markers = server.markers
  BY <1>2, <1>4, EndsTogether, ServerReads
<1>6. c \in Blank \union {"brace"} => server'.mode = "normal" /\ server'.depth = 0 /\ ~server'.skip
  <2>1. c \in Blank \union {"brace"} => Opening(c, next) = "normal" /\ c \notin {"/*", "E", "?"}
    BY DEF Opening, Blank, Delimiters
  <2> QED
    BY <2>1, EndsTogether, ServerReads
<1>7. \/ scan' = scan /\ (scan.mode \in {"tail", "closing"} => c \in Blank)
      \/ c = "brace" /\ \E word \in BOOLEAN : scan' = [scan EXCEPT !.mode = "normal", !.word = word]
  <2>1. CASE scan.mode \in {"raw", "tail"}
    <3>1. scan' = BraceStep(scan, c)
      BY <2>1, Zenon DEF StatementUnit, ScanStep, Modes, Delimiters
    <3>2. CASE c = "brace"
      <4> DEFINE word == scan.mode = "raw"
      <4>1. word \in BOOLEAN /\ scan' = [scan EXCEPT !.mode = "normal", !.word = word]
        BY <3>1, <3>2 DEF BraceStep
      <4> QED
        BY <3>2, <4>1
    <3>3. CASE c # "brace"
      BY <1>3, <2>1, <3>1, <3>3 DEF BraceStep
    <3> QED
      BY <3>2, <3>3
  <2>2. CASE scan.mode = "closing"
    <3>1. scan' = ClosingStep(scan, c, next)
      BY <2>2, Zenon DEF StatementUnit, ScanStep, Modes, Delimiters
    <3>2. CASE c \in Blank
      <4>1. scan' = scan
        BY <3>1, <3>2, Zenon DEF ClosingStep, Blank
      <4> QED
        BY <3>2, <4>1
    <3>3. CASE c = "brace"
      <4>1. scan' = [scan EXCEPT !.mode = "normal"]
        BY <3>1, <3>3, Zenon DEF ClosingStep, Blank
      <4>2. scan' = [scan EXCEPT !.mode = "normal", !.word = scan.word] /\ scan.word \in BOOLEAN
        BY <1>1, <4>1 DEF ScanState
      <4> QED
        BY <3>3, <4>2
    <3> QED
      BY <1>3, <2>2, <3>2, <3>3
  <2> QED
    BY <2>1, <2>2
<1>8. CASE scan' = scan /\ (scan.mode \in {"tail", "closing"} => c \in Blank)
  <2>1. FramesInv' /\ MarkersInv' /\ IsFiniteSet(Parens(scan'.stack))
    BY <1>1, <1>5, <1>8, SameStack
  <2>2. ScanInv' /\ CallInv'
    BY <1>1, <1>2, <1>6, <1>8 DEF ScanInv, CallInv, Modes, Delimiters
  <2>3. ParensInv'
    BY <1>1, <1>5, <1>8 DEF ParensInv
  <2> QED
    BY <1>1, <1>3, <1>8, <2>1, <2>2, <2>3 DEF ScanKept
<1>9. CASE c = "brace" /\ \E word \in BOOLEAN : scan' = [scan EXCEPT !.mode = "normal", !.word = word]
  <2>1. PICK word \in BOOLEAN : scan' = [scan EXCEPT !.mode = "normal", !.word = word]
    BY <1>9
  <2>2. /\ scan' \in ScanState /\ scan'.mode = "normal" /\ scan'.depth = scan.depth /\ scan'.skip = scan.skip
        /\ scan'.stack = scan.stack /\ scan'.out = scan.out /\ scan'.count = scan.count
    BY <1>1, <2>1 DEF ScanState, ScanModes, Modes
  <2>3. FramesInv' /\ MarkersInv' /\ IsFiniteSet(Parens(scan'.stack))
        /\ Cardinality(Parens(scan'.stack)) = Cardinality(Parens(scan.stack))
    BY <1>1, <1>5, <2>2, SameStack
  <2>4. ScanInv' /\ CallInv'
    BY <1>2, <1>6, <1>9, <2>2 DEF ScanInv, CallInv, Modes
  <2>5. ParensInv'
    BY <1>1, <1>5, <2>2, <2>3 DEF ParensInv, OpenParens
  <2> QED
    BY <1>3, <2>2, <2>3, <2>4, <2>5 DEF ScanKept
<1> QED
  BY <1>7, <1>8, <1>9

\* A marker of the text, or an argument of a call.
LEMMA MarkerState ==
  ASSUME scan \in ScanState, NEW read, read = Marker(scan)
  PROVE  /\ read \in ScanState /\ read.mode = scan.mode /\ read.depth = scan.depth /\ read.skip = scan.skip
         /\ read.stack = scan.stack /\ read.out = scan.out \union {scan.count + 1}
         /\ read.count = scan.count + 1
         /\ read.parens = scan.parens /\ read.literal = scan.literal /\ read.length = scan.length /\ read.word
         /\ read.arguments = scan.arguments
<1> DEFINE count == scan.count + 1
           out == scan.out \union {count}
<1>1. count \in Nat /\ out \subseteq Int
  BY DEF ScanState
<1>2. read = [scan EXCEPT !.count = count, !.out = out, !.word = TRUE]
  BY DEF Marker
<1> HIDE DEF count, out
<1>3. /\ read \in ScanState /\ read.mode = scan.mode /\ read.depth = scan.depth /\ read.skip = scan.skip
      /\ read.stack = scan.stack /\ read.out = out /\ read.count = count
      /\ read.parens = scan.parens /\ read.literal = scan.literal /\ read.length = scan.length /\ read.word
      /\ read.arguments = scan.arguments
  BY <1>1, <1>2 DEF ScanState
<1> QED
  BY <1>3 DEF count, out

\* A marker that is counted is mentioned.
LEMMA MarkerMentioned ==
  ASSUME StatementInv, TypeOK, scan' \in ScanState, scan'.stack = scan.stack,
         scan'.out = scan.out \union {scan.count + 1}, scan'.count = scan.count + 1,
         server'.markers = server.markers + 1
  PROVE  MarkersInv'
<1>1. scan.count \in Nat /\ scan.count = server.markers /\ Mentioned(scan) = 1..scan.count
  BY DEF StatementInv, MarkersInv, TypeOK, ScanState
<1>2. Mentioned(scan') = Mentioned(scan) \union {scan.count + 1}
  BY DEF Mentioned
<1>3. 1..(scan.count + 1) = (1..scan.count) \union {scan.count + 1}
  BY <1>1
<1> QED
  BY <1>1, <1>2, <1>3 DEF MarkersInv

\* The argument that ends, where one was being copied.
Ended(s) == IF s.literal THEN 1 ELSE 0

\* The arguments of a call.
LEMMA CallCases ==
  ASSUME Inv, NEW c, NEW next \in Kinds, StatementUnit(c, next), ~Ends(split, c), ~scan.skip,
         ~server.skip, server.mode = "normal", scan.mode = "call"
  PROVE  /\ scan' \in ScanState /\ scan'.depth = scan.depth /\ ~scan'.skip /\ scan'.stack = scan.stack
         /\ \/ /\ c \in Blank \union {"comma"} /\ scan'.mode = "call" /\ ~scan'.literal /\ scan'.length = 0
               /\ scan.parens = 1 /\ scan'.parens = 1 /\ scan'.out = scan.out /\ scan'.count = scan.count
               /\ scan'.arguments = scan.arguments + Ended(scan)
            \/ /\ c = ")" /\ scan'.mode = "tail" /\ scan.parens = 1
               /\ scan'.out = scan.out /\ scan'.count = scan.count
               /\ scan'.arguments = scan.arguments + Ended(scan)
            \/ /\ c = "?" /\ next # "?" /\ scan'.mode = "call" /\ ~scan.literal /\ scan'.literal = scan.literal
               /\ scan'.arguments = scan.arguments + 1
               /\ scan'.length = scan.length /\ scan'.parens = scan.parens
               /\ scan'.out = scan.out \union {scan.count + 1} /\ scan'.count = scan.count + 1 /\ scan'.word
            \/ /\ ~(c = "?" /\ next # "?") /\ scan'.mode = "call" /\ scan'.literal
               /\ scan'.parens = scan.parens + Nesting(c) /\ scan'.out = scan.out /\ scan'.count = scan.count
               /\ scan'.arguments = scan.arguments
               /\ IF scan.literal THEN ~(c \in {"comma", ")"} /\ scan.parens = 1)
                  ELSE c \notin Blank \union {"comma", ")"}
<1> DEFINE zero == 0
           recorded == scan.arguments + 1
           here == [scan EXCEPT !.literal = FALSE, !.length = zero, !.arguments = recorded]
           deeper == scan.parens + 1
           shallower == scan.parens - 1
<1>1. StatementInv /\ CallInv /\ scan \in ScanState /\ scan.parens \in Int
  BY Units DEF StatementInv, TypeOK, ScanState
<1>2. scan' = CallStep(scan, c, next)
  BY Zenon DEF StatementUnit, ScanStep, Modes, Delimiters
<1>3. MaxLiteral # 0
  BY ParserAssumption
<1>4. "tail" \in ScanModes /\ zero \in Nat /\ zero \in Int /\ deeper \in Int /\ shallower \in Int
  BY <1>1 DEF ScanModes
<1>5. c \notin Functions \union Calls
  BY UnitsOfText DEF Functions, Calls
<1>6. Nesting(c) = IF c = "(" THEN 1 ELSE IF c = ")" THEN -1 ELSE 0
  BY <1>5 DEF Nesting
<1>7. scan.length = MaxLiteral => scan.literal /\ scan.parens = 1 /\ c \in {"comma", ")"}
  BY <1>1, <1>3, UnitsOfEscapes DEF CallInv
<1>8. c = "?" => ~scan.literal
  BY UnitsOfEscapes
<1>9. ~scan.literal => scan.parens = 1 /\ scan.length = 0
  BY <1>1 DEF CallInv
<1>10. scan.literal => scan.arguments < MaxCallArguments
  <2>1. MaxCallArguments \in Nat /\ scan.arguments \in Nat /\ ArgumentsInv
    BY <1>1, ParserAssumption DEF ScanState, StatementInv
  <2> QED
    BY <2>1 DEF ArgumentsInv
<1>11. scan.literal => EndLiteral(scan) = here
  BY <1>10 DEF EndLiteral, Recorded
<1>12. recorded \in Nat /\ recorded = scan.arguments + 1
  BY <1>1 DEF ScanState
<1>13. scan.literal => Ended(scan) = 1
  BY DEF Ended
<1>14. ~scan.literal => Ended(scan) = 0
  BY DEF Ended
<1>15. CASE scan.length # MaxLiteral /\ ~scan.literal /\ c = "?" /\ next # "?"
  <2>1. scan' = CallMarker(scan)
    BY <1>2, <1>15, Zenon DEF CallStep, Blank
  <2>2. scan.arguments < MaxCallArguments
    <3>1. c \notin Blank \union Comments \union {"comma", ")"}
      BY <1>15 DEF Blank, Comments
    <3>2. ~server.argument
      BY <1>15, <3>1, UnitsOfEscapes
    <3> QED
      BY <3>1, <3>2, UnitsOfEscapes DEF Begins
  <2> DEFINE count == scan.count + 1
             out == scan.out \union {count}
  <2>3. count \in Nat /\ out \subseteq Int
    BY <1>1 DEF ScanState
  <2>4. scan' = [scan EXCEPT !.count = count, !.arguments = recorded, !.word = TRUE, !.out = out]
    BY <2>1, <2>2 DEF CallMarker, Recorded
  <2> HIDE DEF count, out, recorded
  <2>5. /\ scan' \in ScanState /\ scan'.mode = scan.mode /\ scan'.depth = scan.depth /\ scan'.skip = scan.skip
        /\ scan'.stack = scan.stack /\ scan'.out = out /\ scan'.count = count
        /\ scan'.parens = scan.parens /\ scan'.literal = scan.literal /\ scan'.length = scan.length /\ scan'.word
        /\ scan'.arguments = recorded
    BY <1>1, <1>12, <2>3, <2>4 DEF ScanState
  <2> QED
    BY <1>12, <1>15, <2>5 DEF count, out
<1> HIDE DEF recorded
<1>16. here \in ScanState /\ here.mode = "call" /\ here.depth = scan.depth /\ ~here.skip
       /\ here.stack = scan.stack /\ here.out = scan.out /\ here.count = scan.count
       /\ here.parens = scan.parens /\ ~here.literal /\ here.length = zero /\ here.arguments = recorded
  <2> HIDE DEF zero
  <2> QED
    BY <1>1, <1>4, <1>12 DEF ScanState
<1>17. CASE scan.length = MaxLiteral
  <2>1. scan.literal /\ scan.parens = 1 /\ c \in {"comma", ")"}
    BY <1>7, <1>17
  <2>2. CASE c = "comma"
    <3>1. scan' = here
      BY <1>2, <1>16, <1>17, <1>11, <2>1, <2>2, Zenon DEF CallStep
    <3> HIDE DEF here
    <3> QED
      BY <1>16, <1>12, <1>13, <2>1, <2>2, <3>1 DEF zero
  <2>3. CASE c = ")"
    <3>1. c \notin Blank \union {"comma"}
      BY <2>3 DEF Blank
    <3>2. scan' = [here EXCEPT !.mode = "tail", !.parens = zero]
      BY <1>2, <1>16, <1>17, <1>11, <2>1, <2>3, <3>1, Zenon DEF CallStep
    <3> HIDE DEF here, zero
    <3>3. /\ scan' \in ScanState /\ scan'.mode = "tail" /\ scan'.depth = here.depth /\ scan'.skip = here.skip
          /\ scan'.stack = here.stack /\ scan'.out = here.out /\ scan'.count = here.count
          /\ scan'.arguments = here.arguments
      BY <1>4, <1>16, <3>2 DEF ScanState
    <3> QED
      BY <1>16, <1>12, <1>13, <2>1, <2>3, <3>3
  <2> QED
    BY <2>1, <2>2, <2>3
<1>18. ASSUME scan.length # MaxLiteral,
              (scan.literal /\ c \notin {"comma", ")"}) \/ (scan.literal /\ scan.parens # 1)
                \/ (~scan.literal /\ c \notin Blank \union {"comma", ")"} /\ ~(c = "?" /\ next # "?"))
       PROVE  /\ scan' \in ScanState /\ scan'.depth = scan.depth /\ ~scan'.skip /\ scan'.stack = scan.stack
              /\ scan'.mode = "call" /\ scan'.literal
              /\ scan'.parens = scan.parens + Nesting(c) /\ scan'.out = scan.out /\ scan'.count = scan.count
              /\ scan'.arguments = scan.arguments
              /\ IF scan.literal THEN ~(c \in {"comma", ")"} /\ scan.parens = 1)
                 ELSE c \notin Blank \union {"comma", ")"}
  <2>0. IF scan.literal THEN ~(c \in {"comma", ")"} /\ scan.parens = 1)
        ELSE c \notin Blank \union {"comma", ")"}
    BY <1>18
  <2> DEFINE copied == Copied(scan)
  <2>1. scan' = CallLiteralStep(scan, c)
    <3>1. CASE scan.literal
      BY <1>2, <1>18, <3>1, Zenon DEF CallStep
    <3>2. CASE ~scan.literal
      BY <1>2, <1>18, <3>2, Zenon DEF CallStep
    <3> QED
      BY <3>1, <3>2
  <2>2. /\ copied \in ScanState /\ copied.mode = "call" /\ copied.depth = scan.depth /\ ~copied.skip
        /\ copied.stack = scan.stack /\ copied.out = scan.out /\ copied.count = scan.count
        /\ copied.parens = scan.parens /\ copied.literal /\ copied.arguments = scan.arguments
    BY <1>1, CopiedState
  <2>3. CASE c = "("
    <3>1. scan' = [copied EXCEPT !.parens = copied.parens + 1]
      BY <2>1, <2>3, Zenon DEF CallLiteralStep, Copied
    <3>2. scan' = [copied EXCEPT !.parens = deeper]
      BY <2>2, <3>1
    <3> HIDE DEF copied, deeper
    <3>3. /\ scan' \in ScanState /\ scan'.depth = copied.depth /\ ~scan'.skip /\ scan'.stack = copied.stack
          /\ scan'.mode = "call" /\ scan'.literal
          /\ scan'.parens = deeper /\ scan'.out = copied.out /\ scan'.count = copied.count
          /\ scan'.arguments = copied.arguments
      BY <1>4, <2>2, <3>2 DEF ScanState
    <3> QED
      BY <1>6, <2>0, <2>2, <2>3, <3>3 DEF deeper
  <2>4. CASE c = ")"
    <3>0. scan.parens # 1
      BY <1>18, <2>4
    <3>1. scan' = [copied EXCEPT !.parens = copied.parens - 1]
      BY <2>1, <2>4, <3>0, Zenon DEF CallLiteralStep, Copied
    <3>2. scan' = [copied EXCEPT !.parens = shallower]
      BY <2>2, <3>1
    <3> HIDE DEF copied, shallower
    <3>3. /\ scan' \in ScanState /\ scan'.depth = copied.depth /\ ~scan'.skip /\ scan'.stack = copied.stack
          /\ scan'.mode = "call" /\ scan'.literal
          /\ scan'.parens = shallower /\ scan'.out = copied.out /\ scan'.count = copied.count
          /\ scan'.arguments = copied.arguments
      BY <1>4, <2>2, <3>2 DEF ScanState
    <3> QED
      BY <1>1, <1>6, <2>0, <2>2, <2>4, <3>3 DEF shallower
  <2>5. CASE c \notin {"(", ")"}
    <3>0. ~(c = "comma" /\ scan.parens = 1)
      BY <1>9, <1>18
    <3>1. scan' = copied
      BY <2>1, <2>5, <3>0, Zenon DEF CallLiteralStep, Copied
    <3> HIDE DEF copied
    <3> QED
      BY <1>1, <1>6, <2>0, <2>2, <2>5, <3>1
  <2> QED
    BY <2>3, <2>4, <2>5
<1>19. CASE scan.length # MaxLiteral /\ scan.literal /\ c = "comma" /\ scan.parens = 1
  <2>1. scan' = CallLiteralStep(scan, c)
    BY <1>2, <1>19, Zenon DEF CallStep
  <2>2. scan' = here
    BY <2>1, <1>19, <1>11, Zenon DEF CallLiteralStep
  <2> HIDE DEF here
  <2> QED
    BY <1>16, <1>19, <1>12, <1>13, <2>2 DEF zero
<1>20. CASE scan.length # MaxLiteral /\ scan.literal /\ c = ")" /\ scan.parens = 1
  <2>1. scan' = CallLiteralStep(scan, c)
    BY <1>2, <1>20, Zenon DEF CallStep
  <2>2. scan' = [here EXCEPT !.mode = "tail", !.parens = zero]
    BY <2>1, <1>20, <1>11, Zenon DEF CallLiteralStep
  <2> HIDE DEF zero, here
  <2>3. /\ scan' \in ScanState /\ scan'.mode = "tail" /\ scan'.depth = here.depth /\ scan'.skip = here.skip
        /\ scan'.stack = here.stack /\ scan'.out = here.out /\ scan'.count = here.count
        /\ scan'.arguments = here.arguments
    BY <1>4, <1>16, <2>2 DEF ScanState
  <2> QED
    BY <1>16, <1>20, <1>12, <1>13, <2>3
<1>21. CASE scan.length # MaxLiteral /\ ~scan.literal /\ c \in Blank \union {"comma"}
  <2>1. scan' = scan
    BY <1>2, <1>21, Zenon DEF CallStep, Blank
  <2> QED
    BY <1>1, <1>9, <1>21, <1>14, <2>1 DEF ScanState
<1>22. CASE scan.length # MaxLiteral /\ ~scan.literal /\ c = ")"
  <2>1. scan' = [scan EXCEPT !.mode = "tail", !.parens = zero]
    BY <1>2, <1>22, Zenon DEF CallStep, Blank
  <2> HIDE DEF zero
  <2>2. /\ scan' \in ScanState /\ scan'.mode = "tail" /\ scan'.depth = scan.depth /\ scan'.skip = scan.skip
        /\ scan'.stack = scan.stack /\ scan'.out = scan.out /\ scan'.count = scan.count
        /\ scan'.arguments = scan.arguments /\ scan.arguments \in Nat
    BY <1>1, <1>4, <2>1 DEF ScanState
  <2> QED
    BY <1>9, <1>22, <1>14, <2>2
<1> HIDE DEF here, zero
<1>23. CASE scan.length # MaxLiteral /\ scan.literal /\ ~(c \in {"comma", ")"} /\ scan.parens = 1)
  BY <1>8, <1>18, <1>23
<1>24. CASE /\ scan.length # MaxLiteral /\ ~scan.literal /\ c \notin Blank \union {"comma", ")"}
            /\ ~(c = "?" /\ next # "?")
  BY <1>18, <1>24
<1> QED
  BY <1>17, <1>19, <1>20, <1>21, <1>22, <1>23, <1>24, <1>15

\* The arguments of a call are read as the server reads them.
LEMMA ScanCalls ==
  ASSUME Inv, NEW c, NEW next \in Kinds, StatementUnit(c, next), ~Ends(split, c), ~scan.skip,
         ~server.skip, server.mode = "normal", scan.mode = "call"
  PROVE  ScanKept(c, next)
<1>1. /\ StatementInv /\ TypeOK /\ ScanInv /\ ParensInv /\ CallInv /\ scan \in ScanState
      /\ server.parens \in Int /\ server.markers \in Nat /\ scan.parens \in Int
  BY Units DEF StatementInv, TypeOK, ServerState, ScanState
<1>2. scan.depth = 0 /\ scan.stack = <<>>
  BY <1>1 DEF ScanInv, CallInv, Modes, Delimiters
<1>3. scan' \in ScanState /\ scan'.depth = scan.depth /\ ~scan'.skip /\ scan'.stack = scan.stack
  BY CallCases
<1>4. /\ FramesInv' /\ IsFiniteSet(Parens(scan'.stack))
      /\ Cardinality(Parens(scan'.stack)) = Cardinality(Parens(scan.stack))
  BY <1>1, <1>3, SameStack
<1>5. Cardinality(Parens(scan.stack)) \in Nat /\ OpenParens(scan) = Cardinality(Parens(scan.stack)) + scan.parens
      /\ OpenParens(scan) = server.parens
  BY <1>1, FS_CardinalityType DEF ParensInv, OpenParens
<1>6. InArguments
  BY DEF InArguments
<1>7. /\ server'.mode = Opening(c, next)
      /\ server'.skip <=> (c = "E" /\ next = "'") \/ (c = "?" /\ next = "?")
      /\ server'.parens = server.parens + Nesting(c)
      /\ server'.markers = server.markers + Marks(c, next)
  BY <1>6, EndsTogether, ServerReads
<1>8. c \in Blank \union {"comma", ")"} \/ (c = "?" /\ next # "?") =>
        Opening(c, next) = "normal" /\ ~(c = "E" /\ next = "'") /\ ~(c = "?" /\ next = "?")
  BY DEF Opening, Blank, Delimiters
<1>9. c \notin Functions \union Calls
  BY UnitsOfText DEF Functions, Calls
<1>10. /\ Nesting(c) = IF c = "(" THEN 1 ELSE IF c = ")" THEN -1 ELSE 0
       /\ Marks(c, next) = IF c = "?" /\ next # "?" THEN 1 ELSE 0
  BY <1>9 DEF Nesting, Marks, Calls
<1>11. "call" \notin Modes /\ "tail" \notin Modes
  BY DEF Modes, Delimiters
<1>12. CASE /\ c \in Blank \union {"comma"} /\ scan'.mode = "call" /\ ~scan'.literal /\ scan'.length = 0
            /\ scan.parens = 1 /\ scan'.parens = 1 /\ scan'.out = scan.out /\ scan'.count = scan.count
  <2>0. c \notin {"(", ")", "?"}
    BY <1>12 DEF Blank
  <2>1. server'.parens = server.parens /\ server'.markers = server.markers
    BY <1>1, <1>7, <1>10, <2>0
  <2>2. MarkersInv'
    BY <1>1, <1>3, <1>12, <2>1, SameStack
  <2>3. ScanInv' /\ CallInv'
    BY <1>2, <1>3, <1>7, <1>8, <1>11, <1>12 DEF ScanInv, CallInv
  <2>4. ParensInv'
    BY <1>4, <1>5, <1>12, <2>1 DEF ParensInv, OpenParens
  <2> QED
    BY <1>3, <1>4, <2>0, <2>2, <2>3, <2>4 DEF ScanKept
<1>13. CASE /\ c = ")" /\ scan'.mode = "tail" /\ scan.parens = 1
            /\ scan'.out = scan.out /\ scan'.count = scan.count
  <2>1. server'.parens = server.parens - 1 /\ server'.markers = server.markers
    BY <1>1, <1>7, <1>10, <1>13
  <2>2. MarkersInv'
    BY <1>1, <1>3, <1>13, <2>1, SameStack
  <2>3. ScanInv' /\ CallInv'
    BY <1>2, <1>3, <1>7, <1>8, <1>11, <1>13 DEF ScanInv, CallInv
  <2>4. ParensInv'
    BY <1>4, <1>5, <1>13, <2>1 DEF ParensInv, OpenParens
  <2> QED
    BY <1>3, <1>4, <1>13, <2>2, <2>3, <2>4 DEF ScanKept
<1>14. CASE /\ c = "?" /\ next # "?" /\ scan'.mode = "call" /\ scan'.literal = scan.literal
            /\ scan'.length = scan.length /\ scan'.parens = scan.parens
            /\ scan'.out = scan.out \union {scan.count + 1} /\ scan'.count = scan.count + 1 /\ scan'.word
  <2>1. server'.parens = server.parens /\ server'.markers = server.markers + 1
    BY <1>1, <1>7, <1>10, <1>14
  <2>2. MarkersInv'
    BY <1>1, <1>3, <1>14, <2>1, MarkerMentioned
  <2>3. ScanInv' /\ CallInv'
    BY <1>1, <1>2, <1>3, <1>7, <1>8, <1>11, <1>14 DEF ScanInv, CallInv
  <2>4. ParensInv'
    BY <1>4, <1>5, <1>14, <2>1 DEF ParensInv, OpenParens
  <2> QED
    BY <1>3, <1>4, <1>14, <2>2, <2>3, <2>4 DEF ScanKept
<1>15. CASE /\ ~(c = "?" /\ next # "?") /\ scan'.mode = "call" /\ scan'.literal
            /\ scan'.parens = scan.parens + Nesting(c) /\ scan'.out = scan.out /\ scan'.count = scan.count
  <2>1. server'.markers = server.markers
    BY <1>1, <1>7, <1>10, <1>15
  <2>2. MarkersInv'
    BY <1>1, <1>3, <1>15, <2>1, SameStack
  <2>3. ScanInv' /\ CallInv'
    BY <1>2, <1>3, <1>11, <1>15 DEF ScanInv, CallInv
  <2>4. ParensInv'
    BY <1>1, <1>4, <1>5, <1>7, <1>10, <1>15 DEF ParensInv, OpenParens
  <2> QED
    BY <1>3, <1>4, <1>15, <2>2, <2>3, <2>4 DEF ScanKept
<1>16. \/ /\ c \in Blank \union {"comma"} /\ scan'.mode = "call" /\ ~scan'.literal /\ scan'.length = 0
          /\ scan.parens = 1 /\ scan'.parens = 1 /\ scan'.out = scan.out /\ scan'.count = scan.count
       \/ /\ c = ")" /\ scan'.mode = "tail" /\ scan.parens = 1
          /\ scan'.out = scan.out /\ scan'.count = scan.count
       \/ /\ c = "?" /\ next # "?" /\ scan'.mode = "call" /\ scan'.literal = scan.literal
          /\ scan'.length = scan.length /\ scan'.parens = scan.parens
          /\ scan'.out = scan.out \union {scan.count + 1} /\ scan'.count = scan.count + 1 /\ scan'.word
       \/ /\ ~(c = "?" /\ next # "?") /\ scan'.mode = "call" /\ scan'.literal
          /\ scan'.parens = scan.parens + Nesting(c) /\ scan'.out = scan.out /\ scan'.count = scan.count
  BY CallCases
<1> QED
  BY <1>12, <1>13, <1>14, <1>15, <1>16

----------------------------------------------------------------------------
(* The scanner on ordinary text.                                           *)

\* What NormalStep does with each kind of unit.
LEMMA NormalCases ==
  ASSUME NEW c, NEW next
  PROVE  /\ c = "?" /\ next = "?" => NormalStep(scan, c, next) = [scan EXCEPT !.skip = TRUE, !.word = FALSE]
         /\ c = "?" /\ next # "?" => NormalStep(scan, c, next) = Marker(scan)
         /\ c \in Functions => NormalStep(scan, c, next) = OpenFunction(scan, c)
         /\ c \in Calls => NormalStep(scan, c, next) = OpenCall(scan, c)
         /\ c \in Raw => NormalStep(scan, c, next) = [scan EXCEPT !.mode = "raw"]
         /\ c = "oj" => NormalStep(scan, c, next) = [scan EXCEPT !.stack =
              Append(scan.stack, [kind |-> "oj", outer |-> {}, args |-> <<>>, parens |-> 0])]
         /\ c = "brace" /\ InJoin(scan) => NormalStep(scan, c, next) = [scan EXCEPT !.stack = Pop(scan)]
         /\ c \in Brackets /\ InFunction(scan) => NormalStep(scan, c, next) = ArgumentStep(scan, c)
         /\ /\ c \notin {"?", "oj"} \union Functions \union Calls \union Raw
            /\ ~(c = "brace" /\ InJoin(scan)) /\ ~(c \in Brackets /\ InFunction(scan))
            => NormalStep(scan, c, next) = Opened(scan, c, next)
<1>0. /\ Functions = {"fn(", "space("} /\ Calls = {"call(", "?=call("} /\ Raw = {"date"}
      /\ Brackets = {"(", ")", "comma"}
  BY DEF Functions, Calls, Raw, Brackets
<1>1. ASSUME c = "?", next = "?" PROVE NormalStep(scan, c, next) = [scan EXCEPT !.skip = TRUE, !.word = FALSE]
  BY <1>1, Zenon DEF NormalStep, Functions, Calls, Raw, Brackets
<1>2. ASSUME c = "?", next # "?" PROVE NormalStep(scan, c, next) = Marker(scan)
  BY <1>2, Zenon DEF NormalStep, Functions, Calls, Raw, Brackets
<1>3. ASSUME c \in Functions PROVE NormalStep(scan, c, next) = OpenFunction(scan, c)
  BY <1>3, Zenon DEF NormalStep, Functions, Calls, Raw, Brackets
<1>4. ASSUME c \in Calls PROVE NormalStep(scan, c, next) = OpenCall(scan, c)
  BY <1>4, Zenon DEF NormalStep, Functions, Calls, Raw, Brackets
<1>5. ASSUME c \in Raw PROVE NormalStep(scan, c, next) = [scan EXCEPT !.mode = "raw"]
  BY <1>5, Zenon DEF NormalStep, Functions, Calls, Raw, Brackets
<1>6. ASSUME c = "oj"
      PROVE  NormalStep(scan, c, next) = [scan EXCEPT !.stack =
               Append(scan.stack, [kind |-> "oj", outer |-> {}, args |-> <<>>, parens |-> 0])]
  <2>1. NormalStep(scan, c, next) = [scan EXCEPT !.stack =
               Append(scan.stack, [kind |-> c, outer |-> {}, args |-> <<>>, parens |-> 0])]
    BY <1>6, Zenon DEF NormalStep, Functions, Calls, Raw, Brackets
  <2> QED
    BY <1>6, <2>1, Zenon
<1>7. ASSUME c = "brace", InJoin(scan) PROVE NormalStep(scan, c, next) = [scan EXCEPT !.stack = Pop(scan)]
  BY <1>7, Zenon DEF NormalStep, Functions, Calls, Raw, Brackets
<1>8. ASSUME c \in Brackets, InFunction(scan) PROVE NormalStep(scan, c, next) = ArgumentStep(scan, c)
  BY <1>8, Zenon DEF NormalStep, Functions, Calls, Raw, Brackets
<1>9. ASSUME c \notin {"?", "oj"} \union Functions \union Calls \union Raw,
             ~(c = "brace" /\ InJoin(scan)), ~(c \in Brackets /\ InFunction(scan))
      PROVE  NormalStep(scan, c, next) = Opened(scan, c, next)
  BY <1>9, Zenon DEF NormalStep
<1> QED
  BY <1>1, <1>2, <1>3, <1>4, <1>5, <1>6, <1>7, <1>8, <1>9, Zenon

\* The unit and the contexts of a step of NormalStep.
TextUnit(c, next) ==
  /\ StatementUnit(c, next) /\ ~Ends(split, c)
  /\ scan.mode = "normal" /\ ~scan.skip /\ ~server.skip /\ server.mode = "normal"

\* What is known where ordinary text is read.
LEMMA TextFacts ==
  ASSUME Inv, NEW c, NEW next \in Kinds, TextUnit(c, next)
  PROVE  /\ StatementInv /\ TypeOK /\ scan \in ScanState /\ scan.depth = 0 /\ scan.stack \in Seq(Frame)
         /\ server.parens \in Int /\ server.markers \in Nat
         /\ scan' = NormalStep(scan, c, next)
         /\ IsFiniteSet(Parens(scan.stack)) /\ Cardinality(Parens(scan.stack)) = server.parens
         /\ \A i \in 1..Len(scan.stack) : scan.stack[i].kind = "oj" => i = 1 /\ scan.stack[i].parens = 0
         /\ InArguments <=> InFunction(scan)
         /\ server'.mode = Opening(c, next)
         /\ server'.depth = IF c = "/*" THEN 1 ELSE 0
         /\ server'.skip <=> (c = "E" /\ next = "'") \/ (c = "?" /\ next = "?")
         /\ server'.markers = server.markers + Marks(c, next)
         /\ server'.parens = server.parens +
              (IF InFunction(scan) \/ c \in Functions \union Calls THEN Nesting(c) ELSE 0)
<1>0. StatementUnit(c, next) /\ ~Ends(split, c) /\ scan.mode = "normal" /\ ~scan.skip
      /\ ~server.skip /\ server.mode = "normal"
  BY DEF TextUnit
<1>1. /\ StatementInv /\ TypeOK /\ ScanInv /\ ParensInv /\ FramesInv /\ ServerInv /\ scan \in ScanState
      /\ server.parens \in Int /\ server.markers \in Nat /\ scan.stack \in Seq(Frame)
  BY <1>0, Units DEF StatementInv, TypeOK, ServerState, ScanState
<1>2. scan.depth = 0
  BY <1>0, <1>1 DEF ScanInv, ServerInv, Modes
<1>3. scan' = NormalStep(scan, c, next)
  BY <1>0, Zenon DEF StatementUnit, ScanStep, Modes, Delimiters
<1>4. IsFiniteSet(Parens(scan.stack)) /\ Cardinality(Parens(scan.stack)) = server.parens
  <2>1. Cardinality(Parens(scan.stack)) \in Nat
    BY <1>1, FS_CardinalityType DEF ParensInv
  <2> QED
    BY <1>0, <1>1, <2>1 DEF ParensInv, OpenParens
<1>5. DOMAIN scan.stack = 1..Len(scan.stack) /\ Len(scan.stack) \in Nat
  BY <1>1
<1>6. ASSUME NEW i \in 1..Len(scan.stack), scan.stack[i].kind = "oj"
      PROVE  i = 1 /\ scan.stack[i].parens = 0
  BY <1>1, <1>6, Zenon DEF FramesInv, FrameInv
<1>8. InArguments <=> InFunction(scan)
  <2> DEFINE n == Len(scan.stack)
             joins(i) == scan.stack[i].kind = "oj"
  <2>1. InArguments <=> \E i \in 1..n : ~joins(i)
    BY <1>0, <1>5, Zenon DEF InArguments
  <2>2. scan.stack # <<>> <=> n \in 1..n
    BY <1>1
  <2>3. InFunction(scan) <=> n \in 1..n /\ ~joins(n)
    BY <2>2, Zenon DEF InFunction, Top
  <2>4. n \in Nat
    BY <1>1
  <2>5. \A i \in 1..n : joins(i) => i = 1
    BY <1>6, Zenon
  <2> HIDE DEF n, joins
  <2>6. ASSUME NEW i \in 1..n, ~joins(i) PROVE ~joins(n) /\ n \in 1..n
    BY <2>4, <2>5, <2>6
  <2> QED
    BY <2>1, <2>3, <2>6, Zenon
<1>7. /\ server'.mode = Opening(c, next)
      /\ server'.depth = IF c = "/*" THEN 1 ELSE 0
      /\ server'.skip <=> (c = "E" /\ next = "'") \/ (c = "?" /\ next = "?")
      /\ server'.markers = server.markers + Marks(c, next)
      /\ server'.parens = server.parens +
           (IF InArguments \/ c \in Functions \union Calls THEN Nesting(c) ELSE 0)
  BY <1>0, EndsTogether, ServerReads
<1> QED
  BY <1>1, <1>2, <1>3, <1>4, <1>6, <1>7, <1>8

\* A unit that is no part of an escape and no marker of its own.
PlainUnit(c, next) ==
  /\ TextUnit(c, next)
  /\ c \notin {"oj"} \union Functions \union Calls \union Raw
  /\ c = "?" => next = "?"
  /\ ~(c = "brace" /\ InJoin(scan))
  /\ ~(c \in Brackets /\ InFunction(scan))

\* Text that the scanner copies, a literal that begins, a pair of markers.
LEMMA TextCopied ==
  ASSUME Inv, NEW c, NEW next \in Kinds, PlainUnit(c, next)
  PROVE  ScanKept(c, next)
<1>0. TextUnit(c, next)
  BY DEF PlainUnit
<1>p. c = "?" => next = "?"
  BY DEF PlainUnit
<1>1. StatementInv /\ TypeOK /\ scan \in ScanState /\ scan.depth = 0 /\ scan.mode = "normal" /\ ~scan.skip
      /\ scan' = NormalStep(scan, c, next) /\ server.markers \in Nat /\ server.parens \in Int
      /\ Cardinality(Parens(scan.stack)) = server.parens
  BY <1>0, TextFacts DEF TextUnit
<1>s. /\ server'.mode = Opening(c, next)
      /\ server'.depth = IF c = "/*" THEN 1 ELSE 0
      /\ server'.skip <=> (c = "E" /\ next = "'") \/ (c = "?" /\ next = "?")
      /\ server'.markers = server.markers + Marks(c, next)
      /\ server'.parens = server.parens +
           (IF InFunction(scan) \/ c \in Functions \union Calls THEN Nesting(c) ELSE 0)
  BY <1>0, TextFacts
<1>n. scan' = NormalStep(scan, c, next)
  BY <1>0, TextFacts
<1>2. /\ scan' \in ScanState /\ scan'.mode = server'.mode /\ scan'.depth = server'.depth
      /\ scan'.skip <=> server'.skip
      /\ scan'.stack = scan.stack /\ scan'.out = scan.out /\ scan'.count = scan.count
  <2>1. CASE c = "?"
    <3>1. scan' = [scan EXCEPT !.skip = TRUE, !.word = FALSE]
      BY <1>n, <2>1, NormalCases DEF PlainUnit
    <3>2. /\ scan' \in ScanState /\ scan'.mode = "normal" /\ scan'.depth = scan.depth /\ scan'.skip
          /\ scan'.stack = scan.stack /\ scan'.out = scan.out /\ scan'.count = scan.count
      BY <1>1, <3>1 DEF ScanState
    <3>3. Opening(c, next) = "normal" /\ c # "/*"
      BY <2>1 DEF Opening, Delimiters
    <3> QED
      BY <1>1, <1>s, <1>p, <2>1, <3>2, <3>3
  <2>2. CASE c # "?"
    <3>1. scan' = Opened(scan, c, next)
      <4>1. NormalStep(scan, c, next) = Opened(scan, c, next)
        BY <2>2, NormalCases DEF PlainUnit
      <4> QED
        BY <1>n, <4>1
    <3>2. c \in Delimiters => ~scan.word
      BY <1>0, Units DEF TextUnit
    <3>3. /\ scan' \in ScanState
          /\ scan'.mode = Opening(c, next)
          /\ scan'.depth = IF c = "/*" THEN 1 ELSE 0
          /\ scan'.skip <=> c = "E" /\ next = "'"
          /\ scan'.stack = scan.stack /\ scan'.count = scan.count /\ scan'.out = scan.out
      <4>1. scan \in ScanState /\ scan.mode = "normal" /\ scan.depth = 0 /\ ~scan.skip
        BY <1>1
      <4> QED
        BY <3>1, <3>2, <4>1, ScanOpened
    <3> QED
      BY <1>s, <2>2, <3>3
  <2> QED
    BY <2>1, <2>2
<1>3. server'.parens = server.parens /\ server'.markers = server.markers
  <2>1. Marks(c, next) = 0
    BY DEF PlainUnit, Marks, Calls
  <2>2. InFunction(scan) => Nesting(c) = 0
    BY DEF PlainUnit, Nesting, Brackets
  <2> QED
    <3>1. (IF InFunction(scan) \/ c \in Functions \union Calls THEN Nesting(c) ELSE 0) = 0
      BY <2>2 DEF PlainUnit
    <3>2. server.parens \in Int /\ server.markers \in Nat
      BY <1>1
    <3> QED
      BY <1>s, <2>1, <3>1, <3>2
<1>4. FramesInv' /\ MarkersInv' /\ IsFiniteSet(Parens(scan'.stack))
      /\ Cardinality(Parens(scan'.stack)) = Cardinality(Parens(scan.stack))
  BY <1>1, <1>2, <1>3, SameStack
<1>5. scan'.mode \in Modes /\ scan'.mode \notin {"tail", "closing", "call"}
  <2>1. Opening(c, next) \in Modes
    BY DEF Opening, Modes
  <2>2. "tail" \notin Modes /\ "closing" \notin Modes /\ "call" \notin Modes
    BY DEF Modes, Delimiters
  <2> QED
    BY <1>2, <1>s, <2>1, <2>2
<1>6. ScanInv' /\ CallInv'
  BY <1>2, <1>5 DEF ScanInv, CallInv
<1>7. ParensInv'
  <2>1. server.parens \in Int /\ Cardinality(Parens(scan'.stack)) = server'.parens /\ server'.parens = server.parens
    BY <1>1, <1>3, <1>4
  <2> QED
    BY <1>4, <1>5, <2>1 DEF ParensInv, OpenParens
<1> QED
  BY <1>p, <1>2, <1>4, <1>6, <1>7 DEF ScanKept

\* A marker, in the text or in an argument of a function.
LEMMA TextMarker ==
  ASSUME Inv, NEW c, NEW next \in Kinds, TextUnit(c, next), c = "?", next # "?"
  PROVE  ScanKept(c, next)
<1>1. StatementInv /\ TypeOK /\ scan \in ScanState /\ scan.depth = 0 /\ scan.mode = "normal" /\ ~scan.skip
      /\ server.markers \in Nat /\ server.parens \in Int
      /\ Cardinality(Parens(scan.stack)) = server.parens
  BY TextFacts DEF TextUnit
<1>s. /\ server'.mode = Opening(c, next)
      /\ server'.depth = IF c = "/*" THEN 1 ELSE 0
      /\ server'.skip <=> (c = "E" /\ next = "'") \/ (c = "?" /\ next = "?")
      /\ server'.markers = server.markers + Marks(c, next)
      /\ server'.parens = server.parens +
           (IF InFunction(scan) \/ c \in Functions \union Calls THEN Nesting(c) ELSE 0)
  BY TextFacts
<1>n. scan' = NormalStep(scan, c, next)
  BY TextFacts
<1>2. scan' = Marker(scan)
  BY <1>n, NormalCases
<1>3. /\ scan' \in ScanState /\ scan'.mode = "normal" /\ scan'.depth = 0 /\ ~scan'.skip
      /\ scan'.stack = scan.stack /\ scan'.out = scan.out \union {scan.count + 1}
      /\ scan'.count = scan.count + 1 /\ scan'.word
  BY <1>1, <1>2, MarkerState
<1>4. Marks(c, next) = 1 /\ Nesting(c) = 0 /\ Opening(c, next) = "normal" /\ c \notin {"E", "/*"}
  BY DEF Marks, Nesting, Opening, Functions, Calls, Delimiters
<1>5. /\ server'.parens = server.parens /\ server'.markers = server.markers + 1
      /\ server'.mode = "normal" /\ server'.depth = 0 /\ ~server'.skip
  BY <1>1, <1>4, <1>s
<1>6. FramesInv' /\ IsFiniteSet(Parens(scan'.stack))
      /\ Cardinality(Parens(scan'.stack)) = Cardinality(Parens(scan.stack))
  BY <1>1, <1>3, SameStack
<1>7. MarkersInv'
  BY <1>1, <1>3, <1>5, MarkerMentioned
<1>8. ScanInv' /\ CallInv'
  BY <1>3, <1>5 DEF ScanInv, CallInv, Modes
<1>9. ParensInv'
  BY <1>1, <1>3, <1>5, <1>6 DEF ParensInv, OpenParens
<1> QED
  BY <1>3, <1>6, <1>7, <1>8, <1>9 DEF ScanKept

\* A date begins.
LEMMA TextRaw ==
  ASSUME Inv, NEW c, NEW next \in Kinds, TextUnit(c, next), c \in Raw
  PROVE  ScanKept(c, next)
<1>1. StatementInv /\ TypeOK /\ scan \in ScanState /\ scan.depth = 0 /\ scan.mode = "normal" /\ ~scan.skip
      /\ server.markers \in Nat /\ server.parens \in Int
      /\ Cardinality(Parens(scan.stack)) = server.parens
  BY TextFacts DEF TextUnit
<1>s. /\ server'.mode = Opening(c, next)
      /\ server'.depth = IF c = "/*" THEN 1 ELSE 0
      /\ server'.skip <=> (c = "E" /\ next = "'") \/ (c = "?" /\ next = "?")
      /\ server'.markers = server.markers + Marks(c, next)
      /\ server'.parens = server.parens +
           (IF InFunction(scan) \/ c \in Functions \union Calls THEN Nesting(c) ELSE 0)
  BY TextFacts
<1>n. scan' = NormalStep(scan, c, next)
  BY TextFacts
<1>2. scan' = [scan EXCEPT !.mode = "raw"]
  BY <1>n, NormalCases
<1>3. /\ scan' \in ScanState /\ scan'.mode = "raw" /\ scan'.depth = 0 /\ ~scan'.skip
      /\ scan'.stack = scan.stack /\ scan'.out = scan.out /\ scan'.count = scan.count
  BY <1>1, <1>2 DEF ScanState, ScanModes
<1>4. Marks(c, next) = 0 /\ Nesting(c) = 0 /\ c # "?"
  BY DEF Marks, Nesting, Functions, Calls, Raw
<1>5. server'.parens = server.parens /\ server'.markers = server.markers
  BY <1>1, <1>4, <1>s
<1>6. FramesInv' /\ MarkersInv' /\ IsFiniteSet(Parens(scan'.stack))
      /\ Cardinality(Parens(scan'.stack)) = Cardinality(Parens(scan.stack))
  BY <1>1, <1>3, <1>5, SameStack
<1>7. ScanInv' /\ CallInv'
  BY <1>3 DEF ScanInv, CallInv, Modes, Delimiters
<1>8. ParensInv'
  BY <1>1, <1>3, <1>5, <1>6 DEF ParensInv, OpenParens
<1> QED
  BY <1>3, <1>4, <1>6, <1>7, <1>8 DEF ScanKept

\* What is known of the server's reading where it nests and marks nothing unseen.
LEMMA TextNests ==
  ASSUME Inv, NEW c, NEW next \in Kinds, TextUnit(c, next), Opening(c, next) = "normal", c # "?",
         c \notin {"E", "/*"}
  PROVE  /\ server'.mode = "normal" /\ server'.depth = 0 /\ ~server'.skip
         /\ c \in Functions \union Calls \/ InFunction(scan) => server'.parens = server.parens + Nesting(c)
         /\ c \notin Functions \union Calls /\ ~InFunction(scan) => server'.parens = server.parens
         /\ server'.markers = server.markers + Marks(c, next)
<1>1. /\ server'.mode = Opening(c, next)
      /\ server'.depth = IF c = "/*" THEN 1 ELSE 0
      /\ server'.skip <=> (c = "E" /\ next = "'") \/ (c = "?" /\ next = "?")
      /\ server'.markers = server.markers + Marks(c, next)
      /\ server'.parens = server.parens +
           (IF InFunction(scan) \/ c \in Functions \union Calls THEN Nesting(c) ELSE 0)
  BY TextFacts
<1>2. server.parens \in Int
  BY TextFacts
<1> QED
  BY <1>1, <1>2

\* A procedure call begins.
LEMMA TextCall ==
  ASSUME Inv, NEW c, NEW next \in Kinds, TextUnit(c, next), c \in Calls
  PROVE  ScanKept(c, next)
<1> DEFINE opened == IF c = "?=call(" THEN Marker(scan) ELSE scan
           one == 1
           zero == 0
<1>1. /\ StatementInv /\ TypeOK /\ scan \in ScanState /\ scan.depth = 0 /\ scan.mode = "normal" /\ ~scan.skip
      /\ server.markers \in Nat /\ server.parens \in Int
      /\ Cardinality(Parens(scan.stack)) = server.parens
  BY TextFacts DEF TextUnit
<1>2. scan' = OpenCall(scan, c)
  <2>1. scan' = NormalStep(scan, c, next)
    BY TextFacts
  <2> QED
    BY <2>1, NormalCases
<1>3. scan.stack = <<>>
  <2>1. StatementUnit(c, next) /\ ~Ends(split, c) /\ ~server.skip /\ server.mode = "normal"
    BY DEF TextUnit
  <2> QED
    BY <2>1, UnitsOfText
<1>4. /\ opened \in ScanState /\ opened.depth = 0 /\ ~opened.skip /\ opened.stack = scan.stack
      /\ c = "?=call(" => opened.out = scan.out \union {scan.count + 1} /\ opened.count = scan.count + 1
      /\ c # "?=call(" => opened.out = scan.out /\ opened.count = scan.count
  <2>1. CASE c = "?=call("
    <3>1. opened = Marker(scan)
      BY <2>1
    <3>2. /\ opened \in ScanState /\ opened.depth = scan.depth /\ opened.skip = scan.skip
          /\ opened.stack = scan.stack /\ opened.out = scan.out \union {scan.count + 1}
          /\ opened.count = scan.count + 1
      <4> HIDE DEF opened
      <4> QED
        BY <1>1, <3>1, MarkerState
    <3> HIDE DEF opened
    <3> QED
      BY <1>1, <2>1, <3>2
  <2>2. CASE c # "?=call("
    <3>1. opened = scan
      BY <2>2
    <3>2. scan.count \in Nat
      BY <1>1 DEF ScanState
    <3> HIDE DEF opened
    <3> QED
      BY <1>1, <2>2, <3>1, <3>2
  <2> QED
    BY <2>1, <2>2
<1>5. scan' = [opened EXCEPT !.mode = "call", !.parens = one, !.literal = FALSE, !.length = zero, !.word = FALSE]
  BY <1>2, Zenon DEF OpenCall
<1> HIDE DEF opened
<1>6. one \in Int /\ zero \in Nat
  OBVIOUS
<1> HIDE DEF one, zero
<1>7. /\ scan' \in ScanState /\ scan'.mode = "call" /\ scan'.depth = 0 /\ ~scan'.skip
      /\ scan'.stack = scan.stack /\ scan'.parens = one /\ ~scan'.literal /\ scan'.length = zero
      /\ scan'.out = opened.out /\ scan'.count = opened.count
  BY <1>4, <1>5, <1>6 DEF ScanState, ScanModes
<1>8. /\ Nesting(c) = 1 /\ Opening(c, next) = "normal" /\ c \notin {"E", "/*", "?"}
      /\ Marks(c, next) = IF c = "?=call(" THEN 1 ELSE 0
  BY DEF Marks, Nesting, Opening, Calls, Delimiters
<1>9. /\ server'.mode = "normal" /\ ~server'.skip /\ server'.parens = server.parens + 1
      /\ server'.markers = server.markers + Marks(c, next)
  BY <1>8, TextNests
<1>10. MarkersInv'
  <2>1. CASE c = "?=call("
    <3>1. Marks(c, next) = 1
      BY <1>8, <2>1
    <3>2. scan'.out = scan.out \union {scan.count + 1} /\ scan'.count = scan.count + 1
      BY <1>4, <1>7, <2>1
    <3> QED
      BY <1>1, <1>7, <1>9, <3>1, <3>2, MarkerMentioned
  <2>2. CASE c # "?=call("
    <3>1. Marks(c, next) = 0 /\ scan.count \in Nat
      BY <1>1, <1>8, <2>2 DEF ScanState
    <3>2. scan'.out = scan.out /\ scan'.count = scan.count
      BY <1>4, <1>7, <2>2, <3>1
    <3>3. server'.markers = server.markers
      BY <1>1, <1>9, <3>1
    <3> QED
      BY <1>1, <1>7, <3>2, <3>3, SameStack
  <2> QED
    BY <2>1, <2>2
<1>11. FramesInv' /\ IsFiniteSet(Parens(scan'.stack))
       /\ Cardinality(Parens(scan'.stack)) = Cardinality(Parens(scan.stack))
  BY <1>1, <1>7, SameStack
<1>12. ScanInv' /\ CallInv'
  BY <1>3, <1>7, <1>9 DEF ScanInv, CallInv, Modes, Delimiters, one, zero
<1>13. ParensInv'
  BY <1>1, <1>7, <1>9, <1>11 DEF ParensInv, OpenParens, one
<1> QED
  BY <1>7, <1>8, <1>10, <1>11, <1>12, <1>13 DEF ScanKept

\* A function begins.
LEMMA TextFunction ==
  ASSUME Inv, NEW c, NEW next \in Kinds, TextUnit(c, next), c \in Functions
  PROVE  ScanKept(c, next)
<1> DEFINE frame == [kind |-> c, outer |-> scan.out, args |-> <<>>, parens |-> 1]
           none == {}
           n == Len(scan.stack)
           longer == Append(scan.stack, frame)
<1>1. /\ StatementInv /\ TypeOK /\ scan \in ScanState /\ scan.depth = 0 /\ scan.mode = "normal" /\ ~scan.skip
      /\ server.markers \in Nat /\ server.parens \in Int
      /\ Cardinality(Parens(scan.stack)) = server.parens /\ IsFiniteSet(Parens(scan.stack))
      /\ scan.stack \in Seq(Frame) /\ n \in Nat
  BY TextFacts DEF TextUnit
<1>2. scan' = OpenFunction(scan, c)
  <2>1. scan' = NormalStep(scan, c, next)
    BY TextFacts
  <2> QED
    BY <2>1, NormalCases
<1>3. frame \in Frame /\ frame.parens = 1 /\ frame.args = <<>> /\ frame.kind = c /\ frame.outer = scan.out
  <2>1. scan.out \subseteq Int
    BY <1>1 DEF ScanState
  <2> QED
    BY <2>1 DEF Frame
<1>4. scan' = [scan EXCEPT !.stack = longer, !.out = none, !.word = FALSE]
  BY <1>2, Zenon DEF OpenFunction
<1>5. MentionedIn(frame) = scan.out
  BY <1>3 DEF MentionedIn
<1> HIDE DEF frame
<1>6. /\ longer \in Seq(Frame) /\ Len(longer) = n + 1 /\ longer[n + 1] = frame
      /\ \A i \in 1..n : longer[i] = scan.stack[i]
  BY <1>1, <1>3
<1>7. IsFiniteSet(Parens(longer)) /\ Cardinality(Parens(longer)) = Cardinality(Parens(scan.stack)) + 1
  BY <1>1, <1>3, ParensPushed
<1>8. none \subseteq Int
  OBVIOUS
<1> HIDE DEF longer, none
<1>9. /\ scan' \in ScanState /\ scan'.mode = "normal" /\ scan'.depth = 0 /\ ~scan'.skip
      /\ scan'.stack = longer /\ scan'.out = none /\ scan'.count = scan.count
  BY <1>1, <1>4, <1>6, <1>8 DEF ScanState
<1>10. /\ Nesting(c) = 1 /\ Opening(c, next) = "normal" /\ c \notin {"E", "/*", "?"} /\ Marks(c, next) = 0
       /\ c # "oj"
  BY DEF Marks, Nesting, Opening, Functions, Calls, Delimiters
<1>11. /\ server'.mode = "normal" /\ server'.depth = 0 /\ ~server'.skip /\ server'.parens = server.parens + 1
       /\ server'.markers = server.markers
  <2>1. server'.markers = server.markers + Marks(c, next) /\ server'.parens = server.parens + Nesting(c)
        /\ server'.mode = "normal" /\ server'.depth = 0 /\ ~server'.skip
    BY <1>10, TextNests
  <2> QED
    BY <1>1, <1>10, <2>1
<1>12. FramesInv'
  <2>1. FrameInv(n + 1, frame)
    BY <1>3, <1>10, ParserAssumption DEF FrameInv
  <2>2. ASSUME NEW i \in 1..n PROVE FrameInv(i, longer[i])
    BY <1>1, <1>6, <2>2 DEF StatementInv, FramesInv
  <2>3. ASSUME NEW i \in 1..(n + 1) PROVE FrameInv(i, longer[i])
    BY <1>1, <1>6, <2>1, <2>2
  <2> QED
    BY <1>6, <1>9, <2>3 DEF FramesInv
<1>13. MarkersInv'
  <2>1. ASSUME NEW x PROVE x \in Mentioned(scan') <=> x \in Mentioned(scan)
    <3>1. x \in Mentioned(scan) <=> x \in scan.out \/ \E i \in 1..n : x \in MentionedIn(scan.stack[i])
      BY <1>1, MentionedMember DEF n
    <3>2. x \in Mentioned(scan') <=> \E i \in 1..(n + 1) : x \in MentionedIn(longer[i])
      BY <1>6, <1>9, MentionedMember DEF none
    <3>3. (\E i \in 1..(n + 1) : x \in MentionedIn(longer[i])) <=>
            x \in MentionedIn(longer[n + 1]) \/ \E i \in 1..n : x \in MentionedIn(longer[i])
      BY <1>1
    <3> QED
      BY <1>5, <1>6, <3>1, <3>2, <3>3
  <2>2. Mentioned(scan') = Mentioned(scan)
    BY <2>1
  <2> QED
    BY <1>1, <1>9, <1>11, <2>2 DEF StatementInv, MarkersInv
<1>14. ScanInv' /\ CallInv'
  BY <1>9, <1>11 DEF ScanInv, CallInv, Modes
<1>15. ParensInv'
  BY <1>1, <1>7, <1>9, <1>11 DEF ParensInv, OpenParens
<1> QED
  BY <1>9, <1>10, <1>12, <1>13, <1>14, <1>15 DEF ScanKept

\* A join begins, which nothing encloses.
LEMMA TextJoin ==
  ASSUME Inv, NEW c, NEW next \in Kinds, TextUnit(c, next), c = "oj"
  PROVE  ScanKept(c, next)
<1> DEFINE frame == [kind |-> "oj", outer |-> {}, args |-> <<>>, parens |-> 0]
           longer == Append(scan.stack, frame)
<1>1. /\ StatementInv /\ TypeOK /\ scan \in ScanState /\ scan.depth = 0 /\ scan.mode = "normal" /\ ~scan.skip
      /\ server.markers \in Nat /\ server.parens \in Int
      /\ Cardinality(Parens(scan.stack)) = server.parens /\ IsFiniteSet(Parens(scan.stack))
      /\ scan.stack \in Seq(Frame)
  BY TextFacts DEF TextUnit
<1>2. scan' = [scan EXCEPT !.stack = longer]
  <2>1. scan' = NormalStep(scan, c, next)
    BY TextFacts
  <2> QED
    BY <2>1, NormalCases
<1>3. scan.stack = <<>>
  <2>1. StatementUnit(c, next) /\ ~Ends(split, c) /\ ~server.skip /\ server.mode = "normal"
    BY DEF TextUnit
  <2> QED
    BY <2>1, UnitsOfText
<1>4. /\ frame \in Frame /\ frame.parens = 0 /\ frame.args = <<>> /\ frame.kind = "oj" /\ frame.outer = {}
      /\ MentionedIn(frame) = {}
  BY DEF Frame, MentionedIn
<1> HIDE DEF frame
<1>5. longer \in Seq(Frame) /\ Len(longer) = 1 /\ longer[1] = frame
  BY <1>3, <1>4
<1>6. Parens(longer) = Parens(scan.stack)
  BY <1>1, <1>4, ParensPushed
<1> HIDE DEF longer
<1>7. /\ scan' \in ScanState /\ scan'.mode = "normal" /\ scan'.depth = 0 /\ ~scan'.skip
      /\ scan'.stack = longer /\ scan'.out = scan.out /\ scan'.count = scan.count
  BY <1>1, <1>2, <1>5 DEF ScanState
<1>8. Opening(c, next) = "normal" /\ Marks(c, next) = 0 /\ c \notin Functions \union Calls
  BY DEF Marks, Opening, Functions, Calls, Delimiters
<1>9. ~InFunction(scan)
  BY <1>3 DEF InFunction
<1>10. /\ server'.mode = "normal" /\ server'.depth = 0 /\ ~server'.skip
       /\ server'.parens = server.parens /\ server'.markers = server.markers
  BY <1>1, <1>8, <1>9, TextNests
<1>11. FramesInv'
  <2>1. FrameInv(1, frame)
    BY <1>4 DEF FrameInv
  <2>2. ASSUME NEW i \in 1..1 PROVE FrameInv(i, longer[i])
    BY <1>5, <2>1
  <2> QED
    BY <1>5, <1>7, <2>2 DEF FramesInv
<1>12. MarkersInv'
  <2>1. ASSUME NEW x PROVE x \in Mentioned(scan') <=> x \in Mentioned(scan)
    <3>1. x \in Mentioned(scan) <=> x \in scan.out
      BY <1>1, <1>3, MentionedMember
    <3>2. x \in Mentioned(scan') <=> x \in scan.out \/ \E i \in 1..1 : x \in MentionedIn(longer[i])
      BY <1>5, <1>7, MentionedMember
    <3> QED
      BY <1>4, <1>5, <3>1, <3>2
  <2>2. Mentioned(scan') = Mentioned(scan)
    BY <2>1
  <2> QED
    BY <1>1, <1>7, <1>10, <2>2 DEF StatementInv, MarkersInv
<1>13. ScanInv' /\ CallInv'
  BY <1>7, <1>10 DEF ScanInv, CallInv, Modes
<1>14. ParensInv'
  BY <1>1, <1>6, <1>7, <1>10 DEF ParensInv, OpenParens
<1> QED
  BY <1>7, <1>11, <1>12, <1>13, <1>14 DEF ScanKept

\* The brace of a join.
LEMMA TextJoined ==
  ASSUME Inv, NEW c, NEW next \in Kinds, TextUnit(c, next), c = "brace", InJoin(scan)
  PROVE  ScanKept(c, next)
<1> DEFINE shorter == SubSeq(scan.stack, 1, Len(scan.stack) - 1)
           n == Len(scan.stack)
<1>1. /\ StatementInv /\ TypeOK /\ scan \in ScanState /\ scan.depth = 0 /\ scan.mode = "normal" /\ ~scan.skip
      /\ server.markers \in Nat /\ server.parens \in Int
      /\ Cardinality(Parens(scan.stack)) = server.parens /\ IsFiniteSet(Parens(scan.stack))
      /\ scan.stack \in Seq(Frame)
  BY TextFacts DEF TextUnit
<1>2. scan' = [scan EXCEPT !.stack = shorter]
  <2>1. scan' = NormalStep(scan, c, next)
    BY TextFacts
  <2> QED
    BY <2>1, NormalCases DEF Pop
<1>3. scan.stack # <<>> /\ scan.stack[n].kind = "oj"
  BY DEF InJoin, Top
<1>4. n \in 1..n
  BY <1>1, <1>3
<1>5. n = 1 /\ scan.stack[n].outer = {} /\ scan.stack[n].args = <<>> /\ scan.stack[n].parens = 0
  BY <1>1, <1>3, <1>4 DEF StatementInv, FramesInv, FrameInv
<1>6. shorter = <<>> /\ shorter \in Seq(Frame) /\ Parens(shorter) = Parens(scan.stack)
  <2>1. /\ shorter \in Seq(Frame) /\ Len(shorter) = n - 1
        /\ scan.stack[n].parens = 0 => Parens(shorter) = Parens(scan.stack)
    BY <1>1, <1>3, ParensPopped
  <2> QED
    BY <1>5, <2>1
<1> HIDE DEF shorter
<1>7. /\ scan' \in ScanState /\ scan'.mode = "normal" /\ scan'.depth = 0 /\ ~scan'.skip
      /\ scan'.stack = shorter /\ scan'.out = scan.out /\ scan'.count = scan.count
  BY <1>1, <1>2, <1>6 DEF ScanState
<1>8. Opening(c, next) = "normal" /\ Marks(c, next) = 0 /\ c \notin Functions \union Calls
  BY DEF Marks, Opening, Functions, Calls, Delimiters
<1>9. ~InFunction(scan)
  BY <1>3 DEF InFunction, Top
<1>10. /\ server'.mode = "normal" /\ server'.depth = 0 /\ ~server'.skip
       /\ server'.parens = server.parens /\ server'.markers = server.markers
  BY <1>1, <1>8, <1>9, TextNests
<1>11. FramesInv'
  BY <1>6, <1>7 DEF FramesInv, FrameInv
<1>12. MarkersInv'
  <2>1. MentionedIn(scan.stack[1]) = {}
    BY <1>5 DEF MentionedIn
  <2>2. ASSUME NEW x PROVE x \in Mentioned(scan') <=> x \in Mentioned(scan)
    <3>1. x \in Mentioned(scan) <=> x \in scan.out \/ \E i \in 1..1 : x \in MentionedIn(scan.stack[i])
      BY <1>1, <1>5, MentionedMember
    <3>2. x \in Mentioned(scan') <=> x \in scan.out
      BY <1>6, <1>7, MentionedMember
    <3> QED
      BY <2>1, <3>1, <3>2
  <2>3. Mentioned(scan') = Mentioned(scan)
    BY <2>2
  <2> QED
    BY <1>1, <1>7, <1>10, <2>3 DEF StatementInv, MarkersInv
<1>13. ScanInv' /\ CallInv'
  BY <1>7, <1>10 DEF ScanInv, CallInv, Modes
<1>14. ParensInv'
  BY <1>1, <1>6, <1>7, <1>10 DEF ParensInv, OpenParens
<1> QED
  BY <1>7, <1>11, <1>12, <1>13, <1>14 DEF ScanKept

\* The innermost function, and what replacing it or closing it does to the rest.
LEMMA BracketFacts ==
  ASSUME Inv, NEW c, NEW next \in Kinds, TextUnit(c, next), c \in Brackets, InFunction(scan)
  PROVE  LET n == Len(scan.stack)
             frame == scan.stack[n]
         IN /\ scan' = ArgumentStep(scan, c)
            /\ scan.stack # <<>> /\ n \in Nat /\ n \in 1..n /\ frame \in Frame
            /\ frame.parens \in Nat /\ frame.parens >= 1
            /\ Len(frame.args) < MaxArguments /\ frame.kind # "oj"
            /\ frame.kind = "space(" => frame.args = <<>>
            /\ \A i \in 1..n : FrameInv(i, scan.stack[i])
            /\ server'.mode = "normal" /\ server'.depth = 0 /\ ~server'.skip
            /\ server'.parens = server.parens + Nesting(c)
            /\ server'.markers = server.markers
<1> DEFINE n == Len(scan.stack)
           frame == scan.stack[n]
<1>1. /\ StatementInv /\ TypeOK /\ scan \in ScanState /\ server.markers \in Nat /\ server.parens \in Int
      /\ scan.stack \in Seq(Frame)
  BY TextFacts
<1>2. scan' = ArgumentStep(scan, c)
  <2>1. scan' = NormalStep(scan, c, next)
    BY TextFacts
  <2> QED
    BY <2>1, NormalCases
<1>3. scan.stack # <<>> /\ frame.kind # "oj"
  BY DEF InFunction, Top
<1>4. n \in Nat /\ n \in 1..n /\ frame \in Frame
  BY <1>1, <1>3
<1>5. \A i \in 1..n : FrameInv(i, scan.stack[i])
  BY <1>1 DEF StatementInv, FramesInv
<1>6. FrameInv(n, frame) /\ frame.parens \in Int
  BY <1>4, <1>5, FrameParens
<1>7. /\ frame.parens \in Nat /\ frame.parens >= 1 /\ Len(frame.args) < MaxArguments
      /\ frame.kind = "space(" => frame.args = <<>>
  BY <1>3, <1>6 DEF FrameInv
<1>8. Opening(c, next) = "normal" /\ Marks(c, next) = 0 /\ c \notin {"E", "/*", "?"}
  BY DEF Marks, Opening, Brackets, Delimiters
<1>9. /\ server'.mode = "normal" /\ server'.depth = 0 /\ ~server'.skip
      /\ server'.parens = server.parens + Nesting(c)
      /\ server'.markers = server.markers
  <2>1. /\ server'.mode = "normal" /\ server'.depth = 0 /\ ~server'.skip
        /\ server'.parens = server.parens + Nesting(c)
        /\ server'.markers = server.markers + Marks(c, next)
    BY <1>8, TextNests
  <2> QED
    BY <1>1, <1>8, <2>1
<1> QED
  BY <1>2, <1>3, <1>4, <1>5, <1>7, <1>9

\* What remains to be shown of a bracket, once the scanner's state is known.
LEMMA BracketKept ==
  ASSUME Inv, NEW c, NEW next \in Kinds, TextUnit(c, next), c \in Brackets, InFunction(scan),
         scan' \in ScanState, scan'.mode \in {"normal", "closing"}, scan'.depth = 0, ~scan'.skip,
         scan'.count = scan.count, Mentioned(scan') = Mentioned(scan), FramesInv',
         IsFiniteSet(Parens(scan'.stack)),
         Cardinality(Parens(scan'.stack)) = Cardinality(Parens(scan.stack)) + Nesting(c)
  PROVE  ScanKept(c, next)
<1>1. /\ StatementInv /\ server.markers \in Nat /\ server.parens \in Int
      /\ Cardinality(Parens(scan.stack)) = server.parens
  BY TextFacts
<1>2. /\ server'.mode = "normal" /\ server'.depth = 0 /\ ~server'.skip
      /\ server'.parens = server.parens + Nesting(c)
      /\ server'.markers = server.markers
  BY BracketFacts
<1>3. Nesting(c) \in Int /\ c # "?"
  BY DEF Nesting, Brackets, Functions, Calls
<1>4. MarkersInv'
  BY <1>1, <1>2 DEF StatementInv, MarkersInv
<1>5. ScanInv' /\ CallInv'
  BY <1>2 DEF ScanInv, CallInv, Modes, Delimiters
<1>6. ParensInv'
  BY <1>1, <1>2, <1>3 DEF ParensInv, OpenParens
<1> QED
  BY <1>3, <1>4, <1>5, <1>6 DEF ScanKept

\* Only the depth in the innermost function changes, or nothing.
LEMMA BracketDeepens ==
  ASSUME Inv, NEW c, NEW next \in Kinds, TextUnit(c, next), c \in {"(", ")"}, InFunction(scan),
         c = ")" => Top(scan).parens # 1
  PROVE  ScanKept(c, next)
<1> DEFINE n == Len(scan.stack)
           frame == scan.stack[n]
           deeper == frame.parens + Nesting(c)
           other == [frame EXCEPT !.parens = deeper]
           longer == [scan.stack EXCEPT ![n] = other]
<1>1. /\ StatementInv /\ scan \in ScanState /\ scan.depth = 0 /\ scan.mode = "normal" /\ ~scan.skip
      /\ scan.stack \in Seq(Frame) /\ IsFiniteSet(Parens(scan.stack))
  BY TextFacts DEF TextUnit
<1>2. /\ scan' = ArgumentStep(scan, c)
      /\ scan.stack # <<>> /\ n \in Nat /\ n \in 1..n /\ frame \in Frame
      /\ frame.parens \in Nat /\ frame.parens >= 1
      /\ Len(frame.args) < MaxArguments /\ frame.kind # "oj"
      /\ frame.kind = "space(" => frame.args = <<>>
      /\ \A i \in 1..n : FrameInv(i, scan.stack[i])
  BY BracketFacts DEF Brackets
<1>3. c = "(" => Nesting(c) = 1
  BY DEF Nesting, Functions, Calls
<1>4. c = ")" => Nesting(c) = -1 /\ frame.parens # 1
  BY DEF Nesting, Functions, Calls, Top
<1>5. deeper \in Int /\ deeper > 0 /\ deeper = frame.parens + Nesting(c)
  BY <1>2, <1>3, <1>4
<1>6. scan' = [scan EXCEPT !.stack = longer, !.word = FALSE]
  <2>1. CASE c = "("
    <3>1. scan' = [scan EXCEPT !.stack[Len(scan.stack)].parens = scan.stack[Len(scan.stack)].parens + 1,
                               !.word = FALSE]
      BY <1>2, <2>1, Zenon DEF ArgumentStep
    <3> QED
      BY <1>3, <2>1, <3>1
  <2>2. CASE c = ")"
    <3>1. scan' = [scan EXCEPT !.stack[Len(scan.stack)].parens = scan.stack[Len(scan.stack)].parens - 1,
                               !.word = FALSE]
      BY <1>2, <2>2, Zenon DEF ArgumentStep, Top
    <3>2. frame.parens - 1 = deeper
      BY <1>2, <1>4, <2>2
    <3> QED
      BY <3>1, <3>2
  <2> QED
    BY <2>1, <2>2
<1> HIDE DEF deeper
<1>7. /\ other \in Frame /\ other.parens = deeper /\ other.kind = frame.kind
      /\ other.args = frame.args /\ other.outer = frame.outer
  BY <1>2, <1>5 DEF Frame
<1>8. MentionedIn(other) = MentionedIn(frame)
  BY <1>7 DEF MentionedIn
<1>9. FrameInv(n, other)
  BY <1>2, <1>5, <1>7 DEF FrameInv
<1> HIDE DEF other
<1>10. /\ longer \in Seq(Frame) /\ Len(longer) = n /\ longer[n] = other
       /\ \A i \in 1..(n - 1) : longer[i] = scan.stack[i]
       /\ other.parens = frame.parens + 1 /\ frame.parens >= 0 =>
            IsFiniteSet(Parens(longer)) /\ Cardinality(Parens(longer)) = Cardinality(Parens(scan.stack)) + 1
       /\ other.parens = frame.parens - 1 /\ frame.parens >= 1 =>
            IsFiniteSet(Parens(longer)) /\ Cardinality(Parens(longer)) = Cardinality(Parens(scan.stack)) - 1
  BY <1>1, <1>2, <1>7, ParensReplaced
<1>11. IsFiniteSet(Parens(longer))
       /\ Cardinality(Parens(longer)) = Cardinality(Parens(scan.stack)) + Nesting(c)
  <2>1. Cardinality(Parens(scan.stack)) \in Nat
    BY <1>1, FS_CardinalityType
  <2>2. CASE c = "("
    BY <1>2, <1>3, <1>5, <1>7, <1>10, <2>1, <2>2
  <2>3. CASE c = ")"
    BY <1>2, <1>4, <1>5, <1>7, <1>10, <2>1, <2>3
  <2> QED
    BY <2>2, <2>3
<1> HIDE DEF longer
<1>12. /\ scan' \in ScanState /\ scan'.mode = "normal" /\ scan'.depth = 0 /\ ~scan'.skip
       /\ scan'.stack = longer /\ scan'.out = scan.out /\ scan'.count = scan.count
  BY <1>1, <1>6, <1>10 DEF ScanState
<1>13. \A i \in 1..n : i = n \/ i \in 1..(n - 1)
  BY <1>2
<1>14. FramesInv'
  <2>1. ASSUME NEW i \in 1..n PROVE FrameInv(i, longer[i])
    BY <1>2, <1>9, <1>10, <1>13
  <2> QED
    BY <1>10, <1>12, <2>1 DEF FramesInv
<1>15. Mentioned(scan') = Mentioned(scan)
  <2>1. ASSUME NEW i \in 1..n PROVE MentionedIn(longer[i]) = MentionedIn(scan.stack[i])
    BY <1>8, <1>10, <1>13
  <2>2. ASSUME NEW x PROVE x \in Mentioned(scan') <=> x \in Mentioned(scan)
    <3>1. x \in Mentioned(scan) <=> x \in scan.out \/ \E i \in 1..n : x \in MentionedIn(scan.stack[i])
      BY <1>1, MentionedMember
    <3>2. x \in Mentioned(scan') <=> x \in scan.out \/ \E i \in 1..n : x \in MentionedIn(longer[i])
      BY <1>10, <1>12, MentionedMember
    <3> QED
      BY <2>1, <3>1, <3>2
  <2> QED
    BY <2>2
<1> QED
  BY <1>11, <1>12, <1>14, <1>15, BracketKept DEF Brackets

\* One argument more.
OneMore(list, e, more) ==
  /\ more \in Seq(SUBSET Int) /\ Len(more) = Len(list) + 1 /\ Len(list) \in Nat
  /\ more[Len(list) + 1] = e /\ \A i \in 1..Len(list) : more[i] = list[i]
  /\ DOMAIN more = 1..(Len(list) + 1) /\ DOMAIN list = 1..Len(list)
  /\ \A x : (\E i \in 1..(Len(list) + 1) : x \in more[i]) <=>
            x \in e \/ \E i \in 1..Len(list) : x \in list[i]

\* An argument that is appended is the last one, and the others stay.
LEMMA OneArgumentMore ==
  ASSUME NEW list \in Seq(SUBSET Int), NEW e \in SUBSET Int
  PROVE  OneMore(list, e, Append(list, e))
<1> DEFINE more == Append(list, e)
           n == Len(list)
<1>1. /\ more \in Seq(SUBSET Int) /\ Len(more) = n + 1 /\ n \in Nat
      /\ more[n + 1] = e /\ \A i \in 1..n : more[i] = list[i]
      /\ DOMAIN more = 1..(n + 1) /\ DOMAIN list = 1..n
  OBVIOUS
<1> HIDE DEF more, n
<1>2. ASSUME NEW x
      PROVE  (\E i \in 1..(n + 1) : x \in more[i]) <=> x \in e \/ \E i \in 1..n : x \in list[i]
  <2>1. n + 1 \in 1..(n + 1) /\ \A i \in 1..(n + 1) : i = n + 1 \/ i \in 1..n
    BY <1>1
  <2>2. 1..n \subseteq 1..(n + 1)
    BY <1>1
  <2> QED
    BY <1>1, <2>1, <2>2, Zenon
<1> QED
  BY <1>1, <1>2, Zenon DEF OneMore, more, n

\* A comma deeper in an argument.
LEMMA BracketComma ==
  ASSUME Inv, NEW c, NEW next \in Kinds, TextUnit(c, next), c = "comma", InFunction(scan),
         Top(scan).parens # 1
  PROVE  ScanKept(c, next)
<1>1. /\ StatementInv /\ TypeOK /\ scan \in ScanState /\ scan.depth = 0 /\ scan.mode = "normal" /\ ~scan.skip
      /\ scan.stack \in Seq(Frame) /\ IsFiniteSet(Parens(scan.stack))
  BY TextFacts DEF TextUnit
<1>2. scan' = ArgumentStep(scan, c)
  BY BracketFacts DEF Brackets
<1>3. scan' = [scan EXCEPT !.word = FALSE]
  BY <1>2, Zenon DEF ArgumentStep
<1>4. /\ scan' \in ScanState /\ scan'.mode = "normal" /\ scan'.depth = 0 /\ ~scan'.skip
      /\ scan'.stack = scan.stack /\ scan'.out = scan.out /\ scan'.count = scan.count
  BY <1>1, <1>3 DEF ScanState
<1>5. Nesting(c) = 0 /\ Cardinality(Parens(scan.stack)) \in Nat
  BY <1>1, FS_CardinalityType DEF Nesting, Functions, Calls
<1>6. /\ FramesInv' /\ IsFiniteSet(Parens(scan'.stack))
      /\ Cardinality(Parens(scan'.stack)) = Cardinality(Parens(scan.stack)) + Nesting(c)
      /\ Mentioned(scan') = Mentioned(scan)
  <2>1. /\ FramesInv' /\ IsFiniteSet(Parens(scan'.stack))
        /\ Cardinality(Parens(scan'.stack)) = Cardinality(Parens(scan.stack))
        /\ Mentioned(scan') = Mentioned(scan)
    BY <1>1, <1>4, SameStack
  <2> QED
    BY <1>5, <2>1
<1> QED
  BY <1>4, <1>6, BracketKept DEF Brackets

\* An argument ends: what was collected for it is kept with the function.
LEMMA BracketArgument ==
  ASSUME Inv, NEW c, NEW next \in Kinds, TextUnit(c, next), c = "comma", InFunction(scan),
         Top(scan).parens = 1
  PROVE  ScanKept(c, next)
<1> DEFINE n == Len(scan.stack)
           frame == scan.stack[n]
           args == Append(frame.args, scan.out)
           other == [frame EXCEPT !.args = args]
           longer == [scan.stack EXCEPT ![n] = other]
           none == {}
<1>1. /\ StatementInv /\ scan \in ScanState /\ scan.depth = 0 /\ scan.mode = "normal" /\ ~scan.skip
      /\ scan.stack \in Seq(Frame) /\ IsFiniteSet(Parens(scan.stack))
  BY TextFacts DEF TextUnit
<1>2. /\ scan' = ArgumentStep(scan, c)
      /\ scan.stack # <<>> /\ n \in Nat /\ n \in 1..n /\ frame \in Frame
      /\ frame.parens \in Nat /\ frame.parens >= 1
      /\ \A i \in 1..n : FrameInv(i, scan.stack[i])
  BY BracketFacts DEF Brackets
<1>3. frame.kind = "fn(" /\ Len(frame.args) < MaxArguments - 1
  <2>1. StatementUnit(c, next) /\ scan.mode = "normal"
    BY DEF TextUnit
  <2>2. Top(scan).kind = "fn(" /\ Len(Top(scan).args) < MaxArguments - 1
    BY <2>1, UnitsOfEscapes
  <2> QED
    BY <2>2 DEF Top
<1>4. frame.args \in Seq(SUBSET Int) /\ scan.out \in SUBSET Int /\ MaxArguments \in Nat
  BY <1>1, <1>2, ParserAssumption DEF Frame, ScanState
<1>m. OneMore(frame.args, scan.out, args)
  BY <1>4, OneArgumentMore, Zenon
<1>5. /\ args \in Seq(SUBSET Int) /\ Len(args) = Len(frame.args) + 1 /\ Len(frame.args) \in Nat
      /\ args[Len(frame.args) + 1] = scan.out /\ \A i \in 1..Len(frame.args) : args[i] = frame.args[i]
  BY <1>m DEF OneMore
<1>6. scan' = [scan EXCEPT !.stack = longer, !.out = none, !.word = FALSE]
  <2>1. scan' = EndArgument(scan)
    BY <1>2, Zenon DEF ArgumentStep
  <2>2. Len(Top(scan).args) < MaxArguments
    BY <1>3, <1>4, <1>5 DEF Top
  <2>3. scan' = [scan EXCEPT !.stack[Len(scan.stack)].args =
                               Append(scan.stack[Len(scan.stack)].args, scan.out),
                             !.out = {}, !.word = FALSE]
    BY <2>1, <2>2, Zenon DEF EndArgument
  <2> QED
    BY <2>3
<1> HIDE DEF args
<1>7. /\ other \in Frame /\ other.parens = frame.parens /\ other.kind = frame.kind
      /\ other.args = args /\ other.outer = frame.outer
  BY <1>2, <1>5 DEF Frame
<1>8. MentionedIn(other) = MentionedIn(frame) \union scan.out
  <2>1. ASSUME NEW x PROVE x \in MentionedIn(other) <=> x \in MentionedIn(frame) \/ x \in scan.out
    <3>1. DOMAIN args = 1..(Len(frame.args) + 1) /\ DOMAIN frame.args = 1..Len(frame.args)
      BY <1>4, <1>5
    <3>2. x \in MentionedIn(other) <=> x \in frame.outer \/ \E i \in 1..(Len(frame.args) + 1) : x \in args[i]
      BY <1>7, <3>1 DEF MentionedIn
    <3>3. x \in MentionedIn(frame) <=> x \in frame.outer \/ \E i \in 1..Len(frame.args) : x \in frame.args[i]
      BY <3>1 DEF MentionedIn
    <3>4. (\E i \in 1..(Len(frame.args) + 1) : x \in args[i]) <=>
            x \in scan.out \/ \E i \in 1..Len(frame.args) : x \in frame.args[i]
      BY <1>m DEF OneMore
    <3> QED
      BY <3>2, <3>3, <3>4
  <2> QED
    BY <2>1
<1>9. FrameInv(n, other)
  BY <1>2, <1>3, <1>4, <1>5, <1>7 DEF FrameInv
<1> HIDE DEF other
<1>10. /\ longer \in Seq(Frame) /\ Len(longer) = n /\ longer[n] = other
       /\ \A i \in 1..(n - 1) : longer[i] = scan.stack[i]
       /\ Parens(longer) = Parens(scan.stack)
  BY <1>1, <1>2, <1>7, ParensReplaced
<1>11. none \subseteq Int /\ \A x : x \notin none
  OBVIOUS
<1> HIDE DEF longer, none
<1>12. /\ scan' \in ScanState /\ scan'.mode = "normal" /\ scan'.depth = 0 /\ ~scan'.skip
       /\ scan'.stack = longer /\ scan'.out = none /\ scan'.count = scan.count
  BY <1>1, <1>6, <1>10, <1>11 DEF ScanState
<1>13. \A i \in 1..n : i = n \/ i \in 1..(n - 1)
  BY <1>2
<1>14. FramesInv'
  <2>1. ASSUME NEW i \in 1..n PROVE FrameInv(i, longer[i])
    BY <1>2, <1>9, <1>10, <1>13
  <2> QED
    BY <1>10, <1>12, <2>1 DEF FramesInv
<1>15. Mentioned(scan') = Mentioned(scan)
  <2>1. ASSUME NEW x PROVE x \in Mentioned(scan') <=> x \in Mentioned(scan)
    <3>1. x \in Mentioned(scan) <=> x \in scan.out \/ \E i \in 1..n : x \in MentionedIn(scan.stack[i])
      BY <1>1, MentionedMember
    <3>2. x \in Mentioned(scan') <=> \E i \in 1..n : x \in MentionedIn(longer[i])
      BY <1>10, <1>11, <1>12, MentionedMember
    <3>3. x \in MentionedIn(longer[n]) <=> x \in MentionedIn(scan.stack[n]) \/ x \in scan.out
      BY <1>8, <1>10
    <3>4. \A i \in 1..n : i # n => longer[i] = scan.stack[i]
      BY <1>10, <1>13
    <3> QED
      BY <1>2, <3>1, <3>2, <3>3, <3>4
  <2> QED
    BY <2>1
<1>16. Nesting(c) = 0 /\ Cardinality(Parens(scan.stack)) \in Nat
  BY <1>1, FS_CardinalityType DEF Nesting, Functions, Calls
<1>17. /\ IsFiniteSet(Parens(scan'.stack))
       /\ Cardinality(Parens(scan'.stack)) = Cardinality(Parens(scan.stack)) + Nesting(c)
  BY <1>1, <1>10, <1>12, <1>16
<1> QED
  BY <1>12, <1>14, <1>15, <1>17, BracketKept DEF Brackets

\* A function ends: the text gets what its template mentions.
LEMMA BracketCloses ==
  ASSUME Inv, NEW c, NEW next \in Kinds, TextUnit(c, next), c = ")", InFunction(scan),
         Top(scan).parens = 1
  PROVE  ScanKept(c, next)
<1> DEFINE n == Len(scan.stack)
           frame == scan.stack[n]
           args == Append(frame.args, scan.out)
           out == frame.outer \union TextOf(frame, args)
           shorter == SubSeq(scan.stack, 1, n - 1)
<1>1. /\ StatementInv /\ scan \in ScanState /\ scan.depth = 0 /\ scan.mode = "normal" /\ ~scan.skip
      /\ scan.stack \in Seq(Frame) /\ IsFiniteSet(Parens(scan.stack))
  BY TextFacts DEF TextUnit
<1>2. /\ scan' = ArgumentStep(scan, c)
      /\ scan.stack # <<>> /\ n \in Nat /\ n \in 1..n /\ frame \in Frame
      /\ Len(frame.args) < MaxArguments
      /\ frame.kind = "space(" => frame.args = <<>>
      /\ \A i \in 1..n : FrameInv(i, scan.stack[i])
  BY BracketFacts DEF Brackets
<1>3. frame.parens = 1
  BY DEF Top
<1>4. frame.args \in Seq(SUBSET Int) /\ scan.out \in SUBSET Int /\ frame.outer \in SUBSET Int
  BY <1>1, <1>2 DEF Frame, ScanState
<1>m. OneMore(frame.args, scan.out, args)
  BY <1>4, OneArgumentMore, Zenon
<1>5. /\ args \in Seq(SUBSET Int) /\ Len(args) = Len(frame.args) + 1 /\ Len(frame.args) \in Nat
      /\ args[Len(frame.args) + 1] = scan.out /\ \A i \in 1..Len(frame.args) : args[i] = frame.args[i]
  BY <1>m DEF OneMore
<1>6. scan' = [scan EXCEPT !.out = out, !.stack = shorter, !.mode = "closing", !.word = FALSE]
  <2>1. scan' = CloseFunction(scan)
    BY <1>2, Zenon DEF ArgumentStep
  <2>2. Len(Top(scan).args) < MaxArguments
    BY <1>2 DEF Top
  <2> QED
    BY <2>1, <2>2, Zenon DEF CloseFunction, Top, Pop
<1> HIDE DEF args
<1>7. ASSUME NEW x PROVE x \in out <=> x \in MentionedIn(frame) \/ x \in scan.out
  <2>1. DOMAIN args = 1..(Len(frame.args) + 1) /\ DOMAIN frame.args = 1..Len(frame.args)
    BY <1>4, <1>5
  <2>2. x \in MentionedIn(frame) <=> x \in frame.outer \/ \E i \in 1..Len(frame.args) : x \in frame.args[i]
    BY <2>1 DEF MentionedIn
  <2>3. (\E i \in 1..(Len(frame.args) + 1) : x \in args[i]) <=>
          x \in scan.out \/ \E i \in 1..Len(frame.args) : x \in frame.args[i]
    BY <1>m DEF OneMore
  <2>4. CASE frame.kind = "space("
    <3>1. Len(frame.args) = 0
      BY <1>2, <2>4
    <3>2. TextOf(frame, args) = args[1]
      BY <2>4 DEF TextOf
    <3> QED
      BY <1>5, <2>2, <3>1, <3>2
  <2>5. CASE frame.kind # "space("
    <3>1. x \in TextOf(frame, args) <=> \E i \in 1..(Len(frame.args) + 1) : x \in args[i]
      BY <2>1, <2>5 DEF TextOf
    <3> QED
      BY <1>5, <2>2, <2>3, <3>1
  <2> QED
    BY <2>4, <2>5
<1>8. out \subseteq Int
  <2>1. MentionedIn(frame) \subseteq Int
    BY <1>4 DEF MentionedIn
  <2> QED
    BY <1>4, <1>7, <2>1
<1> HIDE DEF out
<1>9. /\ shorter \in Seq(Frame) /\ Len(shorter) = n - 1 /\ n - 1 \in Nat
      /\ \A i \in 1..(n - 1) : shorter[i] = scan.stack[i]
      /\ IsFiniteSet(Parens(shorter)) /\ Cardinality(Parens(shorter)) = Cardinality(Parens(scan.stack)) - 1
  BY <1>1, <1>2, <1>3, ParensPopped
<1> HIDE DEF shorter
<1>10. /\ scan' \in ScanState /\ scan'.mode = "closing" /\ scan'.depth = 0 /\ ~scan'.skip
       /\ scan'.stack = shorter /\ scan'.out = out /\ scan'.count = scan.count
  BY <1>1, <1>6, <1>8, <1>9 DEF ScanState, ScanModes
<1>11. FramesInv'
  <2>1. ASSUME NEW i \in 1..(n - 1) PROVE FrameInv(i, shorter[i])
    BY <1>2, <1>9
  <2> QED
    BY <1>9, <1>10, <2>1 DEF FramesInv
<1>12. Mentioned(scan') = Mentioned(scan)
  <2>1. ASSUME NEW x PROVE x \in Mentioned(scan') <=> x \in Mentioned(scan)
    <3>1. x \in Mentioned(scan) <=> x \in scan.out \/ \E i \in 1..n : x \in MentionedIn(scan.stack[i])
      BY <1>1, MentionedMember
    <3>2. x \in Mentioned(scan') <=> x \in out \/ \E i \in 1..(n - 1) : x \in MentionedIn(shorter[i])
      BY <1>9, <1>10, MentionedMember
    <3>3. (\E i \in 1..n : x \in MentionedIn(scan.stack[i])) <=>
            x \in MentionedIn(frame) \/ \E i \in 1..(n - 1) : x \in MentionedIn(scan.stack[i])
      BY <1>2
    <3> QED
      BY <1>7, <1>9, <3>1, <3>2, <3>3
  <2> QED
    BY <2>1
<1>13. Nesting(c) = -1 /\ Cardinality(Parens(scan.stack)) \in Nat
  BY <1>1, FS_CardinalityType DEF Nesting, Functions, Calls
<1>14. /\ IsFiniteSet(Parens(scan'.stack))
       /\ Cardinality(Parens(scan'.stack)) = Cardinality(Parens(scan.stack)) + Nesting(c)
  BY <1>9, <1>10, <1>13
<1> QED
  BY <1>10, <1>11, <1>12, <1>14, BracketKept DEF Brackets

\* Whatever a unit of ordinary text is, the scanner reads it as the server does.
LEMMA ScanText ==
  ASSUME Inv, NEW c, NEW next \in Kinds, TextUnit(c, next)
  PROVE  ScanKept(c, next)
<1>1. CASE c = "?" /\ next # "?"
  BY <1>1, TextMarker
<1>2. CASE c \in Calls
  BY <1>2, TextCall
<1>3. CASE c \in Functions
  BY <1>3, TextFunction
<1>4. CASE c \in Raw
  BY <1>4, TextRaw
<1>5. CASE c = "oj"
  BY <1>5, TextJoin
<1>6. CASE c = "brace" /\ InJoin(scan)
  BY <1>6, TextJoined
<1>7. CASE c \in Brackets /\ InFunction(scan)
  <2>1. CASE c = "comma"
    BY <1>7, <2>1, BracketComma, BracketArgument
  <2>2. CASE c = "("
    BY <1>7, <2>2, BracketDeepens
  <2>3. CASE c = ")"
    BY <1>7, <2>3, BracketDeepens, BracketCloses
  <2> QED
    BY <1>7, <2>1, <2>2, <2>3 DEF Brackets
<1>8. CASE PlainUnit(c, next)
  BY <1>8, TextCopied
<1> QED
  BY <1>1, <1>2, <1>3, <1>4, <1>5, <1>6, <1>7, <1>8, Zenon DEF PlainUnit

\* The scanner's reading of any unit that ends no fragment.
LEMMA ScanReads ==
  ASSUME Inv, NEW c, NEW next \in Kinds, StatementUnit(c, next), ~Ends(split, c)
  PROVE  ScanKept(c, next)
<1>1. ScanInv /\ scan \in ScanState
  BY Units DEF StatementInv, TypeOK
<1>2. scan.mode \in Modes \/ scan.mode \in {"raw", "tail", "closing", "call"}
  BY <1>1 DEF ScanState, ScanModes
<1>3. CASE scan.skip
  BY <1>3, ScanSkips
<1>4. CASE ~scan.skip /\ scan.mode \in Modes \ {"normal"}
  BY <1>4, ScanContexts
<1>5. CASE ~scan.skip /\ scan.mode = "normal"
  <2>1. ~server.skip /\ server.mode = "normal"
    BY <1>1, <1>5 DEF ScanInv, Modes
  <2> QED
    BY <1>5, <2>1, ScanText DEF TextUnit
<1>6. CASE ~scan.skip /\ scan.mode \notin Modes /\ (server.skip \/ server.mode # "normal")
  BY <1>6, ScanCopies
<1>7. CASE ~scan.skip /\ scan.mode \notin Modes /\ ~server.skip /\ server.mode = "normal"
  BY <1>2, <1>7, ScanBraces, ScanCalls
<1> QED
  BY <1>3, <1>4, <1>5, <1>6, <1>7

\* Outside calls no argument is recorded, and a call begins between two arguments.
LEMMA OutsideCalls ==
  ASSUME Inv, NEW c, NEW next \in Kinds, StatementUnit(c, next), ~Ends(split, c), scan.mode # "call"
  PROVE  scan'.arguments = scan.arguments /\ (scan'.mode = "call" => ~scan'.literal)
<1>1. /\ StatementInv /\ ScanInv /\ ServerInv /\ scan \in ScanState /\ scan' = ScanStep(scan, c, next)
      /\ scan.stack \in Seq(Frame)
  BY Units DEF StatementUnit, StatementInv, TypeOK, ScanState
<1>2. "call" \notin Modes /\ "call" # "normal" /\ "call" # "closing"
  BY DEF Modes, Delimiters
<1>3. CASE scan.skip
  <2>1. scan' = [scan EXCEPT !.skip = FALSE]
    BY <1>1, <1>3, Zenon DEF ScanStep
  <2> QED
    BY <1>1, <2>1 DEF ScanState
<1>4. CASE ~scan.skip /\ scan.mode \in Modes \ {"normal"}
  <2>1. scan' = InsideStep(scan, c, next)
    BY <1>1, <1>4, Zenon DEF ScanStep, Modes, Delimiters
  <2>2. scan.mode = "block" => scan.depth > 0
    BY <1>1, <1>4 DEF ScanInv, ServerInv
  <2>3. /\ scan'.mode = IF Closes(scan.mode, scan.depth, c, next) THEN "normal" ELSE scan.mode
        /\ scan'.arguments = scan.arguments
    BY <1>1, <1>4, <2>1, <2>2, ScanInside
  <2> QED
    BY <1>2, <1>4, <2>3
<1>5. CASE ~scan.skip /\ scan.mode \in {"raw", "tail"}
  <2>1. scan' = BraceStep(scan, c)
    BY <1>1, <1>5, Zenon DEF ScanStep, Modes, Delimiters
  <2> QED
    BY <1>1, <1>5, <2>1 DEF BraceStep, ScanState
<1>6. CASE ~scan.skip /\ scan.mode = "closing"
  <2>1. scan' = ClosingStep(scan, c, next)
    BY <1>1, <1>6, Zenon DEF ScanStep, Modes, Delimiters
  <2>2. c \in Blank \union {"brace"}
    BY <1>1, <1>6, UnitsOfText DEF ScanInv
  <2> QED
    BY <1>1, <1>6, <2>1, <2>2 DEF ClosingStep, ScanState, Blank
<1>7. CASE ~scan.skip /\ scan.mode = "normal"
  <2>0. scan' = NormalStep(scan, c, next)
    BY <1>1, <1>7, Zenon DEF ScanStep
  <2>1. CASE c = "?" /\ next = "?"
    <3>1. scan' = [scan EXCEPT !.skip = TRUE, !.word = FALSE]
      BY <2>0, <2>1, NormalCases
    <3> QED
      BY <1>1, <1>7, <3>1 DEF ScanState
  <2>2. CASE c = "?" /\ next # "?"
    <3>1. scan' = Marker(scan)
      BY <2>0, <2>2, NormalCases
    <3> QED
      BY <1>1, <1>7, <3>1, MarkerState
  <2>3. CASE c \in Functions
    <3>1. scan' = OpenFunction(scan, c)
      BY <2>0, <2>3, NormalCases
    <3> QED
      BY <1>1, <1>7, <3>1 DEF OpenFunction, ScanState
  <2>4. CASE c \in Calls
    <3> DEFINE opened == IF c = "?=call(" THEN Marker(scan) ELSE scan
    <3>1. scan' = OpenCall(scan, c)
      BY <2>0, <2>4, NormalCases
    <3>2. opened \in ScanState /\ opened.arguments = scan.arguments
      <4>1. CASE c = "?=call("
        <5>1. opened = Marker(scan)
          BY <4>1, Zenon
        <5> QED
          BY <1>1, <5>1, MarkerState
      <4>2. CASE c # "?=call("
        <5>1. opened = scan
          BY <4>2, Zenon
        <5> QED
          BY <1>1, <5>1
      <4> QED
        BY <4>1, <4>2
    <3>3. scan' = [opened EXCEPT !.mode = "call", !.parens = 1, !.literal = FALSE, !.length = 0,
                                 !.word = FALSE]
      BY <3>1, Zenon DEF OpenCall
    <3> HIDE DEF opened
    <3> QED
      BY <3>2, <3>3 DEF ScanState
  <2>5. CASE c \in Raw
    BY <1>1, <1>7, <2>0, <2>5, NormalCases DEF ScanState
  <2>6. CASE c = "oj" \/ (c = "brace" /\ InJoin(scan))
    <3>1. PICK stack : scan' = [scan EXCEPT !.stack = stack]
      BY <2>0, <2>6, NormalCases
    <3> QED
      BY <1>1, <1>7, <3>1 DEF ScanState
  <2>7. CASE c \in Brackets /\ InFunction(scan)
    <3>1. scan' = ArgumentStep(scan, c)
      BY <2>0, <2>7, NormalCases
    <3> QED
      BY <1>1, <1>7, <2>7, <3>1 DEF ArgumentStep, EndArgument, CloseFunction, Dropped, Brackets, ScanState
  <2>8. CASE /\ c \notin {"?", "oj"} \union Functions \union Calls \union Raw
             /\ ~(c = "brace" /\ InJoin(scan)) /\ ~(c \in Brackets /\ InFunction(scan))
    <3>1. scan' = Opened(scan, c, next)
      BY <2>0, <2>8, NormalCases
    <3> QED
      <4>1. scan.depth = 0 /\ server.mode = "normal" /\ ~server.skip
        BY <1>1, <1>2, <1>7 DEF ScanInv, ServerInv, Modes
      <4>2. c \in Delimiters => ~scan.word
        BY <4>1, Units
      <4>3. scan'.arguments = scan.arguments /\ scan'.mode = Opening(c, next)
        BY <1>1, <1>7, <3>1, <4>1, <4>2, ScanOpened
      <4>4. Opening(c, next) # "call"
        BY DEF Opening, Delimiters
      <4> QED
        BY <4>3, <4>4
  <2> QED
    BY <2>1, <2>2, <2>3, <2>4, <2>5, <2>6, <2>7, <2>8
<1> QED
  BY <1>1, <1>3, <1>4, <1>5, <1>6, <1>7 DEF ScanState, ScanModes

\* As many arguments are recorded as the server has found.
LEMMA ArgumentsKept ==
  ASSUME Inv, NEW c, NEW next \in Kinds, StatementUnit(c, next), ~Ends(split, c)
  PROVE  ArgumentsInv'
<1> DEFINE begins == Begins(server, c)
           finishes == Finishes(server, c)
<1>1. /\ StatementInv /\ ScanInv /\ CallInv /\ ParensInv /\ ArgumentsInv
      /\ scan \in ScanState /\ server \in ServerState
      /\ MaxCallArguments \in Nat /\ scan.arguments \in Nat /\ server.arguments \in Nat
  BY Units, ParserAssumption DEF StatementInv, TypeOK, ScanState, ServerState
<1>2. /\ server'.arguments = IF begins THEN server.arguments + 1 ELSE server.arguments
      /\ server'.argument <=> (server.argument \/ begins) /\ ~finishes
  BY EndsTogether, ServerReads
<1>3. CASE scan.mode # "call"
  <2>1. ~begins /\ ~finishes
    BY <1>3 DEF Begins, Finishes
  <2>2. scan'.arguments = scan.arguments /\ (scan'.mode = "call" => ~scan'.literal)
    BY <1>3, OutsideCalls
  <2> QED
    BY <1>1, <1>2, <1>3, <2>1, <2>2 DEF ArgumentsInv
<1>4. CASE scan.mode = "call" /\ (server.skip \/ server.mode # "normal")
  <2>1. scan.literal /\ ~scan.skip /\ ~Ends(split, c)
    BY <1>1, <1>4 DEF ScanInv, Modes, Delimiters
  <2>2. server.mode # "normal"
    BY <1>4, <2>1, Units, UnitsOfEscapes
  <2>3. ~begins /\ ~finishes
    BY <2>2 DEF Begins, Finishes
  <2>4. c \notin Brackets /\ scan.length # MaxLiteral
    BY <1>4, <2>2, UnitsOfEscapes
  <2>5. scan' = CallStep(scan, c, next)
    BY <1>4, <2>1, Zenon DEF StatementUnit, ScanStep, Modes, Delimiters
  <2>6. scan' = CallLiteralStep(scan, c)
    BY <2>1, <2>4, <2>5, Zenon DEF CallStep
  <2>7. scan' = Copied(scan)
    BY <2>4, <2>6, Zenon DEF CallLiteralStep, Copied, Brackets
  <2>8. scan'.mode = "call" /\ scan'.literal /\ scan'.arguments = scan.arguments
    BY <1>1, <1>4, <2>7, CopiedState
  <2> QED
    BY <1>1, <1>2, <1>4, <2>1, <2>3, <2>8 DEF ArgumentsInv
<1>5. CASE scan.mode = "call" /\ ~server.skip /\ server.mode = "normal"
  <2>1. ~scan.skip
    BY <1>1, <1>5 DEF ScanInv, Modes, Delimiters
  <2>2. finishes <=> scan.parens = 1 /\ c \in {"comma", ")"}
    <3>1. scan.stack = <<>> /\ Parens(scan.stack) = {}
      BY <1>1, <1>5 DEF CallInv, Parens
    <3>2. OpenParens(scan) = scan.parens
      <4>1. Cardinality(Parens(scan.stack)) = 0 /\ scan.parens \in Int
        BY <1>1, <3>1, FS_EmptySet DEF ScanState
      <4> QED
        BY <1>5, <4>1 DEF OpenParens
    <3> QED
      BY <1>1, <1>5, <3>2 DEF Finishes, ParensInv
  <2>3. begins <=> ~server.argument /\ c \notin Blank \union Comments \union {"comma", ")"}
    BY <1>5 DEF Begins
  <2>4. begins => scan.arguments < MaxCallArguments
    BY UnitsOfEscapes
  <2>5. c \notin Comments /\ (~scan.literal /\ server.argument => c \in Blank \union {"comma", ")"})
    BY <1>5, UnitsOfEscapes
  <2>6. CASE /\ c \in Blank \union {"comma", ")"} /\ scan'.mode \in {"call", "tail"}
             /\ scan'.mode = "call" => ~scan'.literal
             /\ scan.parens = 1 /\ scan'.arguments = scan.arguments + Ended(scan)
             /\ c = ")" \/ scan'.mode = "call"
    <3>1. ~begins
      BY <2>3, <2>6
    <3>2. c = ")" => finishes
      BY <2>2, <2>6
    <3> HIDE DEF begins, finishes
    <3> QED
      BY <1>1, <1>2, <1>5, <2>6, <3>1, <3>2 DEF ArgumentsInv, Ended
  <2>7. CASE /\ c = "?" /\ next # "?" /\ scan'.mode = "call" /\ ~scan.literal /\ ~scan'.literal
             /\ scan'.arguments = scan.arguments + 1
    <3>1. begins
      BY <2>3, <2>5, <2>7 DEF Blank
    <3> HIDE DEF begins, finishes
    <3> QED
      BY <1>1, <1>2, <1>5, <2>4, <2>7, <3>1 DEF ArgumentsInv
  <2>8. CASE /\ scan'.mode = "call" /\ scan'.literal /\ scan'.arguments = scan.arguments
             /\ IF scan.literal THEN ~(c \in {"comma", ")"} /\ scan.parens = 1)
                ELSE c \notin Blank \union {"comma", ")"}
    <3>1. ~finishes
      BY <2>2, <2>8
    <3>2. begins <=> ~scan.literal
      BY <1>1, <1>5, <2>3, <2>5, <2>8 DEF ArgumentsInv
    <3> HIDE DEF begins, finishes
    <3> QED
      BY <1>1, <1>2, <1>5, <2>4, <2>8, <3>1, <3>2 DEF ArgumentsInv
  <2> QED
    BY <1>5, <2>1, <2>6, <2>7, <2>8, CallCases
<1> QED
  BY <1>3, <1>4, <1>5

\* Within a fragment all three readers stay together.
LEMMA StatementReads ==
  ASSUME Inv, NEW c, NEW next \in Kinds, StatementUnit(c, next), ~Ends(split, c)
  PROVE  Inv'
<1>1. TypeOK /\ StatementInv /\ ~hollow /\ ServerInv
  BY Units DEF StatementInv
<1>2. ~Ends(server, c)
  BY EndsTogether
<1>3. ServerInv' /\ server' \in ServerState
  BY <1>2, ServerKeeps, ServerReads
<1>4. /\ scan' \in ScanState /\ ScanInv' /\ FramesInv' /\ CallInv' /\ ParensInv' /\ MarkersInv'
      /\ c = "?" /\ next # "?" /\ server.mode = "normal" /\ ~server.skip => scan'.word
  BY ScanReads DEF ScanKept
<1>5. /\ split' \in SplitState
      /\ split'.mode = server'.mode /\ split'.depth = server'.depth
      /\ split'.skip <=> server'.skip /\ server'.mode # "normal"
      /\ split'.text <=> server'.content # "none"
      /\ ~server.skip /\ server.mode = "normal" /\ c \in Letters /\ split'.mode = "normal" => split'.word
  BY SplitReads
<1>6. server'.word /\ server'.mode = "normal" => split'.word \/ scan'.word
  <2>1. CASE server.skip
    <3>1. server'.mode = server.mode /\ server'.word = server.word
      BY <1>2, <2>1, ServerReads
    <3> QED
      BY <1>1, <2>1, <3>1 DEF ServerInv
  <2>2. CASE ~server.skip /\ server.mode # "normal"
    <3>1. server'.mode = "normal" => ~server'.word
      BY <1>2, <2>2, ServerReads
    <3> QED
      BY <3>1
  <2>3. CASE ~server.skip /\ server.mode = "normal"
    <3>1. server'.mode = "normal" /\ server'.word => c \in Letters \/ (c = "?" /\ next # "?")
      BY <1>2, <2>3, ServerReads
    <3> QED
      BY <1>4, <1>5, <2>3, <3>1
  <2> QED
    BY <2>1, <2>2, <2>3
<1>7. SplitInv'
  BY <1>5, <1>6 DEF SplitInv
<1>8. ~hollow'
  BY <1>1 DEF StatementUnit
<1>9. task' = "statement" /\ conforming' = conforming /\ peek' = next
  BY DEF StatementUnit
<1>10. ArgumentsInv'
  BY ArgumentsKept
<1> QED
  BY <1>3, <1>4, <1>5, <1>7, <1>8, <1>9, <1>10 DEF Inv, TypeOK, StatementInv

NothingOpen == scan = NoScan /\ split = NoSplit /\ server = NoServer

\* Before a text, or a fragment, the readers agree.
LEMMA Beginning == NothingOpen => TypeOK /\ StatementInv
<1> SUFFICES ASSUME scan = NoScan, split = NoSplit, server = NoServer
             PROVE  TypeOK /\ StatementInv
  BY DEF NothingOpen
<1>1. TypeOK
  <2>1. scan \in ScanState
    BY DEF NoScan, ScanState, ScanModes, Modes, Frame
  <2>2. split \in SplitState /\ server \in ServerState
    BY DEF NoSplit, NoServer, SplitState, ServerState, Modes
  <2> QED
    BY <2>1, <2>2 DEF TypeOK
<1>2. scan.stack = <<>> /\ Len(scan.stack) = 0 /\ DOMAIN scan.stack = {}
  BY DEF NoScan
<1>3. Parens(scan.stack) = {}
  BY <1>2 DEF Parens
<1>4. ServerInv /\ SplitInv
  BY DEF ServerInv, SplitInv, NoServer, NoSplit
<1>5. ScanInv /\ CallInv
  BY DEF ScanInv, CallInv, NoScan, NoServer, Modes
<1>6. FramesInv
  BY <1>2 DEF FramesInv
<1>7. ParensInv
  BY <1>3, FS_EmptySet DEF ParensInv, OpenParens, NoScan, NoServer
<1>8. MarkersInv
  BY <1>2 DEF MarkersInv, Mentioned, NoScan, NoServer
<1>9. ArgumentsInv
  BY ParserAssumption DEF ArgumentsInv, NoScan, NoServer
<1> QED
  BY <1>1, <1>4, <1>5, <1>6, <1>7, <1>8, <1>9 DEF StatementInv

\* A semicolon ends the fragment for all three, and what is kept is a command.
LEMMA StatementEnds ==
  ASSUME Inv, NEW c, NEW next \in Kinds, StatementUnit(c, next), Ends(split, c)
  PROVE  Inv'
<1>1. Ends(server, c)
  BY EndsTogether
<1>2. scan' = NoScan /\ split' = NoSplit /\ server' = NoServer
  BY <1>1 DEF StatementUnit, ServerStep, SplitStep
<1>3. (TypeOK /\ StatementInv)'
  <2>1. NothingOpen'
    BY <1>2 DEF NothingOpen
  <2>2. (NothingOpen => TypeOK /\ StatementInv)'
    BY Beginning, PTL
  <2> QED
    BY <2>1, <2>2
<1>4. TypeOK /\ SplitInv /\ ~hollow
  BY Units DEF StatementInv
<1>5. ~OnlyComment
  BY DEF StatementUnit, Admissible, Spelled
<1>6. ~EndsHollow
  BY <1>4, <1>5 DEF EndsHollow, OnlyComment, Kept, SplitInv, TypeOK, ServerState
<1>7. ~hollow'
  BY <1>4, <1>6 DEF StatementUnit
<1>8. task' = "statement" /\ conforming' = conforming /\ peek' = next
  BY DEF StatementUnit
<1> QED
  BY <1>3, <1>7, <1>8 DEF Inv

----------------------------------------------------------------------------
(* The reader of the select list.                                          *)

\* The ordinary text of a select list that avoids what its reader does not know.
ListWords ==
  {"'", "dq", "\\", "a", "blank", "nl", "from", "(", ")", "comma", "star", "array", "distinct"}

\* One unit of a select list, spelled with care.
ListUnit(c, next) ==
  /\ task = "columns" /\ Careful /\ Admissible(c)
  /\ peek' = next
  /\ server' = ServerStep(server, c, next)
  /\ columns' = ColumnStep(columns, c, next)
  /\ UNCHANGED <<scan, split, hollow, task, conforming>>

\* How a unit of a select list nests.
ListNesting(c) == IF c = "(" THEN 1 ELSE IF c = ")" THEN -1 ELSE 0

\* The reader of a select list is handed a unit of one.
LEMMA ListUnits ==
  ASSUME Inv, NEW c, NEW next \in Kinds, ListUnit(c, next)
  PROVE  /\ c # "semicolon" /\ ~server.from /\ ~columns.done
         /\ server.mode = "normal" =>
              /\ c \in ListWords
              /\ c \in Several => server.parens # 0
              /\ c = "from" => ~server.word
         /\ server.mode = "single" => c # "\\" \/ conforming
         /\ columns \in ColumnState /\ server \in ServerState /\ ListInv /\ ~Ends(server, c)
<1>1. c \in SelectList /\ WellFormed(c) /\ Spelled(c) /\ task = "columns"
  BY DEF ListUnit, Admissible
<1>2. columns \in ColumnState /\ server \in ServerState /\ ListInv
  BY DEF ListUnit, Inv
<1>3. ~server.from /\ ~columns.done
  BY <1>1, <1>2 DEF WellFormed, ListInv
<1>4. c # "semicolon"
  BY <1>1 DEF SelectList, Letters, Blank, Delimiters, Comments, Brackets, Several
<1>5. server.mode = "single" => c # "\\" \/ conforming
  BY <1>1 DEF Spelled
<1>6. ASSUME server.mode = "normal"
      PROVE  c \in ListWords /\ (c \in Several => server.parens # 0) /\ (c = "from" => ~server.word)
  <2>1. /\ c \notin Comments \union Delimiters \union {"E"}
        /\ c \in Several => server.parens > 0
        /\ c = "from" => ~server.word
    BY <1>1, <1>6 DEF Spelled
  <2>2. c \in ListWords
    BY <1>1, <2>1 DEF SelectList, Letters, Blank, Delimiters, Comments, Brackets, Several, ListWords
  <2> QED
    BY <1>2, <2>1, <2>2 DEF ServerState
<1> QED
  BY <1>2, <1>3, <1>4, <1>5, <1>6 DEF Ends

\* The server's reading of ordinary text of a select list.
LEMMA ListText ==
  ASSUME task = "columns", NEW s \in ServerState, NEW next, s.mode = "normal", s.depth = 0, ~s.skip,
         s.resume = "no", NEW c \in ListWords, c \in Several => s.parens # 0, c = "from" => ~s.word
  PROVE  LET read == ServerText(s, c, next)
         IN /\ read \in ServerState
            /\ read.mode = IF c = "'" THEN "single" ELSE IF c = "dq" THEN "double" ELSE "normal"
            /\ read.depth = 0 /\ ~read.skip
            /\ read.parens = s.parens + ListNesting(c)
            /\ read.commas = s.commas + (IF c = "comma" /\ s.parens = 0 THEN 1 ELSE 0)
            /\ read.from <=> s.from \/ (c = "from" /\ s.parens = 0)
<1> DEFINE read == ServerText(s, c, next)
           more == s.parens + 1
           less == s.parens - 1
           another == s.commas + 1
<1>0. /\ more \in Int /\ less \in Int /\ another \in Nat /\ s.parens \in Int /\ s.commas \in Nat
      /\ s.from \in BOOLEAN
  BY DEF ServerState
<1>1. ASSUME c = "(" PROVE read = [s EXCEPT !.parens = more, !.word = FALSE]
  BY <1>1, Zenon DEF ServerText, Functions, Delimiters
<1>2. ASSUME c = ")" PROVE read = [s EXCEPT !.parens = less, !.word = FALSE]
  BY <1>2, Zenon DEF ServerText, Functions, Delimiters
<1>3. ASSUME c = "comma", s.parens = 0
      PROVE  read = [s EXCEPT !.commas = another, !.word = FALSE]
  BY <1>3, Zenon DEF ServerText, Functions, Delimiters
<1>4. ASSUME c = "from", s.parens = 0 PROVE read = [s EXCEPT !.from = TRUE]
  BY <1>4, Zenon DEF ServerText, Functions, Delimiters
<1>5. ASSUME c = "'" PROVE read = [s EXCEPT !.mode = "single"]
  BY <1>5, Zenon DEF ServerText, Functions, Delimiters
<1>6. ASSUME c = "dq" PROVE read = [s EXCEPT !.mode = "double"]
  BY <1>6, Zenon DEF ServerText, Functions, Delimiters
<1>7. ASSUME \/ c \in {"a", "blank", "nl", "\\"} \union Several
             \/ c \in {"comma", "from"} /\ s.parens # 0
      PROVE  read = [s EXCEPT !.word = c \in Letters]
  <2>1. c \notin Delimiters \union Functions \union {"E", "'", "?", "(", "call(", "?=call(", ")", "dq", "--", "/*"}
    BY <1>7 DEF Delimiters, Functions, Several
  <2>2. ~(c \in {"comma", "star"} /\ s.parens = 0) /\ ~(c = "from" /\ s.parens = 0)
    BY <1>7 DEF Several
  <2> QED
    BY <2>1, <2>2, Zenon DEF ServerText
<1> HIDE DEF read, more, less, another
<1>8. CASE c = "("
  <2>1. /\ read \in ServerState /\ read.mode = "normal" /\ read.depth = 0 /\ ~read.skip /\ read.parens = more
        /\ read.commas = s.commas /\ read.from = s.from
    BY <1>0, <1>1, <1>8 DEF ServerState
  <2> QED
    BY <1>0, <1>8, <2>1 DEF ListNesting, more, read
<1>9. CASE c = ")"
  <2>1. /\ read \in ServerState /\ read.mode = "normal" /\ read.depth = 0 /\ ~read.skip /\ read.parens = less
        /\ read.commas = s.commas /\ read.from = s.from
    BY <1>0, <1>2, <1>9 DEF ServerState
  <2> QED
    BY <1>0, <1>9, <2>1 DEF ListNesting, less, read
<1>10. CASE c = "comma" /\ s.parens = 0
  <2>1. /\ read \in ServerState /\ read.mode = "normal" /\ read.depth = 0 /\ ~read.skip /\ read.parens = s.parens
        /\ read.commas = another /\ read.from = s.from
    BY <1>0, <1>3, <1>10 DEF ServerState
  <2> QED
    BY <1>0, <1>10, <2>1 DEF ListNesting, another, read
<1>11. CASE c = "from" /\ s.parens = 0
  <2>1. /\ read \in ServerState /\ read.mode = "normal" /\ read.depth = 0 /\ ~read.skip /\ read.parens = s.parens
        /\ read.commas = s.commas /\ read.from
    BY <1>0, <1>4, <1>11 DEF ServerState
  <2> QED
    BY <1>0, <1>11, <2>1 DEF ListNesting, read
<1>12. CASE c \in {"'", "dq"}
  <2>1. /\ read \in ServerState /\ read.mode = (IF c = "'" THEN "single" ELSE "double")
        /\ read.depth = 0 /\ ~read.skip /\ read.parens = s.parens
        /\ read.commas = s.commas /\ read.from = s.from
    BY <1>0, <1>5, <1>6, <1>12 DEF ServerState, Modes
  <2> QED
    BY <1>0, <1>12, <2>1 DEF ListNesting, read
<1>13. CASE \/ c \in {"a", "blank", "nl", "\\"} \union Several
            \/ c \in {"comma", "from"} /\ s.parens # 0
  <2> DEFINE w == c \in Letters
  <2>1. w \in BOOLEAN /\ read = [s EXCEPT !.word = w]
    BY <1>7, <1>13
  <2> HIDE DEF w
  <2>2. /\ read \in ServerState /\ read.mode = "normal" /\ read.depth = 0 /\ ~read.skip /\ read.parens = s.parens
        /\ read.commas = s.commas /\ read.from = s.from
    BY <1>0, <2>1 DEF ServerState
  <2> QED
    BY <1>0, <1>13, <2>2 DEF ListNesting, read, Several
<1> QED
  BY <1>8, <1>9, <1>10, <1>11, <1>12, <1>13 DEF ListWords, Several

\* The server's reading of a unit of a select list.
LEMMA ListServer ==
  ASSUME Inv, NEW c, NEW next \in Kinds, ListUnit(c, next)
  PROVE  /\ server' \in ServerState /\ server'.resume = "no" /\ server'.depth = 0
         /\ server.skip =>
              /\ server'.mode = server.mode /\ ~server'.skip
              /\ server'.parens = server.parens /\ server'.commas = server.commas /\ server'.from = server.from
         /\ ~server.skip /\ server.mode # "normal" =>
              /\ server'.mode = IF c = Quote(server.mode) /\ next # c THEN "normal" ELSE server.mode
              /\ server'.skip <=> c = Quote(server.mode) /\ next = c
              /\ server'.parens = server.parens /\ server'.commas = server.commas /\ server'.from = server.from
         /\ ~server.skip /\ server.mode = "normal" =>
              /\ server'.mode = IF c = "'" THEN "single" ELSE IF c = "dq" THEN "double" ELSE "normal"
              /\ ~server'.skip
              /\ server'.parens = server.parens + ListNesting(c)
              /\ server'.commas = server.commas + (IF c = "comma" /\ server.parens = 0 THEN 1 ELSE 0)
              /\ server'.from <=> server.from \/ (c = "from" /\ server.parens = 0)
<1> DEFINE resume == CASE server.mode = "escape" /\ c = "'" /\ next # "'" -> "closed"
                       [] c = "nl" /\ server.resume # "no" -> "broken"
                       [] c = "blank" -> server.resume
                       [] OTHER -> "no"
           read == CASE server.skip -> [server EXCEPT !.skip = FALSE]
                     [] ~server.skip /\ server.mode = "normal" -> ServerText(server, c, next)
                     [] ~server.skip /\ server.mode # "normal" -> ServerInside(server, c, next)
           counted == task = "columns" \/ InArguments \/ c \in Functions \union Calls
           content == CASE server.mode # "normal" \/ c \in Blank -> server.content
                        [] server.mode = "normal" /\ c \in Comments ->
                             IF server.content = "none" THEN "comment" ELSE server.content
                        [] OTHER -> "command"
           resumes == IF server.skip THEN "no" ELSE resume
           parens == IF counted THEN read.parens ELSE server.parens
           arguments == IF Begins(server, c) THEN read.arguments + 1 ELSE read.arguments
           argument == (read.argument \/ Begins(server, c)) /\ ~Finishes(server, c)
<1>1. /\ server.mode = "normal" =>
           c \in ListWords /\ (c \in Several => server.parens # 0) /\ (c = "from" => ~server.word)
      /\ server.mode = "single" => c # "\\" \/ conforming
      /\ server \in ServerState /\ ListInv /\ ~Ends(server, c)
  BY ListUnits
<1>2. /\ server.mode \in {"normal", "single", "double"} /\ server.depth = 0 /\ server.resume = "no"
      /\ task = "columns"
  BY <1>1 DEF ListInv, ListUnit
<1>3. server' = [read EXCEPT !.resume = resumes, !.parens = parens, !.content = content,
                             !.arguments = arguments, !.argument = argument]
  BY <1>1, Zenon DEF ListUnit, ServerStep
<1>4. resumes = "no"
  <2>1. server.mode # "escape" /\ ~(c = "nl" /\ server.resume # "no")
    BY <1>2
  <2>2. resume = "no"
    BY <1>2, <2>1, Zenon
  <2> QED
    BY <2>2, Zenon
<1>5. content \in {"none", "comment", "command"}
  <2>1. CASE server.mode # "normal" \/ c \in Blank
    <3>1. content = server.content
      BY <2>1, Zenon DEF Blank, Comments
    <3> HIDE DEF content
    <3> QED
      BY <1>1, <3>1 DEF ServerState
  <2>2. CASE server.mode = "normal" /\ c \notin Blank
    <3>1. c \notin Comments
      BY <1>1, <2>2 DEF Comments, ListWords
    <3>2. content = "command"
      BY <2>2, <3>1, Zenon
    <3> HIDE DEF content
    <3> QED
      BY <3>2
  <2> QED
    BY <2>1, <2>2
<1>6. parens = read.parens
  BY <1>2, Zenon
<1>7. ASSUME read \in ServerState
      PROVE  /\ server' \in ServerState /\ server'.resume = "no" /\ server'.parens = read.parens
             /\ server'.mode = read.mode /\ server'.depth = read.depth /\ server'.skip = read.skip
             /\ server'.commas = read.commas /\ server'.from = read.from
  <2>1. read.parens \in Int /\ arguments \in Nat /\ argument \in BOOLEAN
    BY <1>7 DEF ServerState
  <2> HIDE DEF read, resumes, parens, content, arguments, argument
  <2> QED
    BY <1>3, <1>4, <1>5, <1>6, <1>7, <2>1 DEF ServerState
<1> HIDE DEF resume, content, counted, resumes, parens, arguments, argument
<1>8. CASE server.skip
  <2>1. read = [server EXCEPT !.skip = FALSE]
    BY <1>8, Zenon
  <2> HIDE DEF read
  <2>2. /\ read \in ServerState /\ read.mode = server.mode /\ read.depth = server.depth /\ ~read.skip
        /\ read.parens = server.parens /\ read.commas = server.commas /\ read.from = server.from
    BY <1>1, <2>1 DEF ServerState
  <2> QED
    BY <1>2, <1>7, <1>8, <2>2
<1>9. CASE ~server.skip /\ server.mode # "normal"
  <2>1. read = ServerInside(server, c, next)
    BY <1>9, Zenon
  <2>2. IF server.mode = "block" THEN server.depth > 0 ELSE server.depth = 0
    BY <1>2
  <2> HIDE DEF read
  <2>3. /\ read \in ServerState
        /\ read.mode = IF Closes(server.mode, server.depth, c, next) THEN "normal" ELSE server.mode
        /\ read.depth = DepthAfter(server.mode, server.depth, c)
        /\ read.skip <=> Consumes(server.mode, c, next)
        /\ read.parens = server.parens /\ read.commas = server.commas /\ read.from = server.from
    BY <1>1, <1>9, <2>1, <2>2, ServerInsideCases DEF SameRest
  <2>4. /\ server.mode \in Quoted /\ server.mode \notin {"line", "block"} \union Delimiters
        /\ c # "\\" \/ ~Backslashes(server.mode)
    BY <1>1, <1>2, <1>9 DEF Quoted, Delimiters, Backslashes
  <2>5. /\ Closes(server.mode, server.depth, c, next) <=> c = Quote(server.mode) /\ next # c
        /\ Consumes(server.mode, c, next) <=> c = Quote(server.mode) /\ next = c
        /\ DepthAfter(server.mode, server.depth, c) = server.depth
    BY <2>4, Zenon DEF Closes, Consumes, DepthAfter
  <2> QED
    BY <1>2, <1>7, <1>9, <2>3, <2>5
<1>10. CASE ~server.skip /\ server.mode = "normal"
  <2>1. read = ServerText(server, c, next)
    BY <1>10, Zenon
  <2> HIDE DEF read
  <2>2. /\ read \in ServerState
        /\ read.mode = IF c = "'" THEN "single" ELSE IF c = "dq" THEN "double" ELSE "normal"
        /\ read.depth = 0 /\ ~read.skip
        /\ read.parens = server.parens + ListNesting(c)
        /\ read.commas = server.commas + (IF c = "comma" /\ server.parens = 0 THEN 1 ELSE 0)
        /\ read.from <=> server.from \/ (c = "from" /\ server.parens = 0)
    BY <1>1, <1>2, <1>10, <2>1, ListText
  <2> QED
    BY <1>7, <1>10, <2>2
<1> QED
  BY <1>8, <1>9, <1>10

\* The list reader's own reading, up to the end of the list.
LEMMA ListReads ==
  ASSUME Inv, NEW c, NEW next \in Kinds, ListUnit(c, next)
  PROVE  /\ columns' \in ColumnState
         /\ columns.skip =>
              /\ columns'.mode = columns.mode /\ ~columns'.skip /\ ~columns'.done
              /\ columns'.parens = columns.parens /\ columns'.count = columns.count
         /\ ~columns.skip /\ columns.mode # "normal" =>
              /\ columns'.mode = IF c = Quote(columns.mode) /\ next # c THEN "normal" ELSE columns.mode
              /\ columns'.skip <=> c = Quote(columns.mode) /\ next = c
              /\ columns'.parens = columns.parens /\ columns'.count = columns.count /\ ~columns'.done
         /\ ~columns.skip /\ columns.mode = "normal" =>
              /\ columns'.mode = IF c = "'" THEN "single" ELSE IF c = "dq" THEN "double" ELSE "normal"
              /\ ~columns'.skip
              /\ columns'.parens = columns.parens + ListNesting(c)
              /\ columns'.count = columns.count + (IF c \in {"comma", "from"} /\ columns.parens = 0 THEN 1 ELSE 0)
              /\ columns'.done <=> c = "from" /\ columns.parens = 0
<1> DEFINE lit == c = "'"
           here == IF columns.start THEN [columns EXCEPT !.start = FALSE, !.literal = lit] ELSE columns
           more == columns.parens + 1
           less == columns.parens - 1
           another == columns.count + 1
<1>1. /\ server.mode = "normal" => c \in ListWords /\ (c \in Several => server.parens # 0)
      /\ columns \in ColumnState /\ server \in ServerState /\ ListInv /\ ~columns.done
  BY ListUnits
<1>2. /\ columns.mode = server.mode /\ (columns.skip <=> server.skip)
      /\ columns.parens = server.parens
  BY <1>1 DEF ListInv
<1>3. columns' = ColumnStep(columns, c, next)
  BY DEF ListUnit
<1>4. /\ more \in Int /\ less \in Int /\ another \in Nat /\ columns.parens \in Int /\ columns.count \in Nat
      /\ lit \in BOOLEAN /\ columns.start \in BOOLEAN /\ columns.done \in BOOLEAN /\ columns.skip \in BOOLEAN
  BY <1>1 DEF ColumnState
<1>5. CASE columns.skip
  <2>1. columns.mode # "normal"
    BY <1>1, <1>2, <1>5 DEF ListInv
  <2>2. columns' = SkipQuoted(columns, c, next)
    BY <1>1, <1>3, <1>5, <2>1, ZenonT(60) DEF ColumnStep
  <2>3. columns' = [columns EXCEPT !.skip = FALSE]
    BY <1>5, <2>2, Zenon DEF SkipQuoted
  <2>4. /\ columns' \in ColumnState /\ columns'.mode = columns.mode /\ ~columns'.skip /\ columns'.done = columns.done
        /\ columns'.parens = columns.parens /\ columns'.count = columns.count
    BY <1>1, <2>3 DEF ColumnState
  <2> QED
    BY <1>1, <1>5, <2>4
<1>6. CASE ~columns.skip /\ columns.mode # "normal"
  <2>1. columns' = SkipQuoted(columns, c, next)
    BY <1>1, <1>3, <1>6, ZenonT(60) DEF ColumnStep
  <2>2. CASE c = Quote(columns.mode) /\ next = c
    <3>1. columns' = [columns EXCEPT !.skip = TRUE]
      BY <1>6, <2>1, <2>2, Zenon DEF SkipQuoted, Quote
    <3>2. /\ columns' \in ColumnState /\ columns'.mode = columns.mode /\ columns'.skip /\ columns'.done = columns.done
          /\ columns'.parens = columns.parens /\ columns'.count = columns.count
      BY <1>1, <3>1 DEF ColumnState
    <3> QED
      BY <1>1, <1>6, <2>2, <3>2
  <2>3. CASE c = Quote(columns.mode) /\ next # c
    <3>1. columns' = [columns EXCEPT !.mode = "normal"]
      BY <1>6, <2>1, <2>3, Zenon DEF SkipQuoted, Quote
    <3>2. /\ columns' \in ColumnState /\ columns'.mode = "normal" /\ columns'.skip = columns.skip
          /\ columns'.done = columns.done
          /\ columns'.parens = columns.parens /\ columns'.count = columns.count
      BY <1>1, <3>1 DEF ColumnState, Modes
    <3> QED
      BY <1>1, <1>6, <2>3, <3>2
  <2>4. CASE c # Quote(columns.mode)
    <3>1. columns' = columns
      BY <1>6, <2>1, <2>4, Zenon DEF SkipQuoted, Quote
    <3> QED
      BY <1>1, <1>6, <2>4, <3>1
  <2> QED
    BY <2>2, <2>3, <2>4
<1>7. CASE ~columns.skip /\ columns.mode = "normal"
  <2>1. /\ here \in ColumnState /\ here.mode = "normal" /\ ~here.skip /\ ~here.done
        /\ here.parens = columns.parens /\ here.count = columns.count
    <3> HIDE DEF lit
    <3>1. CASE columns.start
      <4>1. here = [columns EXCEPT !.start = FALSE, !.literal = lit]
        BY <3>1, Zenon
      <4> HIDE DEF here
      <4>2. /\ here \in ColumnState /\ here.mode = columns.mode /\ here.skip = columns.skip
            /\ here.done = columns.done /\ here.parens = columns.parens /\ here.count = columns.count
        BY <1>1, <1>4, <4>1 DEF ColumnState
      <4> QED
        BY <1>1, <1>7, <4>2
    <3>2. CASE ~columns.start
      <4>1. here = columns
        BY <3>2, Zenon
      <4> HIDE DEF here
      <4> QED
        BY <1>1, <1>7, <4>1
    <3> QED
      BY <3>1, <3>2
  <2>0. c \in ListWords /\ (c \in Several => columns.parens # 0)
    BY <1>1, <1>2, <1>7
  <2>2. CASE columns.start /\ c \in Blank
    <3>0. c \notin {"from", "distinct", "array", "comma"}
      BY <2>2 DEF Blank
    <3>1. columns' = columns
      BY <1>1, <1>3, <1>7, <2>2, <3>0, ZenonT(60) DEF ColumnStep
    <3> QED
      BY <1>1, <1>4, <1>7, <2>2, <3>1 DEF ListNesting, Blank
  <2>6. ~("from" \in Blank) /\ ~("comma" \in Blank)
    BY DEF Blank
  <2>3. CASE c = "from" /\ columns.parens = 0
    <3>1. columns' = [here EXCEPT !.count = here.count + 1, !.done = TRUE]
      BY <1>1, <1>3, <1>7, <2>3, <2>6, ZenonT(60) DEF ColumnStep
    <3>2. columns' = [here EXCEPT !.count = another, !.done = TRUE]
      BY <2>1, <3>1, Zenon
    <3> HIDE DEF here, another
    <3>3. /\ columns' \in ColumnState /\ columns'.mode = "normal" /\ ~columns'.skip /\ columns'.done
          /\ columns'.parens = columns.parens /\ columns'.count = another
      BY <1>4, <2>1, <3>2 DEF ColumnState
    <3> QED
      BY <1>4, <1>7, <2>3, <3>3 DEF ListNesting, another
  <2>4. CASE c = "comma" /\ columns.parens = 0
    <3>1. columns' = [here EXCEPT !.count = here.count + 1, !.start = TRUE, !.literal = FALSE]
      BY <1>1, <1>3, <1>7, <2>4, <2>6, ZenonT(60) DEF ColumnStep
    <3>2. columns' = [here EXCEPT !.count = another, !.start = TRUE, !.literal = FALSE]
      BY <2>1, <3>1, Zenon
    <3> HIDE DEF here, another
    <3>3. /\ columns' \in ColumnState /\ columns'.mode = "normal" /\ ~columns'.skip /\ ~columns'.done
          /\ columns'.parens = columns.parens /\ columns'.count = another
      BY <1>4, <2>1, <3>2 DEF ColumnState
    <3> QED
      BY <1>4, <1>7, <2>4, <3>3 DEF ListNesting, another
  <2>5. CASE ~(columns.start /\ c \in Blank) /\ ~(c \in {"comma", "from"} /\ columns.parens = 0)
    <3>0. ~(c \in {"from", "distinct", "array", "comma"} /\ columns.parens = 0)
      BY <2>0, <2>5 DEF Several
    <3>1. columns' = SkipSelectToken(here, c)
      BY <1>1, <1>3, <1>7, <2>5, <3>0, ZenonT(60) DEF ColumnStep
    <3>2. ASSUME c = "'" PROVE columns' = [here EXCEPT !.mode = "single"]
      BY <3>1, <3>2, Zenon DEF SkipSelectToken
    <3>3. ASSUME c = "dq" PROVE columns' = [here EXCEPT !.mode = "double"]
      BY <3>1, <3>3, Zenon DEF SkipSelectToken
    <3>4. ASSUME c = "(" PROVE columns' = [here EXCEPT !.parens = more]
      BY <2>1, <3>1, <3>4, Zenon DEF SkipSelectToken
    <3>5. ASSUME c = ")" PROVE columns' = [here EXCEPT !.parens = less]
      BY <2>1, <3>1, <3>5, Zenon DEF SkipSelectToken
    <3>6. ASSUME c \notin {"'", "dq", "(", ")"} PROVE columns' = here
      BY <3>1, <3>6, Zenon DEF SkipSelectToken
    <3> HIDE DEF here, more, less
    <3>7. CASE c \in {"'", "dq"}
      <4>1. /\ columns' \in ColumnState /\ columns'.mode = (IF c = "'" THEN "single" ELSE "double")
            /\ ~columns'.skip /\ ~columns'.done
            /\ columns'.parens = columns.parens /\ columns'.count = columns.count
        BY <2>1, <3>2, <3>3, <3>7 DEF ColumnState, Modes
      <4> QED
        BY <1>4, <1>7, <3>7, <4>1 DEF ListNesting
    <3>8. CASE c = "("
      <4>1. /\ columns' \in ColumnState /\ columns'.mode = "normal" /\ ~columns'.skip /\ ~columns'.done
            /\ columns'.parens = more /\ columns'.count = columns.count
        BY <1>4, <2>1, <3>4, <3>8 DEF ColumnState
      <4> QED
        BY <1>4, <1>7, <3>8, <4>1 DEF ListNesting, more
    <3>9. CASE c = ")"
      <4>1. /\ columns' \in ColumnState /\ columns'.mode = "normal" /\ ~columns'.skip /\ ~columns'.done
            /\ columns'.parens = less /\ columns'.count = columns.count
        BY <1>4, <2>1, <3>5, <3>9 DEF ColumnState
      <4> QED
        BY <1>4, <1>7, <3>9, <4>1 DEF ListNesting, less
    <3>10. CASE c \notin {"'", "dq", "(", ")"}
      <4>1. /\ columns' \in ColumnState /\ columns'.mode = "normal" /\ ~columns'.skip /\ ~columns'.done
            /\ columns'.parens = columns.parens /\ columns'.count = columns.count
        BY <2>1, <3>6, <3>10
      <4> QED
        BY <1>4, <1>7, <2>5, <3>10, <4>1 DEF ListNesting
    <3> QED
      BY <3>7, <3>8, <3>9, <3>10
  <2> QED
    BY <2>2, <2>3, <2>4, <2>5
<1> QED
  BY <1>4, <1>5, <1>6, <1>7

\* Server and reader stay together until the list ends.
LEMMA ListKeeps ==
  ASSUME Inv, NEW c, NEW next \in Kinds, ListUnit(c, next)
  PROVE  Inv'
<1>1. /\ columns \in ColumnState /\ server \in ServerState /\ ListInv
      /\ ~server.from /\ ~columns.done
  BY ListUnits
<1>2. server' \in ServerState /\ columns' \in ColumnState
  BY ListServer, ListReads
<1>3. /\ server.parens \in Int /\ server.commas \in Nat /\ server.from \in BOOLEAN
      /\ columns.parens \in Int /\ columns.count \in Nat /\ ListNesting(c) \in Int
  BY <1>1 DEF ServerState, ColumnState, ListNesting
<1>4. /\ server'.mode \in {"normal", "single", "double"} /\ server'.depth = 0 /\ server'.resume = "no"
      /\ server'.skip => server'.mode # "normal"
  <2>1. server'.depth = 0 /\ server'.resume = "no"
    BY ListServer
  <2>2. CASE server.skip
    <3>1. server'.mode = server.mode /\ ~server'.skip
      BY <2>2, ListServer
    <3> QED
      BY <1>1, <2>1, <3>1 DEF ListInv
  <2>3. CASE ~server.skip /\ server.mode # "normal"
    <3>1. /\ server'.mode = IF c = Quote(server.mode) /\ next # c THEN "normal" ELSE server.mode
          /\ server'.skip <=> c = Quote(server.mode) /\ next = c
      BY <2>3, ListServer
    <3> QED
      BY <1>1, <2>1, <2>3, <3>1 DEF ListInv
  <2>4. CASE ~server.skip /\ server.mode = "normal"
    <3>1. /\ server'.mode = IF c = "'" THEN "single" ELSE IF c = "dq" THEN "double" ELSE "normal"
          /\ ~server'.skip
      BY <2>4, ListServer
    <3> QED
      BY <2>1, <3>1
  <2> QED
    BY <2>2, <2>3, <2>4
<1>5. /\ server'.from <=> columns'.done
      /\ ~columns'.done =>
           /\ columns'.mode = server'.mode /\ (columns'.skip <=> server'.skip)
           /\ columns'.parens = server'.parens
      /\ columns'.count = server'.commas + (IF server'.from THEN 1 ELSE 0)
  <2>1. /\ ~server.from /\ columns.mode = server.mode /\ (columns.skip <=> server.skip)
        /\ columns.parens = server.parens /\ columns.count = server.commas
    BY <1>1, <1>3 DEF ListInv
  <2>2. CASE server.skip
    <3>1. /\ server'.mode = server.mode /\ ~server'.skip
          /\ server'.parens = server.parens /\ server'.commas = server.commas /\ server'.from = server.from
      BY <2>2, ListServer
    <3>2. /\ columns'.mode = columns.mode /\ ~columns'.skip /\ ~columns'.done
          /\ columns'.parens = columns.parens /\ columns'.count = columns.count
      BY <2>1, <2>2, ListReads
    <3> QED
      BY <1>3, <2>1, <3>1, <3>2
  <2>3. CASE ~server.skip /\ server.mode # "normal"
    <3>1. /\ server'.mode = IF c = Quote(server.mode) /\ next # c THEN "normal" ELSE server.mode
          /\ server'.skip <=> c = Quote(server.mode) /\ next = c
          /\ server'.parens = server.parens /\ server'.commas = server.commas /\ server'.from = server.from
      BY <2>3, ListServer
    <3>2. /\ columns'.mode = IF c = Quote(columns.mode) /\ next # c THEN "normal" ELSE columns.mode
          /\ columns'.skip <=> c = Quote(columns.mode) /\ next = c
          /\ columns'.parens = columns.parens /\ columns'.count = columns.count /\ ~columns'.done
      BY <2>1, <2>3, ListReads
    <3> QED
      BY <1>3, <2>1, <3>1, <3>2
  <2>4. CASE ~server.skip /\ server.mode = "normal"
    <3>1. /\ server'.mode = IF c = "'" THEN "single" ELSE IF c = "dq" THEN "double" ELSE "normal"
          /\ ~server'.skip
          /\ server'.parens = server.parens + ListNesting(c)
          /\ server'.commas = server.commas + (IF c = "comma" /\ server.parens = 0 THEN 1 ELSE 0)
          /\ server'.from <=> server.from \/ (c = "from" /\ server.parens = 0)
      BY <2>4, ListServer
    <3>2. /\ columns'.mode = IF c = "'" THEN "single" ELSE IF c = "dq" THEN "double" ELSE "normal"
          /\ ~columns'.skip
          /\ columns'.parens = columns.parens + ListNesting(c)
          /\ columns'.count = columns.count + (IF c \in {"comma", "from"} /\ columns.parens = 0 THEN 1 ELSE 0)
          /\ columns'.done <=> c = "from" /\ columns.parens = 0
      BY <2>1, <2>4, ListReads
    <3> QED
      BY <1>3, <2>1, <3>1, <3>2
  <2> QED
    BY <2>2, <2>3, <2>4
<1>6. ListInv'
  BY <1>4, <1>5 DEF ListInv
<1>7. task' = "columns" /\ conforming' = conforming /\ peek' = next /\ hollow' = hollow
  BY DEF ListUnit
<1> QED
  BY <1>2, <1>6, <1>7 DEF Inv

----------------------------------------------------------------------------
(* The theorems.                                                           *)

\* Whatever is read, the readers start a new text from nothing.
LEMMA TextBegins ==
  ASSUME task \in {"statement", "columns"}, conforming \in BOOLEAN, peek \in Kinds,
         NothingOpen, columns = NoColumns, Careful => ~hollow
  PROVE  Inv
<1>1. TypeOK /\ StatementInv
  BY Beginning
<1>2. columns \in ColumnState
  BY DEF NoColumns, ColumnState, Modes
<1>3. ListInv
  BY DEF ListInv, NoColumns, NothingOpen, NoServer
<1> QED
  BY <1>1, <1>2, <1>3 DEF Inv, TypeOK

\* The readers stay together over any text: the invariant holds in every state
\* (query_parser.c:285-486, 634-1166, 1315-1618).
THEOREM ParserInvariance == Spec => []Inv
<1>1. Init => Inv
  <2>1. SUFFICES ASSUME Init PROVE Inv
    OBVIOUS
  <2>2. /\ task \in {"statement", "columns"} /\ conforming \in BOOLEAN /\ peek \in Kinds
        /\ NothingOpen /\ columns = NoColumns /\ hollow = FALSE
    BY <2>1 DEF Init, NothingOpen
  <2> QED
    BY <2>2, TextBegins
<1>2. Inv /\ [Next]_vars => Inv'
  <2>1. SUFFICES ASSUME Inv, [Next]_vars PROVE Inv'
    OBVIOUS
  <2>2. CASE UNCHANGED vars
    <3>1. /\ task' = task /\ conforming' = conforming /\ peek' = peek /\ scan' = scan /\ split' = split
          /\ columns' = columns /\ server' = server /\ hollow' = hollow
      BY <2>2 DEF vars
    <3> QED
      BY <2>1, <3>1 DEF Inv, TypeOK, ListInv, StatementInv, ServerInv, SplitInv, ScanInv, FramesInv,
                        CallInv, ParensInv, MarkersInv, ArgumentsInv
  <2>3. CASE ReadUnit
    <3>1. PICK c \in Statement \union SelectList, next \in Kinds :
            /\ Admissible(c)
            /\ peek' = next
            /\ server' = ServerStep(server, c, next)
            /\ IF task = "columns"
               THEN columns' = ColumnStep(columns, c, next) /\ UNCHANGED <<scan, split, hollow>>
               ELSE /\ split' = SplitStep(split, c, next)
                    /\ scan' = IF Ends(split, c) THEN NoScan ELSE ScanStep(scan, c, next)
                    /\ hollow' = (hollow \/ (Ends(split, c) /\ EndsHollow))
                    /\ UNCHANGED columns
            /\ UNCHANGED <<task, conforming>>
      BY <2>3, Zenon DEF ReadUnit
    <3>2. CASE task = "columns" /\ Careful
      <4>1. ListUnit(c, next)
        BY <3>1, <3>2 DEF ListUnit
      <4> QED
        BY <2>1, <4>1, ListKeeps
    <3>3. CASE task = "statement" /\ Careful
      <4>1. StatementUnit(c, next)
        BY <3>1, <3>3 DEF StatementUnit
      <4> QED
        BY <2>1, <4>1, StatementReads, StatementEnds
    <3>4. CASE ~Careful
      <4>1. task' = task /\ conforming' = conforming /\ peek' \in Kinds
        BY <3>1
      <4> QED
        BY <2>1, <3>4, <4>1 DEF Inv
    <3> QED
      BY <2>1, <3>2, <3>3, <3>4 DEF Inv
  <2>4. CASE NextText
    <3>1. Careful => ~hollow'
      <4>1. ASSUME Careful, peek = "end", task = "statement", EndsHollow, ~OnlyComment PROVE FALSE
        <5>1. TypeOK /\ SplitInv
          BY <2>1, <4>1 DEF Inv, StatementInv
        <5> QED
          BY <4>1, <5>1 DEF EndsHollow, OnlyComment, Kept, SplitInv, TypeOK, ServerState
      <4>2. hollow' = (hollow \/ (peek = "end" /\ task = "statement" /\ EndsHollow /\ (Careful => ~OnlyComment)))
        BY <2>4, Zenon DEF NextText
      <4> QED
        BY <2>1, <4>1, <4>2 DEF Inv
    <3>2. /\ task' \in {"statement", "columns"} /\ conforming' \in BOOLEAN /\ peek' \in Kinds
          /\ scan' = NoScan /\ split' = NoSplit /\ columns' = NoColumns /\ server' = NoServer
      BY <2>4, Zenon DEF NextText
    <3>3. NothingOpen'
      BY <3>2 DEF NothingOpen
    <3>4. (NothingOpen => TypeOK /\ StatementInv)'
      BY Beginning, PTL
    <3>5. columns' \in ColumnState
      BY <3>2 DEF NoColumns, ColumnState, Modes
    <3>6. ListInv'
      BY <3>2 DEF ListInv, NoColumns, NoServer
    <3> QED
      BY <3>1, <3>2, <3>3, <3>4, <3>5, <3>6 DEF Inv, TypeOK
  <2> QED
    BY <2>1, <2>2, <2>3, <2>4 DEF Next
<1> QED
  BY <1>1, <1>2, PTL DEF Spec

\* Splitter, scanner and server agree about literals, identifiers and comments in any text
\* that avoids the spellings they are known to take differently (query_parser.c:973-1166,
\* 1457-1618).
THEOREM ReadersAgree == ASSUME Careful PROVE Spec => []LexersAgree
<1>1. Inv => LexersAgree
  BY DEF Inv, StatementInv, SplitInv, ScanInv, LexersAgree, Aligned
<1> QED
  BY <1>1, ParserInvariance, PTL

\* Arguments are taken apart at the right depth, and only outside literals
\* (query_parser.c:356-453, 634-730).
THEOREM ArgumentsWhole == ASSUME Careful PROVE Spec => []ArgumentsAreWhole
<1>1. Inv => ArgumentsAreWhole
  BY DEF Inv, StatementInv, ScanInv, ParensInv, ArgumentsInv, ArgumentsAreWhole, Aligned, TypeOK, ScanState
<1> QED
  BY <1>1, ParserInvariance, PTL

\* The server is sent as many values as the statement it gets has parameters
\* (query_parser.c:285-311, 459-486).
THEOREM MarkersArrive == ASSUME Careful PROVE Spec => []MarkersReachServer
<1>1. Inv => MarkersReachServer
  <2>1. SUFFICES ASSUME Inv, task = "statement", Aligned, ~InEscape, scan.mode = "normal"
                 PROVE  scan.count = server.markers /\ scan.out = 1..scan.count
    BY DEF MarkersReachServer
  <2>2. MarkersInv /\ scan \in ScanState
    BY <2>1 DEF Inv, StatementInv, TypeOK
  <2>3. scan.stack = <<>>
    BY <2>1 DEF InEscape
  <2>4. Mentioned(scan) = scan.out
    <3>1. \A x : x \in Mentioned(scan) <=> x \in scan.out
      BY <2>2, <2>3, MentionedMember
    <3> QED
      BY <3>1
  <2> QED
    BY <2>2, <2>4 DEF MarkersInv
<1> QED
  BY <1>1, ParserInvariance, PTL

\* A fragment that is kept for execution has a command in it
\* (query_parser.c:1407-1455).
THEOREM FragmentsSound == ASSUME Careful PROVE Spec => []FragmentsAreCommands
<1>1. Inv => FragmentsAreCommands
  BY DEF Inv, FragmentsAreCommands
<1> QED
  BY <1>1, ParserInvariance, PTL

\* The overrides of a select list have the numbers of the server's columns, in a list that
\* avoids what its reader does not know (query_parser.c:1315-1405, results.c:1972).
THEOREM ColumnsMatch == ASSUME Careful PROVE Spec => []OverridesMatchColumns
<1>1. Inv => OverridesMatchColumns
  BY DEF Inv, ListInv, OverridesMatchColumns
<1> QED
  BY <1>1, ParserInvariance, PTL

=============================================================================
