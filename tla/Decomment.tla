------------------------------ MODULE Decomment ------------------------------
(***************************************************************************)
(* decomment of lab 1: main (decomment.c) reads C text from getchar one     *)
(* character at a time and writes it with each comment replaced by a space. *)
(***************************************************************************)
EXTENDS Integers, Sequences

CONSTANTS Others,    \* characters without a meaning of their own
          MaxLen     \* bound: characters before the end of the file

Marks == {"/", "*", "\"", "'", "\\", "\n"}

VARIABLES input,               \* what getchar has returned
          out,                 \* what putchar was given
          state, line_cur, line_com,
          status               \* "running", or what main returned

vars == <<input, out, state, line_cur, line_com, status>>

Init ==
  /\ input = <<>> /\ out = <<>>
  /\ state = "NORMAL" /\ line_cur = 1 /\ line_com = -1
  /\ status = "running"

Take(c) ==
  /\ status = "running" /\ Len(input) < MaxLen
  /\ input' = Append(input, c)
  /\ line_cur' = IF c = "\n" THEN line_cur + 1 ELSE line_cur
  /\ UNCHANGED status

Put(s) == out' = out \o s

\* The state after a character of the code that does not begin with a slash.
Opened(c) == CASE c = "\"" -> "IN_STRING" [] c = "'" -> "IN_CHAR" [] OTHER -> "NORMAL"

Normal(c) ==
  /\ state = "NORMAL" /\ Take(c)
  /\ IF c = "/" THEN state' = "SLASH" /\ Put(<<>>) ELSE state' = Opened(c) /\ Put(<<c>>)
  /\ UNCHANGED line_com

\* MUTANT of CommentLine: only the first comment's line is recorded.
CommentLineFirst == IF line_com = -1 THEN line_cur ELSE line_com

CommentLine == line_cur

Slash(c) ==
  /\ state = "SLASH" /\ Take(c)
  /\ CASE c = "*" -> state' = "IN_BLOCK_COMMENT" /\ Put(<<" ">>) /\ line_com' = CommentLine
       [] c = "/" -> state' = "IN_LINE_COMMENT" /\ Put(<<" ">>) /\ UNCHANGED line_com
       [] OTHER -> state' = Opened(c) /\ Put(<<"/", c>>) /\ UNCHANGED line_com

Newline(c) == IF c = "\n" THEN <<c>> ELSE <<>>

BlockComment(c) ==
  /\ state = "IN_BLOCK_COMMENT" /\ Take(c)
  /\ state' = IF c = "*" THEN "BLOCK_COMMENT_STAR" ELSE state
  /\ Put(Newline(c))
  /\ UNCHANGED line_com

\* MUTANT of AfterStar: a second star no longer announces the end.
AfterStarOnce(c) == IF c = "/" THEN "NORMAL" ELSE "IN_BLOCK_COMMENT"

AfterStar(c) == CASE c = "/" -> "NORMAL" [] c = "*" -> state [] OTHER -> "IN_BLOCK_COMMENT"

StarNewline(c) == Newline(c)

BlockCommentStar(c) ==
  /\ state = "BLOCK_COMMENT_STAR" /\ Take(c)
  /\ state' = AfterStar(c) /\ Put(StarNewline(c))
  /\ UNCHANGED line_com

LineComment(c) ==
  /\ state = "IN_LINE_COMMENT" /\ Take(c)
  /\ state' = IF c = "\n" THEN "NORMAL" ELSE state
  /\ Put(Newline(c))
  /\ UNCHANGED line_com

\* IN_STRING and IN_CHAR, which quote ends and escape continues.
Quoted(inside, quote, escape, c) ==
  /\ state = inside /\ Take(c) /\ Put(<<c>>)
  /\ state' = CASE c = quote -> "NORMAL" [] c = "\\" -> escape [] OTHER -> state
  /\ UNCHANGED line_com

String(c) == Quoted("IN_STRING", "\"", "STRING_ESCAPE", c)
Char(c)   == Quoted("IN_CHAR", "'", "CHAR_ESCAPE", c)

Escape(c) ==
  /\ state \in {"STRING_ESCAPE", "CHAR_ESCAPE"} /\ Take(c) /\ Put(<<c>>)
  /\ state' = IF state = "STRING_ESCAPE" THEN "IN_STRING" ELSE "IN_CHAR"
  /\ UNCHANGED line_com

EndOfFile ==
  /\ status = "running"
  /\ Put(IF state = "SLASH" THEN <<"/">> ELSE <<>>)
  /\ status' = IF state \in {"IN_BLOCK_COMMENT", "BLOCK_COMMENT_STAR"}
               THEN "EXIT_FAILURE" ELSE "EXIT_SUCCESS"
  /\ UNCHANGED <<input, state, line_cur, line_com>>

Next ==
  \/ EndOfFile
  \/ \E c \in Marks \cup Others :
       Normal(c) \/ Slash(c) \/ BlockComment(c) \/ BlockCommentStar(c)
         \/ LineComment(c) \/ String(c) \/ Char(c) \/ Escape(c)

Spec == Init /\ [][Next]_vars

-----------------------------------------------------------------------------
(* Properties *)

At(s, i, w) == i + Len(w) - 1 <= Len(s) /\ SubSeq(s, i, i + Len(w) - 1) = w

\* The place of w in s, from i on, or the end of s.
Find(s, i, w) ==
  LET places == {j \in i .. Len(s) : At(s, j, w)}
  IN IF places = {} THEN Len(s) + 1 ELSE CHOOSE j \in places : \A k \in places : j <= k

\* The quote that closes the one at i, or the end of s.
ClosingQuote(s, i) ==
  LET closing[j \in i + 1 .. Len(s) + 2] ==
        IF j > Len(s) \/ s[j] = s[i] THEN j ELSE closing[j + IF s[j] = "\\" THEN 2 ELSE 1]
  IN closing[i + 1]

Comment(s, i) == At(s, i, <<"/", "*">>) \/ At(s, i, <<"/", "/">>)
Unterminated(s, i) == At(s, i, <<"/", "*">>) /\ Find(s, i + 2, <<"*", "/">>) > Len(s)

\* Where what begins at i in code ends: a comment, a string, or one character.
After(s, i) ==
  CASE Unterminated(s, i) -> Len(s) + 1
    [] At(s, i, <<"/", "*">>) /\ ~ Unterminated(s, i) -> Find(s, i + 2, <<"*", "/">>) + 2
    [] At(s, i, <<"/", "/">>) -> Find(s, i + 2, <<"\n">>)
    [] s[i] \in {"\"", "'"} -> IF ClosingQuote(s, i) < Len(s) THEN ClosingQuote(s, i) + 1
                               ELSE Len(s) + 1
    [] OTHER -> i + 1

Newlines(s) == SelectSeq(s, LAMBDA c : c = "\n")

\* The positions at which such a piece of s begins.
Begins(s) ==
  LET from[i \in 1 .. Len(s) + 1] == IF i > Len(s) THEN {} ELSE {i} \cup from[After(s, i)]
  IN from[1]

\* s as readme.md has it: for each comment a space and its newlines.
Replaced(s) ==
  LET from[i \in 1 .. Len(s) + 1] ==
        LET piece == SubSeq(s, i, After(s, i) - 1)
        IN IF i > Len(s) THEN <<>>
           ELSE (IF ~ Comment(s, i) THEN piece ELSE <<" ">> \o Newlines(piece))
                  \o from[After(s, i)]
  IN from[1]

\* A line of the output has the number it had in the input, after every
\* character read: no newline of a comment is lost or written twice (readme.md 2).
LinesKept == Len(Newlines(out)) = line_cur - 1 /\ line_cur = Len(Newlines(input)) + 1

\* The output is the input with each comment, and nothing that looks like one
\* inside of a string or after an escape, replaced (readme.md 1 to 7).
Decommented == LinesKept /\ (status # "running" => out = Replaced(input))

\* Exactly a comment left open is an error, and the line reported is the one it
\* begins on, whatever comments came before (readme.md 8 and 9).
ErrorLine ==
  status # "running" =>
    LET open == {i \in Begins(input) : Unterminated(input, i)} IN
    /\ (status = "EXIT_FAILURE") <=> (open # {})
    /\ \A i \in open : line_com = Len(Newlines(SubSeq(input, 1, i))) + 1
=============================================================================
