------------------------------- MODULE LexSyn -------------------------------
(***************************************************************************)
(* How the shell of lab 4 reads a line: lex_line (lexsyn.c), one character *)
(* at a time, then syntax_check, and what fork_exec and                    *)
(* iter_pipe_fork_exec (execute.c) make of the tokens.                     *)
(***************************************************************************)
EXTENDS Integers, Sequences, SequencesExt

CONSTANTS Letters,     \* other characters without a meaning of their own
          Specials,    \* those of | & > < that are typed
          Quotes,      \* those of the two quotes that are typed
          MaxLine      \* bound: characters before the newline

VARIABLES line,     \* what has been read of c_line
          state, value, tokens,   \* the locals of lex_line and oTokens
          result    \* what lex_line returned, or "none"

vars == <<line, state, value, tokens, result>>

TokenType(c) == CASE c = "|" -> "PIPE" [] c = "&" -> "BG"
                  [] c = ">" -> "REDOUT" [] c = "<" -> "REDIN"

Special(c) == [type |-> TokenType(c), value |-> <<>>]
Word(v)    == [type |-> "WORD", value |-> v]
QuoteState(c) == IF c = "\"" THEN "IN_DQUOTE" ELSE "IN_QUOTE"

Init ==
  /\ line = <<>>
  /\ state = "START" /\ value = <<>> /\ tokens = <<>>
  /\ result = "none"

-----------------------------------------------------------------------------
(* lex_line: one turn of its loop for each state *)

Typed == Letters \cup Specials \cup Quotes \cup {" ", "\n"}

Take(c) ==
  /\ result = "none"
  /\ c = "\n" \/ Len(line) < MaxLine
  /\ line' = Append(line, c)

\* MUTANT of WordEnds: an empty value makes no token.
WordEndsNonempty == IF value = <<>> THEN tokens ELSE Append(tokens, Word(value))

\* The WORD token that a separator ends.
WordEnds == Append(tokens, Word(value))

Start(c) ==
  /\ state = "START" /\ Take(c)
  /\ CASE c = "\n" -> result' = "LEX_SUCCESS" /\ UNCHANGED <<state, value, tokens>>
       [] c = " " -> UNCHANGED <<state, value, tokens, result>>
       [] c \in Specials -> /\ tokens' = Append(tokens, Special(c))
                            /\ UNCHANGED <<state, value, result>>
       [] c \in Quotes -> state' = QuoteState(c) /\ UNCHANGED <<value, tokens, result>>
       [] OTHER -> /\ value' = Append(value, c) /\ state' = "IN_WORD"
                   /\ UNCHANGED <<tokens, result>>

InWord(c) ==
  /\ state = "IN_WORD" /\ Take(c)
  /\ CASE c \in Quotes -> state' = QuoteState(c) /\ UNCHANGED <<value, tokens, result>>
       [] c \in Letters -> value' = Append(value, c) /\ UNCHANGED <<state, tokens, result>>
       [] OTHER -> /\ tokens' = IF c \in Specials THEN Append(WordEnds, Special(c))
                                ELSE WordEnds
                   /\ value' = <<>>
                   /\ IF c = "\n" THEN result' = "LEX_SUCCESS" /\ UNCHANGED state
                      ELSE state' = "START" /\ UNCHANGED result

Closes(c) == QuoteState(c) = state /\ c \in Quotes

InQuotes(c) ==
  /\ state \in {"IN_DQUOTE", "IN_QUOTE"} /\ Take(c)
  /\ CASE Closes(c) -> state' = "IN_WORD" /\ UNCHANGED <<value, tokens, result>>
       [] c = "\n" -> result' = "LEX_QERROR" /\ UNCHANGED <<state, value, tokens>>
       [] OTHER -> value' = Append(value, c) /\ UNCHANGED <<state, tokens, result>>

\* The next line; lex_line starts anew.
NextLine ==
  /\ result # "none"
  /\ line' = <<>>
  /\ state' = "START" /\ value' = <<>> /\ tokens' = <<>>
  /\ result' = "none"

Next == NextLine \/ \E c \in Typed : Start(c) \/ InWord(c) \/ InQuotes(c)

Spec == Init /\ [][Next]_vars

-----------------------------------------------------------------------------
(* syntax_check, of the tokens ts *)

Before(ts, i, type) == \E j \in 2 .. i - 1 : ts[j].type = type

\* MUTANT of NoWordAfter: a special token will do.
NoWordAfterEnd(ts, i) == i = Len(ts)

NoWordAfter(ts, i) == i = Len(ts) \/ ts[i + 1].type # "WORD"

\* ri_exist or p_exist.
MultipleIn(ts, i) == Before(ts, i, "REDIN") \/ Before(ts, i, "PIPE")

\* What the turn of the loop for token i finds wrong.
Fault(ts, i) ==
  LET type == ts[i].type IN
  CASE i = 1 -> IF type = "WORD" THEN "none" ELSE "NOCMD"
    [] i > 1 /\ type = "PIPE" -> IF Before(ts, i, "REDOUT") THEN "MULTREDOUT"
                                 ELSE IF NoWordAfter(ts, i) THEN "NOCMD" ELSE "none"
    [] i > 1 /\ type = "BG" -> IF i # Len(ts) THEN "INVALIDBG" ELSE "none"
    [] i > 1 /\ type = "REDIN" -> IF MultipleIn(ts, i) THEN "MULTREDIN"
                                  ELSE IF NoWordAfter(ts, i) THEN "NODESTIN" ELSE "none"
    [] i > 1 /\ type = "REDOUT" -> IF Before(ts, i, "REDOUT") THEN "MULTREDOUT"
                                   ELSE IF NoWordAfter(ts, i) THEN "NODESTOUT" ELSE "none"
    [] OTHER -> "none"

syntax_check(ts) ==
  LET faults == {i \in 1 .. Len(ts) : Fault(ts, i) # "none"} IN
  IF faults = {} THEN "SUCCESS" ELSE Fault(ts, CHOOSE i \in faults : \A j \in faults : i <= j)

-----------------------------------------------------------------------------
(* What is executed *)

check_bg(ts) == \E i \in 1 .. Len(ts) : ts[i].type = "BG"
PipesIn(ts) == {i \in 1 .. Len(ts) : ts[i].type = "PIPE"}

\* total_tokens--
Trimmed(ts) == IF check_bg(ts) THEN SubSeq(ts, 1, Len(ts) - 1) ELSE ts

\* The segments of a pipeline, with one word for everything between two pipes.
SegmentsOf(ts) ==
  LET Add(segs, t) == IF t.type = "PIPE" THEN Append(segs, <<>>)
                      ELSE [segs EXCEPT ![Len(segs)] = Append(@, t)]
  IN FoldLeft(Add, <<<<>>>>, Trimmed(ts))

\* build_command_partial: words are arguments or, after < or >, file names.
CommandOf(seg) ==
  LET Add(c, t) ==
        CASE t.type = "REDIN"  -> [c EXCEPT !.redin = TRUE]
          [] t.type = "REDOUT" -> [c EXCEPT !.redout = TRUE]
          [] t.type = "WORD" /\ c.redin -> [c EXCEPT !.redin = FALSE, !.stdin = @ + 1]
          [] t.type = "WORD" /\ ~ c.redin /\ c.redout
               -> [c EXCEPT !.redout = FALSE, !.stdout = @ + 1]
          [] t.type = "WORD" /\ ~ c.redin /\ ~ c.redout
               -> [c EXCEPT !.args = Append(@, t.value)]
          [] OTHER -> c
  IN FoldLeft(Add, [redin |-> FALSE, redout |-> FALSE, stdin |-> 0, stdout |-> 0,
                    args |-> <<>>], seg)

-----------------------------------------------------------------------------
(* Properties *)

Chars == SubSeq(line, 1, Len(line) - 1)     \* the line without its newline

\* The quote that position i of a line lies in, by the quotes before it.
QuoteAt(s) ==
  LET q[i \in 0 .. Len(s)] ==
        IF i = 0 THEN "none"
        ELSE IF q[i - 1] = "none" THEN IF s[i] \in Quotes THEN s[i] ELSE "none"
        ELSE IF s[i] = q[i - 1] THEN "none" ELSE q[i - 1]
  IN q

\* The lexical rules of README.md: special characters and white space outside of
\* quotes separate tokens, quoted ones do not, and the quotes themselves vanish.
LexedAs(s) ==
  LET q == QuoteAt(s)
      Bare(i) == q[i - 1] = "none" /\ q[i] = "none"
      Quote(i) == q[i - 1] # q[i]
      Starts(i) == \/ Bare(i) /\ s[i] \in Specials
                   \/ /\ ~ (Bare(i) /\ s[i] \in Specials \cup {" "})
                      /\ i = 1 \/ (Bare(i - 1) /\ s[i - 1] \in Specials \cup {" "})
      Add(out, i) ==
        IF Bare(i) /\ s[i] \in Specials THEN Append(out, Special(s[i]))
        ELSE IF Bare(i) /\ s[i] = " " THEN out
        ELSE LET started == IF Starts(i) THEN Append(out, Word(<<>>)) ELSE out IN
             IF Quote(i) THEN started
             ELSE [started EXCEPT ![Len(started)].value = Append(@, s[i])]
  IN FoldLeft(Add, <<>>, [i \in 1 .. Len(s) |-> i])

\* lex_line finds exactly these tokens, and an error exactly in a line with a
\* quote left open, however quotes of both kinds, words and specials adjoin.
LexExact ==
  /\ result = "LEX_QERROR" => QuoteAt(Chars)[Len(Chars)] # "none"
  /\ result = "LEX_SUCCESS" => /\ QuoteAt(Chars)[Len(Chars)] = "none"
                               /\ tokens = LexedAs(Chars)

Accepted == result = "LEX_SUCCESS" /\ tokens # <<>> /\ syntax_check(tokens) = "SUCCESS"

\* The rules of README.md: a line is a pipeline of commands that begin with a
\* name, with one < at most, in the first command, one > at most, in the last,
\* each before a file name, and & at the end only.
GrammarOf(ts) ==
  LET Count(seq, type) == Len(SelectSeq(seq, LAMBDA t : t.type = type))
      segs == SegmentsOf(ts)
      n == Len(segs)
  IN /\ Count(Trimmed(ts), "BG") = 0
     /\ Count(segs[1], "REDIN") <= 1 /\ Count(segs[n], "REDOUT") <= 1
     /\ \A k \in 1 .. n :
          /\ segs[k] # <<>> /\ segs[k][1].type = "WORD"
          /\ k # 1 => Count(segs[k], "REDIN") = 0
          /\ k # n => Count(segs[k], "REDOUT") = 0
          /\ \A i \in 1 .. Len(segs[k]) :
               segs[k][i].type \in {"REDIN", "REDOUT"} =>
                 i < Len(segs[k]) /\ segs[k][i + 1].type = "WORD"

\* What an accepted line leaves to the children: as many segments as count_pipe
\* says, each with a program to run, each < and > with its file, and no
\* redirection that takes the place of a pipe.
CommandsRunnable ==
  Accepted =>
    LET segs == SegmentsOf(tokens)
        cmd == [k \in 1 .. Len(segs) |-> CommandOf(segs[k])]
    IN /\ \A k \in 1 .. Len(segs) : cmd[k].args # <<>> /\ ~ cmd[k].redin /\ ~ cmd[k].redout
       /\ \A k \in 2 .. Len(segs) : cmd[k].stdin = 0
       /\ \A k \in 1 .. Len(segs) - 1 : cmd[k].stdout = 0

\* syntax_check accepts the lines of the grammar and no others, and what it
\* accepts, the children can run.
SyntaxExact ==
  /\ result = "LEX_SUCCESS" /\ tokens # <<>> =>
       (syntax_check(tokens) = "SUCCESS"
          <=> GrammarOf(tokens) /\ (check_bg(tokens) => Last(tokens).type = "BG"))
  /\ CommandsRunnable
=============================================================================
