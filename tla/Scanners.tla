------------------------------ MODULE Scanners ------------------------------
(***************************************************************************)
(* The two programs that read a text one character at a time, each by an   *)
(* automaton of its own: the decommenter of lab 1 (Decomment) and the      *)
(* shell's reader of command lines (LexSyn).  A behaviour is one of        *)
(* either; the other's variables stay as they are at its start.            *)
(***************************************************************************)
EXTENDS Integers, Sequences

CONSTANTS Letters,     \* characters without a meaning to either
          Specials, Quotes, MaxLine,   \* of LexSyn
          MaxLen                       \* of Decomment

VARIABLES scanner,
          line, lex_state, value, tokens, result,
          input, out, state, line_cur, line_com, status

lexer == <<line, lex_state, value, tokens, result>>
decommenter == <<input, out, state, line_cur, line_com, status>>

Lex == INSTANCE LexSyn WITH state <- lex_state
Dec == INSTANCE Decomment WITH Others <- Letters

ASSUME CharactersOK ==
  /\ Specials \subseteq {"|", "&", ">", "<"} /\ Quotes \subseteq {"\"", "'"}
  /\ Letters \cap (Specials \cup Quotes \cup {" "} \cup Dec!Marks) = {}

Init == scanner \in {"lex_line", "decomment"} /\ Lex!Init /\ Dec!Init

Next ==
  /\ UNCHANGED scanner
  /\ \/ scanner = "lex_line"  /\ Lex!Next /\ UNCHANGED decommenter
     \/ scanner = "decomment" /\ Dec!Next /\ UNCHANGED lexer

Spec == Init /\ [][Next]_<<scanner, lexer, decommenter>>

-----------------------------------------------------------------------------
(* Properties, as their modules state them *)

\* The tokens of every line, and its errors, are those of the README's rules.
LexExact == Lex!LexExact

\* The shell accepts exactly the command lines of the README's grammar, and runs
\* each in the parts that it has.
SyntaxExact == Lex!SyntaxExact

\* Comments, and nothing else, are replaced, lines keep their numbers, and a
\* comment left open is reported at the line on which it began.
Decommented == Dec!Decommented /\ Dec!ErrorLine
=============================================================================
