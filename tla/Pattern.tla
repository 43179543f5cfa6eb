------------------------------- MODULE Pattern -------------------------------
(***************************************************************************)
(* The patterns of dirtree's option -f (dirtree.c of lab 2): what           *)
(* validate_pattern accepts, what is_match finds, and the language that     *)
(* README.md gives each pattern.                                            *)
(***************************************************************************)
EXTENDS Integers, Sequences

CONSTANTS Letters,      \* the characters of names
          MaxPattern,   \* bound: the length of the patterns in Meaning
          MaxWord       \* bound: the length of the words in Meaning

ASSUME LettersOK == Letters \cap {"?", "*", "(", ")"} = {}

\* in_group after the first i characters of p.
in_group(p) ==
  LET in[i \in 0 .. Len(p)] ==
        i > 0 /\ (p[i] = "(" \/ (p[i] # ")" /\ in[i - 1]))
  IN in

\* MUTANT of StarMisplaced: one star may follow another.
StarMisplacedGroup(p, i) == i = 1 \/ p[i - 1] = "("

StarMisplaced(p, i) == i = 1 \/ p[i - 1] \in {"*", "("}

\* validate_pattern returns: the loop finds no fault and every group is closed.
\* group_len is 0 at a ) only right after its (, for no star may come between.
validate_pattern(p) ==
  /\ p # <<>>
  /\ \A i \in 1 .. Len(p) :
       /\ p[i] = "(" => ~ in_group(p)[i - 1]
       /\ p[i] = ")" => in_group(p)[i - 1] /\ p[i - 1] # "("
       /\ p[i] = "*" => ~ StarMisplaced(p, i)
  /\ ~ in_group(p)[Len(p)]

match_literal(s, i, p, j, p_len) ==
  \A k \in 0 .. p_len - 1 : i + k <= Len(s) /\ p[j + k] \in {"?", s[i + k]}

\* p_len of the item that begins at j; groups do not nest in a valid pattern.
ItemLen(p, j) ==
  IF p[j] # "(" THEN 1
  ELSE (CHOOSE k \in j .. Len(p) : p[k] = ")" /\ \A l \in j .. k - 1 : p[l] # ")") - j - 1

\* next_p is a star.
Starred(p, j) ==
  LET next == j + ItemLen(p, j) + IF p[j] = "(" THEN 2 ELSE 0
  IN next <= Len(p) /\ p[next] = "*"

\* The pattern from j on matches a prefix of what is left of s at i.
submatch(s, p) ==
  LET sub[i \in 1 .. Len(s) + 1, j \in 1 .. Len(p) + 1] ==
        \/ j > Len(p)
        \/ /\ j <= Len(p)
           /\ LET first == IF p[j] = "(" THEN j + 1 ELSE j
                  p_len == ItemLen(p, j)
                  next_p == first + p_len + (first - j)
                  once == match_literal(s, i, p, first, p_len)
              IN IF Starred(p, j) THEN sub[i, next_p + 1] \/ (once /\ sub[i + p_len, j])
                 ELSE once /\ sub[i + p_len, next_p]
  IN sub

is_match(s, p) == \E i \in 1 .. Len(s) + 1 : submatch(s, p)[i, 1]

-----------------------------------------------------------------------------
(* README.md: the patterns as they are built, each with the words it stands for *)

Words(n) == UNION {[1 .. k -> Letters] : k \in 0 .. n}

Concat(A, B) == {w \in {u \o v : u \in A, v \in B} : Len(w) <= MaxWord}

Repeat(A) ==
  LET power[n \in 0 .. MaxWord] ==
        IF n = 0 THEN {<<>>} ELSE power[n - 1] \cup Concat(power[n - 1], A)
  IN power[MaxWord]

Join(x, y) == [text |-> x.text \o y.text, words |-> Concat(x.words, y.words)]
Grouped(x) == [x EXCEPT !.text = <<"(">> \o @ \o <<")">>]
Star(x)    == [text |-> Append(x.text, "*"), words |-> Repeat(x.words)]

Chars == {[text |-> <<a>>, words |-> {<<a>>}] : a \in Letters}
           \cup {[text |-> <<"?">>, words |-> Words(1) \ {<<>>}]}

\* The strings of n characters without a star or a group.
Plain ==
  LET plain[n \in 1 .. MaxPattern] ==
        IF n = 1 THEN Chars ELSE {Join(x, y) : x \in Chars, y \in plain[n - 1]}
  IN plain

\* An item of n characters: a character or a group, with or without a star.
Items ==
  LET unit(n) == (IF n = 1 THEN Chars ELSE {})
                   \cup (IF n > 2 THEN {Grouped(x) : x \in Plain[n - 2]} ELSE {})
  IN [n \in 1 .. MaxPattern |->
        unit(n) \cup IF n > 1 THEN {Star(x) : x \in unit(n - 1)} ELSE {}]

Grammar ==
  LET G[n \in 1 .. MaxPattern] ==
        Items[n] \cup UNION {{Join(x, y) : x \in Items[k], y \in G[n - k]} : k \in 1 .. n - 1}
  IN UNION {G[n] : n \in 1 .. MaxPattern}

Valid == {x.text : x \in Grammar}

\* The words of each valid pattern.
Meaning == [t \in Valid |-> (CHOOSE x \in Grammar : x.text = t).words]

\* Some part of the name is one of its words.
Contains(name, words) ==
  \E i \in 1 .. Len(name) + 1, j \in 0 .. Len(name) : SubSeq(name, i, j) \in words
=============================================================================
