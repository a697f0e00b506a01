--------------------------- MODULE StructuredCode ----------------------------
(***************************************************************************)
(* What compiling promises to a program: a definition is a text of tokens, *)
(* and its meaning is the graph of operations that IF, ELSE, THEN, BEGIN,  *)
(* WHILE, REPEAT and EXIT structure by their nesting.  A word that is      *)
(* complete keeps its meaning; what else happens between or after          *)
(* definitions makes no difference to it.                                  *)
(*                                                                         *)
(* A token is a kind and an argument.  THEN and BEGIN make no operation.   *)
(***************************************************************************)
EXTENDS Integers, Sequences, SequencesExt, FiniteSetsExt

CONSTANT Closed   \* no definition is open

VARIABLES
  text,      \* the tokens of the open definition
  programs   \* the meaning of every complete one, in order

Kind(token) == token[1]
Silent == {"then", "begin"}
Makers(t) == SelectSeq([i \in DOMAIN t |-> i], LAMBDA i : Kind(t[i]) \notin Silent)

-----------------------------------------------------------------------------
(* The grammar, as the stack of the constructs that are open.              *)

Accepts(nest, kind) ==
  CASE kind = "else"   -> nest # << >> /\ Last(nest) = "if"
    [] kind = "then"   -> nest # << >> /\ Last(nest) \in {"if", "else"}
    [] kind = "while"  -> nest # << >> /\ Last(nest) = "begin"
    [] kind = "repeat" -> nest # << >> /\ Last(nest) = "while"
    [] OTHER -> TRUE

Nested(nest, token) ==
  CASE Kind(token) \in {"if", "begin"}    -> Append(nest, Kind(token))
    [] Kind(token) \in {"else", "while"}  -> Append(Front(nest), Kind(token))
    [] Kind(token) \in {"then", "repeat"} -> Front(nest)
    [] OTHER -> nest

\* What is open before the text and behind each of its tokens.
Nests(t) ==
  LET nest[n \in 0 .. Len(t)] == IF n = 0 THEN << >> ELSE Nested(nest[n - 1], t[n])
  IN  nest

Nest(t) == Nests(t)[Len(t)]

-----------------------------------------------------------------------------
(* The meaning of a text.                                                  *)

\* Tokens i and j are in the same construct, which has others inside: as many
\* are opened as are closed between them.
Level(t, i, j) ==
  LET Count(kinds) == Cardinality({k \in i + 1 .. j - 1 : Kind(t[k]) \in kinds})
  IN  Count({"if", "begin"}) = Count({"then", "repeat"})

\* The next token of these kinds in the construct that token i opens or is part
\* of, and the latest one before it.
After(t, i, kinds) ==
  Min({j \in i + 1 .. Len(t) : Kind(t[j]) \in kinds /\ Level(t, i, j)})
Before(t, i, kinds) ==
  Max({j \in 1 .. i - 1 : Kind(t[j]) \in kinds /\ Level(t, j, i)})

\* The number of the operation that token i makes, or of the first one behind it.
Node(t, i) == 1 + Cardinality({j \in 1 .. i - 1 : Kind(t[j]) \notin Silent})

\* Where the operation of token i may go on.
Next1(t, i) ==
  LET on == Node(t, i) + 1
      closer == After(t, i, {"else", "then"})
  IN  CASE Kind(t[i]) = "if" ->
             << on, Node(t, closer) + (IF Kind(t[closer]) = "else" THEN 1 ELSE 0) >>
        [] Kind(t[i]) = "else"   -> << Node(t, After(t, i, {"then"})) >>
        [] Kind(t[i]) = "while"  -> << on, Node(t, After(t, i, {"repeat"})) + 1 >>
        [] Kind(t[i]) = "repeat" -> << Node(t, Before(t, i, {"begin"})) >>
        [] Kind(t[i]) = "exit"   -> << >>
        [] OTHER -> << on >>

Op(kind) ==
  CASE kind \in {"if", "while"}    -> "0branch"
    [] kind \in {"else", "repeat"} -> "branch"
    [] kind = "exit" -> "end"
    [] OTHER -> kind

End == [op |-> "end", arg |-> 0, next |-> << >>]

Program(t) ==
  LET Operation(i) == [op |-> Op(Kind(t[i])), arg |-> t[i][2], next |-> Next1(t, i)]
      makers == Makers(t)
  IN  Append([n \in DOMAIN makers |-> Operation(makers[n])], End)

-----------------------------------------------------------------------------
Open == text = Closed /\ text' = << >> /\ UNCHANGED programs

More ==
  /\ text # Closed /\ text' # Closed
  /\ Len(text') >= Len(text) /\ SubSeq(text', 1, Len(text)) = text
  /\ UNCHANGED programs

Finish ==
  /\ text # Closed /\ Nest(text) = << >>
  /\ programs' = Append(programs, Program(text))
  /\ text' = Closed

Abandon == text' = Closed /\ UNCHANGED programs

Next == Open \/ More \/ Finish \/ Abandon
=============================================================================
