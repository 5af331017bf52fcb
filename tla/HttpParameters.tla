--------------------------- MODULE HttpParameters ---------------------------
(***************************************************************************)
(* The parser of HTTP parameter lists (http/parser.hpp), which the         *)
(* handshake uses for extensions and subprotocols: "a; b=1; c="x", d".     *)
(* A string is a sequence of symbols; iterators are positions in `input`,  *)
(* from 1 to Len(input) + 1, the end. The operators follow the functions   *)
(* of the same names; those that read more than a position return records. *)
(***************************************************************************)
EXTENDS Integers, Sequences, SequencesExt, FiniteSets

CONSTANTS
  Beginnings, \* what the inputs begin with
  MaxMore     \* bound: symbols that follow the prefix

\* What is assumed of the constants.
InputAssumption == MaxMore \in Nat

Token == {"a", "b"}
Space == " "
Symbols == Token \cup {Space, ";", ",", "=", "QUOTE", "BACKSLASH"}

VARIABLES input, more
vars == <<input, more>>

End == Len(input) + 1

\* std::find_if: the first position from `from` on whose symbol is in S.
FindIn(from, S) ==
  LET found == {i \in from .. Len(input) : input[i] \in S} IN
  IF found = {} THEN End ELSE CHOOSE i \in found : \A j \in found : i <= j

extract_token(begin) ==
  LET it == FindIn(begin, Symbols \ Token) IN
  [value |-> SubSeq(input, begin, it - 1), it |-> it]

extract_all_lws(begin) == FindIn(begin, Symbols \ {Space})

\* The loop of extract_quoted_string(): a quote after a backslash belongs to it.
RECURSIVE QuotedFrom(_, _, _)
QuotedFrom(marker, cursor, s) ==
  IF cursor = End THEN [value |-> <<>>, it |-> 0]
  ELSE IF input[cursor - 1] = "BACKSLASH"
    THEN QuotedFrom(cursor + 1, FindIn(cursor + 1, {"QUOTE"}),
                    s \o SubSeq(input, marker, cursor - 2) \o <<"QUOTE">>)
  ELSE [value |-> s \o SubSeq(input, marker, cursor - 1), it |-> cursor + 1]

\* Position `begin` when there is no whole quoted string.
extract_quoted_string(begin) ==
  LET none == [value |-> <<>>, it |-> begin] IN
  IF begin = End \/ input[begin] # "QUOTE" THEN none
  ELSE LET r == QuotedFrom(begin + 1, FindIn(begin + 1, {"QUOTE"}), <<>>)
       IN IF r.it = 0 THEN none ELSE r

\* attributes[name] = value of a map: a later attribute replaces an earlier one.
Put(attributes, name, value) ==
  SelectSeq(attributes, LAMBDA p : p[1] # name) \o << <<name, value>> >>

\* The loop of extract_attributes(), which fails with `begin`.
RECURSIVE AttributesFrom(_, _, _, _)
AttributesFrom(begin, cursor, first, attributes) ==
  LET failed == [it |-> begin, value |-> attributes]
      at == extract_all_lws(cursor)
      start == IF first \/ at = End THEN at ELSE at + 1
      name == extract_token(extract_all_lws(start))
      equals == extract_all_lws(name.it)
      value == extract_all_lws(equals + 1)
      quoted == extract_quoted_string(value)
      token == extract_token(value)
  IN IF cursor = End THEN [it |-> cursor, value |-> attributes]
     ELSE IF at = End \/ (~first /\ input[at] # ";") THEN [it |-> at, value |-> attributes]
     ELSE IF name.value = <<>> THEN failed
     ELSE IF equals = End \/ input[equals] # "="
       THEN AttributesFrom(begin, equals, FALSE, Put(attributes, name.value, <<>>))
     ELSE IF value = End THEN failed
     ELSE IF quoted.it # value
       THEN AttributesFrom(begin, quoted.it, FALSE, Put(attributes, name.value, quoted.value))
     ELSE IF token.value = <<>> THEN failed
     ELSE AttributesFrom(begin, token.it, FALSE, Put(attributes, name.value, token.value))

extract_attributes(begin) == AttributesFrom(begin, begin, TRUE, <<>>)

\* The loop of extract_parameters(), which fails with `begin`, the first position.
RECURSIVE ParametersFrom(_, _)
ParametersFrom(cursor, parameters) ==
  LET failed == [it |-> 1, value |-> parameters]
      name == extract_token(extract_all_lws(cursor))
      at == extract_all_lws(name.it)
      list == extract_attributes(at + 1)
      semicolon == at # End /\ input[at] = ";"
      attributes == IF semicolon THEN list.value ELSE <<>>
      found == Append(parameters, <<name.value, attributes>>)
      next == extract_all_lws(IF semicolon THEN list.it ELSE at)
  IN IF extract_all_lws(cursor) = End THEN [it |-> End, value |-> parameters]
     ELSE IF name.value = <<>> THEN failed
     ELSE IF at = End THEN [it |-> End, value |-> found]
     ELSE IF semicolon /\ list.it = at + 1 THEN failed
     ELSE IF next = End \/ input[next] # "," THEN [it |-> next, value |-> found]
     ELSE IF next + 1 = End THEN failed
     ELSE ParametersFrom(next + 1, found)

extract_parameters ==
  IF input = <<>> THEN [it |-> 1, value |-> <<>>] ELSE ParametersFrom(1, <<>>)

\* What parse_parameter_list() returns.
parse_parameter_list == input # <<>> /\ extract_parameters.it = 1

Init == input \in Beginnings /\ more = 0
Next ==
  /\ more < MaxMore /\ more' = more + 1
  /\ \E s \in Symbols \ {"b"} : input' = Append(input, s)
Spec == Init /\ [][Next]_vars
------------------------------------------------------------------------------
(* The grammar, as its documentation gives it: words separated by ; = , *)

\* A word is a token or a quoted string; white space separates and disappears.
\* The lexer ends with <<"BAD">> where a quote is never closed.
RECURSIVE Lexed(_)
Lexed(i) ==
  IF i > Len(input) THEN <<>>
  ELSE IF input[i] = Space THEN Lexed(i + 1)
  ELSE IF input[i] \in Token
    THEN LET e == FindIn(i, Symbols \ Token)
         IN << <<"word", SubSeq(input, i, e - 1)>> >> \o Lexed(e)
  ELSE IF input[i] = "QUOTE"
    THEN LET closing == {j \in i + 1 .. Len(input) :
                           input[j] = "QUOTE" /\ input[j - 1] # "BACKSLASH"}
         IN IF closing = {} THEN << <<"BAD">> >>
            ELSE LET e == CHOOSE j \in closing : \A k \in closing : j <= k
                     inside == SubSeq(input, i + 1, e - 1)
                     keep == {j \in DOMAIN inside :
                                ~(inside[j] = "BACKSLASH" /\ j < Len(inside)
                                  /\ inside[j + 1] = "QUOTE")}
                     chars == SetToSortSeq(keep, <)
                 IN << <<"quoted", [k \in DOMAIN chars |-> inside[chars[k]]]>> >>
                    \o Lexed(e + 1)
  ELSE << <<input[i]>> >> \o Lexed(i + 1)

Is(w, kinds) == w[1] \in kinds

\* attribute = ";" word [ "=" ( word | quoted ) ] from position i; the list ends
\* at a comma or with the input. 0 where it is not followed.
RECURSIVE AttributesOf(_, _, _)
AttributesOf(ws, i, attributes) ==
  IF i > Len(ws) \/ ws[i] = <<",">> THEN [next |-> i, value |-> attributes]
  ELSE IF ws[i] # <<";">> \/ i = Len(ws) \/ ~Is(ws[i + 1], {"word"})
    THEN [next |-> 0, value |-> attributes]
  ELSE IF i + 2 > Len(ws) \/ ws[i + 2] # <<"=">>
    THEN AttributesOf(ws, i + 2, Put(attributes, ws[i + 1][2], <<>>))
  ELSE IF i + 3 > Len(ws) \/ ~Is(ws[i + 3], {"word", "quoted"})
    THEN [next |-> 0, value |-> attributes]
  ELSE AttributesOf(ws, i + 4, Put(attributes, ws[i + 1][2], ws[i + 3][2]))

RECURSIVE ParametersOf(_, _, _)
ParametersOf(ws, i, parameters) ==
  IF i > Len(ws) THEN [ok |-> TRUE, value |-> parameters]
  ELSE IF ~Is(ws[i], {"word"}) THEN [ok |-> FALSE, value |-> parameters]
  ELSE LET list == AttributesOf(ws, i + 1, <<>>)
           found == Append(parameters, <<ws[i][2], list.value>>)
       IN IF list.next = 0 THEN [ok |-> FALSE, value |-> parameters]
          ELSE ParametersOf(ws, list.next + 1, found)

Meaning == ParametersOf(Lexed(1), 1, <<>>)
WholeRead == extract_parameters.it = End

\* Every list of the grammar is read to its end and with the parameters and
\* attributes it has, wherever white space stands and whatever is quoted. (A
\* comma with nothing after it is an error.)
GrammarRead ==
  (Meaning.ok /\ input # <<>> /\ Last(input) # ",") =>
    WholeRead /\ extract_parameters.value = Meaning.value

\* A separator that only white space follows is dropped.
Words ==
  LET ws == Lexed(1) IN
  IF ws # <<>> /\ Last(ws) \in {<<";">>, <<",">>} /\ Last(input) = Space
  THEN Front(ws) ELSE ws

\* What is read to its end is a list of the grammar, so that nothing is taken
\* for an extension or a subprotocol that nobody offered.
OnlyGrammarRead ==
  (WholeRead /\ input # <<>>) =>
    /\ ParametersOf(Words, 1, <<>>).ok
    /\ ParametersOf(Words, 1, <<>>).value = extract_parameters.value

\* http/parser.hpp:439, :550 "Whether or not the input was a valid parameter
\* list".
ReturnsValidity == WholeRead /\ input # <<>> => parse_parameter_list
==============================================================================
