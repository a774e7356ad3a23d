------------------------------ MODULE WrenLexer ------------------------------
(***************************************************************************)
(* The lexer of wren_compiler.c.  The source is a sequence of symbols:        *)
(* <<"char", c>> for one character, <<"word", x>> for a whole identifier or    *)
(* reserved word and <<"digits", n>> for the digits of a number.  Within a    *)
(* string any symbol is a piece of the text.  Fractions, exponents,           *)
(* hexadecimal numbers and escapes are left out.                              *)
(*                                                                          *)
(* A state l = [text, pos, parens, toks, err] has the number of symbols read, *)
(* the counts of unclosed parentheses of the interpolations around, the       *)
(* tokens so far, each <<type, text>>, and whether an error was reported.      *)
(***************************************************************************)
EXTENDS Integers, Sequences, SequencesExt, TLC

CONSTANTS
    FieldNames, StaticNames,   \* the words that begin with one or two underscores
    MaxInterpolation           \* MAX_INTERPOLATION_NESTING

Char(c) == <<"char", c>>
EndOfText == Char("end")
Ahead(l, n) == IF l.pos + n < Len(l.text) THEN l.text[l.pos + n + 1] ELSE EndOfText
\* The next two characters; a word is none of the characters asked for.
CharAhead(l, n) == IF Ahead(l, n)[1] = "char" THEN Ahead(l, n)[2] ELSE "word"
Ahead2(l) == <<CharAhead(l, 0), CharAhead(l, 1)>>
Past(l, n) == [l EXCEPT !.pos = @ + n]
LexError(l) == [l EXCEPT !.err = TRUE]
MakeToken(l, n, type, text) == [Past(l, n) EXCEPT !.toks = Append(@, <<type, text>>)]

Keywords ==
    {"break", "class", "construct", "else", "false", "for", "foreign", "if", "import", "in",
     "is", "null", "return", "static", "super", "this", "true", "var", "while"}
WordType(word) ==
    CASE word \in Keywords -> word
      [] word \in StaticNames -> "STATIC_FIELD"
      [] word \in FieldNames -> "FIELD"
      [] OTHER -> "NAME"

OneChar == {"[", "]", "{", "}", ":", ",", "*", "%", "^", "+", "-", "~", "?",
            "|", "&", "=", "!", ".", "/", "<", ">"}
TwoChars ==
       (<<"|", "|">> :> "||") @@ (<<"&", "&">> :> "&&") @@ (<<"=", "=">> :> "==")
    @@ (<<"!", "=">> :> "!=") @@ (<<".", ".">> :> "..") @@ (<<"<", "<">> :> "<<")
    @@ (<<"<", "=">> :> "<=") @@ (<<">", ">">> :> ">>") @@ (<<">", "=">> :> ">=")
Escapes ==
       [c \in {"\"", "\\", "%"} |-> c]
    @@ [c \in {"0", "a", "b", "f", "n", "r", "t", "v"} |-> "\\" \o c]

RECURSIVE SkipLineComment(_), SkipBlockComment(_, _), ReadString(_, _), Lex(_)

SkipLineComment(l) ==
    IF Ahead(l, 0) \in {Char("\n"), EndOfText} THEN l ELSE SkipLineComment(Past(l, 1))

\* Block comments nest.
SkipBlockComment(l, nesting) ==
    CASE nesting = 0 -> l
      [] nesting > 0 /\ Ahead(l, 0) = EndOfText -> LexError(l)
      [] nesting > 0 /\ Ahead2(l) = <<"/", "*">> -> SkipBlockComment(Past(l, 2), nesting + 1)
      [] nesting > 0 /\ Ahead2(l) = <<"*", "/">> -> SkipBlockComment(Past(l, 2), nesting - 1)
      [] OTHER -> SkipBlockComment(Past(l, 1), nesting)

\* A string up to its end or to the expression of an interpolation, whose
\* closing parenthesis goes on with the string.
ReadString(l, pieces) ==
    LET c == Ahead(l, 0)
        escaped == CharAhead(l, 1)
    IN  CASE c = Char("\"") -> MakeToken(l, 1, "STRING", pieces)
          [] c = EndOfText -> MakeToken(LexError(l), 0, "STRING", pieces)
          [] c = Char("%") /\ Len(l.parens) < MaxInterpolation ->
                 MakeToken([l EXCEPT !.parens = Append(@, 1),
                                     !.err = @ \/ Ahead(l, 1) /= Char("(")],
                           2, "INTERPOLATION", pieces)
          [] c = Char("%") /\ Len(l.parens) >= MaxInterpolation ->
                 ReadString(Past(LexError(l), 1), Append(pieces, "%"))
          [] c = Char("\\") ->
                 IF escaped \in DOMAIN Escapes
                 THEN ReadString(Past(l, 2), Append(pieces, Escapes[escaped]))
                 ELSE ReadString(Past(LexError(l), 2), pieces)
          [] OTHER -> ReadString(Past(l, 1), Append(pieces, IF c[1] = "digits" THEN ToString(c[2]) ELSE c[2]))

Depth(l) == Len(l.parens)
NextToken(l) ==
    LET c == Ahead(l, 0)
    IN  CASE c[1] = "word" -> MakeToken(l, 1, WordType(c[2]), c[2])
          [] c[1] = "digits" -> MakeToken(l, 1, "NUMBER", c[2])
          [] c \in {Char(" "), Char("\r"), Char("\t")} -> Past(l, 1)
          [] c = Char("\n") -> MakeToken(l, 1, "LINE", "LINE")
          [] c = Char("\"") -> ReadString(Past(l, 1), <<>>)
          [] c = Char("(") ->
                 MakeToken(IF l.parens = <<>> THEN l ELSE [l EXCEPT !.parens[Depth(l)] = @ + 1],
                           1, "(", "(")
          [] c = Char(")") ->
                 IF l.parens = <<>> THEN MakeToken(l, 1, ")", ")")
                 ELSE IF Last(l.parens) = 1
                 THEN ReadString(Past([l EXCEPT !.parens = Front(@)], 1), <<>>)
                 ELSE MakeToken([l EXCEPT !.parens[Depth(l)] = @ - 1], 1, ")", ")")
          [] Ahead2(l) = <<"/", "/">> -> SkipLineComment(Past(l, 2))
          [] Ahead2(l) = <<"/", "*">> -> SkipBlockComment(Past(l, 2), 1)
          [] Ahead2(l) = <<"#", "!">> /\ Char("\n") \notin ToSet(SubSeq(l.text, 1, l.pos)) ->
                 SkipLineComment(l)
          [] Ahead2(l) = <<".", ".">> /\ Ahead(l, 2) = Char(".") -> MakeToken(l, 3, "...", "...")
          [] Ahead2(l) \in DOMAIN TwoChars
             /\ ~(Ahead2(l) = <<".", ".">> /\ Ahead(l, 2) = Char(".")) ->
                 MakeToken(l, 2, TwoChars[Ahead2(l)], TwoChars[Ahead2(l)])
          [] c[2] \in OneChar /\ Ahead2(l) \notin DOMAIN TwoChars \cup {<<"/", "/">>, <<"/", "*">>} ->
                 MakeToken(l, 1, c[2], c[2])
          [] OTHER -> MakeToken(LexError(l), 1, "ERROR", "")
Lex(l) ==
    IF l.pos >= Len(l.text) THEN MakeToken(l, 0, "EOF", "EOF") ELSE Lex(NextToken(l))

Tokens(text) == Lex([text |-> text, pos |-> 0, parens |-> <<>>, toks |-> <<>>, err |-> FALSE])
=============================================================================
