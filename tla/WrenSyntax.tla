----------------------------- MODULE WrenSyntax -----------------------------
(***************************************************************************)
(* Abstract syntax trees of Wren programs, and how they are written by the    *)
(* table of precedences of doc/site/syntax.markdown: parentheses stand only   *)
(* where the table asks for them.  The trees are what a program means to its  *)
(* author, WrenSemantics says what they compute, and the text, in symbols of  *)
(* WrenLexer, is what the compiler is given.                                  *)
(*                                                                          *)
(* Expressions: <<"num", n>>, <<"str", pieces>>, <<"true">>, <<"false">>,        *)
(* <<"null">>, <<"this">>, <<"name", x>>, <<"set", x, e>>, <<"field", f>>,      *)
(* <<"setfield", f, e>>, <<"static", f>>, <<"setstatic", f, e>>,               *)
(* <<"un", op, e>>, <<"bin", op, a, b>>, <<"cond", a, b, c>>, <<"get", e, x>>,   *)
(* <<"put", e, x, v>>, <<"call", e, x, args>>, <<"send", x, args>> (to this),    *)
(* <<"fncall", e, x, args, params, body>> (a function as the last argument),   *)
(* <<"index", e, args>>, <<"setindex", e, args, v>>, <<"super", args>>,          *)
(* <<"superget", x>>, <<"superput", x, v>>, <<"supercall", x, args>>,            *)
(* <<"list", es>>, <<"map", pairs>>, <<"interp", texts, es, text>>.             *)
(* Statements: <<"do", e>>, <<"var", x>>, <<"var", x, e>>, <<"if", e, s>>,        *)
(* <<"if", e, s, s>>, <<"while", e, s>>, <<"for", x, e, s>>, <<"block", stmts>>,  *)
(* <<"break">>, <<"return">>, <<"return", e>>, <<"import", module, names>>,      *)
(* <<"class", name, methods>>, <<"class", name, methods, e>> with a superclass. *)
(* Bodies are <<"expr", e>> or <<"block", stmts>>, methods are                   *)
(* <<isStatic, type, name, params, body>> with the type of their signature.     *)
(***************************************************************************)
EXTENDS Integers, Sequences, SequencesExt

\* Lines 163-251 of the page from the loosest binding to the tightest.
Table == << {"="}, {"?:"}, {"||"}, {"&&"}, {"==", "!="}, {"is"}, {"<", "<=", ">", ">="},
            {"|"}, {"^"}, {"&"}, {"<<", ">>"}, {"..", "..."}, {"+", "-"},
            {"*", "/", "%"}, {"unary"}, {"."} >>
Tightness(op) == CHOOSE i \in DOMAIN Table : op \in Table[i]
Loosest == 1
Primary == Len(Table)
Operators == UNION {Table[i] : i \in DOMAIN Table} \cup {"!", "~"}

ExpressionTightness(e) ==
    CASE e[1] = "bin" -> Tightness(e[2])
      [] e[1] = "un" -> Tightness("unary")
      [] e[1] = "cond" -> Tightness("?:")
      [] e[1] \in {"set", "setfield", "setstatic", "put", "setindex", "superput"} ->
             Tightness("=")
      [] OTHER -> Primary

\* The symbols of an operator or a piece of punctuation, of a word, of a string.
Chars(seq) == [i \in DOMAIN seq |-> <<"char", seq[i]>>]
Spelled(op) ==
    CASE op = "..." -> <<".", ".", ".">> [] op = ".." -> <<".", ".">>
      [] op \in {"||", "&&", "==", "<<", ">>"} ->
             [i \in 1..2 |-> CHOOSE c \in {"|", "&", "=", "<", ">"} : op = c \o c]
      [] op \in {"!=", "<=", ">="} -> <<CHOOSE c \in {"!", "<", ">"} : op = c \o "=", "=">>
      [] OTHER -> <<op>>
Word(x) == << <<"word", x>> >>
T(op) == IF op = "is" THEN Word(op) ELSE Chars(Spelled(op))
Line == T("\n")
\* The pieces that programs use as the bytes of a string.
OneByte == {"+", "-"}
Inside(pieces) ==
    FlattenSeq([i \in DOMAIN pieces |->
        IF pieces[i] \in {"\"", "\\", "%"} THEN Chars(<<"\\", pieces[i]>>)
        ELSE IF pieces[i] \in OneByte THEN Chars(<<pieces[i]>>)
        ELSE Word(pieces[i])])

Tokens(s) == FlattenSeq(s)
Separated(parts) ==
    Tokens([i \in DOMAIN parts |-> IF i = 1 THEN parts[i] ELSE T(",") \o parts[i]])
Parameters(params) == Separated([i \in DOMAIN params |-> Word(params[i])])

RECURSIVE Unparsed(_, _), WriteStatement(_), Lines(_)

\* The tokens of an expression where one that binds this tightly may stand.
Unparse(e, tightness) ==
    IF ExpressionTightness(e) < tightness
    THEN T("(") \o Unparsed(e, Loosest) \o T(")") ELSE Unparsed(e, tightness)
Whole(e) == Unparse(e, Loosest)
Arguments(args) == Separated([i \in DOMAIN args |-> Whole(args[i])])
Parens(args) == T("(") \o Arguments(args) \o T(")")
Brackets(args) == T("[") \o Arguments(args) \o T("]")
Assigned(e) == T("=") \o Whole(e)
Receiver(e) == Unparse(e, Primary)

Block(stmts) == T("{") \o Line \o Lines(stmts) \o T("}")
Braces(params, body) ==
    LET bars == IF params = <<>> THEN <<>> ELSE T("|") \o Parameters(params) \o T("|")
    IN  T("{") \o bars
            \o (IF body[1] = "expr" THEN Whole(body[2])
                ELSE Line \o Lines(body[2])) \o T("}")

Unparsed(e, tightness) ==
    CASE e[1] = "num" -> << <<"digits", e[2]>> >>
      [] e[1] = "str" -> T("\"") \o Inside(e[2]) \o T("\"")
      [] e[1] \in {"true", "false", "null", "this"} -> Word(e[1])
      [] e[1] = "name" -> Word(e[2])
      [] e[1] = "set" -> Word(e[2]) \o Assigned(e[3])
      [] e[1] = "field" -> Word(e[2])
      [] e[1] = "setfield" -> Word(e[2]) \o Assigned(e[3])
      [] e[1] = "static" -> Word(e[2])
      [] e[1] = "setstatic" -> Word(e[2]) \o Assigned(e[3])
      [] e[1] = "un" -> T(e[2]) \o Unparse(e[3], Tightness("unary"))
      [] e[1] = "bin" ->
             Unparse(e[3], Tightness(e[2])) \o T(e[2]) \o Unparse(e[4], Tightness(e[2]) + 1)
      [] e[1] = "cond" ->
             Unparse(e[2], Tightness("?:") + 1) \o T("?")
                 \o Unparse(e[3], Tightness("?:") + 1) \o T(":")
                 \o Unparse(e[4], Tightness("?:"))
      [] e[1] = "get" -> Receiver(e[2]) \o T(".") \o Word(e[3])
      [] e[1] = "put" -> Receiver(e[2]) \o T(".") \o Word(e[3]) \o Assigned(e[4])
      [] e[1] = "call" -> Receiver(e[2]) \o T(".") \o Word(e[3]) \o Parens(e[4])
      [] e[1] = "fncall" ->
             Receiver(e[2]) \o T(".") \o Word(e[3])
                 \o (IF e[4] = <<>> THEN <<>> ELSE Parens(e[4])) \o Braces(e[5], e[6])
      [] e[1] = "send" -> Word(e[2]) \o Parens(e[3])
      [] e[1] = "index" -> Receiver(e[2]) \o Brackets(e[3])
      [] e[1] = "setindex" -> Receiver(e[2]) \o Brackets(e[3]) \o Assigned(e[4])
      [] e[1] = "super" -> Word("super") \o Parens(e[2])
      [] e[1] = "superget" -> Word("super") \o T(".") \o Word(e[2])
      [] e[1] = "superput" -> Word("super") \o T(".") \o Word(e[2]) \o Assigned(e[3])
      [] e[1] = "supercall" -> Word("super") \o T(".") \o Word(e[2]) \o Parens(e[3])
      [] e[1] = "list" -> Brackets(e[2])
      [] e[1] = "map" ->
             T("{") \o Separated([i \in DOMAIN e[2] |->
                               Unparse(e[2][i][1], Tightness("unary")) \o T(":")
                                   \o Whole(e[2][i][2])]) \o T("}")
      [] e[1] = "interp" ->
             T("\"") \o Tokens([i \in DOMAIN e[2] |->
                               Inside(e[2][i]) \o T("%") \o T("(") \o Whole(e[3][i]) \o T(")")])
                 \o Inside(e[4]) \o T("\"")

\* A method: its signature and its body.
WrittenMethod(m) ==
    LET params == T("(") \o Parameters(m[4]) \o T(")")
        subscript(n) == T("[") \o Parameters(SubSeq(m[4], 1, n)) \o T("]")
        setter == T("=") \o T("(") \o Word(Last(m[4])) \o T(")")
        name == IF m[3] \in Operators THEN T(m[3]) ELSE Word(m[3])
    IN  (IF m[1] THEN Word("static") ELSE <<>>)
        \o (CASE m[2] = "METHOD" -> name \o params
              [] m[2] = "GETTER" -> name
              [] m[2] = "SETTER" -> name \o setter
              [] m[2] = "SUBSCRIPT" -> subscript(Len(m[4]))
              [] m[2] = "SUBSCRIPT_SETTER" -> subscript(Len(m[4]) - 1) \o setter
              [] m[2] = "INITIALIZER" -> Word("construct") \o name \o params)
        \o Braces(<<>>, m[5]) \o Line

WriteStatement(s) ==
    CASE s[1] = "do" -> Whole(s[2])
      [] s[1] = "var" ->
             Word("var") \o Word(s[2]) \o (IF Len(s) = 2 THEN <<>> ELSE Assigned(s[3]))
      [] s[1] = "if" ->
             Word("if") \o Parens(<<s[2]>>) \o WriteStatement(s[3])
                 \o (IF Len(s) = 3 THEN <<>> ELSE Word("else") \o WriteStatement(s[4]))
      [] s[1] = "while" -> Word("while") \o Parens(<<s[2]>>) \o WriteStatement(s[3])
      [] s[1] = "for" ->
             Word("for") \o T("(") \o Word(s[2]) \o Word("in") \o Whole(s[3]) \o T(")")
                 \o WriteStatement(s[4])
      [] s[1] = "block" -> Block(s[2])
      [] s[1] = "break" -> Word("break")
      [] s[1] = "return" -> Word("return") \o (IF Len(s) = 1 THEN <<>> ELSE Whole(s[2]))
      [] s[1] = "import" ->
             Word("import") \o T("\"") \o Word(s[2]) \o T("\"")
                 \o (IF s[3] = <<>> THEN <<>> ELSE Word("for") \o Parameters(s[3]))
      [] s[1] = "class" ->
             Word("class") \o Word(s[2])
                 \o (IF Len(s) = 3 THEN <<>> ELSE Word("is") \o Receiver(s[4]))
                 \o T("{") \o Line
                 \o Tokens([i \in DOMAIN s[3] |-> WrittenMethod(s[3][i])]) \o T("}")

Lines(stmts) == Tokens([i \in DOMAIN stmts |-> WriteStatement(stmts[i]) \o Line])

\* Words that follow each other need a space.
IsWord(symbol) == symbol[1] /= "char"
Spaced(text) ==
    FlattenSeq([i \in DOMAIN text |->
        IF i > 1 /\ IsWord(text[i]) /\ IsWord(text[i - 1]) THEN <<T(" ")[1], text[i]>>
        ELSE <<text[i]>>])
Module(stmts) == Spaced(Lines(stmts))

\* The same text in another layout: at each end of a line stand comments with
\* quotes, nested comments and percent signs, and empty lines.
Comments ==
    << Chars(<<" ", "/", "/">>) \o Word("var") \o Chars(<<"\"", "%", "(", "/", "*", "\n", "\n">>),
       Chars(<<"/", "*", "/", "/", "\n", "/", "*", "*", "/", "\"", "*", "/", "\t", "\r", "\n">>) >>
Commented(text, layout) ==
    Chars(<<"#", "!", "/">>) \o Line \o FlattenSeq([i \in DOMAIN text |->
        IF text[i] = Line[1] THEN Comments[layout] ELSE <<text[i]>>])
=============================================================================
