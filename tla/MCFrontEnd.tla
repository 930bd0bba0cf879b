------------------------------ MODULE MCFrontEnd ------------------------------
(* Every token a file can deliver, and two characters that deliver none: files   *)
(* of up to two lexemes, and the return statements.                              *)
EXTENDS FrontEnd
MCLexemes == {p[1] : p \in FirstCharacter} \cup Keywords
             \cup {"name", "number", "<", "!"}
MCTokens == UNION {TokensOf(x) : x \in MCLexemes}
MCFiles == SeqOf(MCLexemes, 2)
           \cup {<<"return", "name", x, "number">> : x \in {"+", "<=", "<", "=="}}
=============================================================================
