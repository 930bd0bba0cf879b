------------------------------- MODULE MCAst -------------------------------
EXTENDS Ast

\* A type of each shape: a program and what it is made of, a statement with
\* a tested child, one with a statement list, one whose child is a variable.
MCTypes == {"prog", "func", "extern", "var", "cnst", "block", "if", "asgn"}
=============================================================================
