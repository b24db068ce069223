-------------------------------- MODULE Expr --------------------------------
(***************************************************************************)
(* The expressions of the monitor: eval() of nemu/src/monitor/expr.c, by   *)
(* which "p", "x", "w" and the watchpoints compute a number.               *)
(*                                                                         *)
(* eval() looks for the operator to split its tokens at, from left to      *)
(* right and with a table of levels; nothing in it knows a grammar.  Here  *)
(* the user thinks of expressions and writes them down with the brackets   *)
(* that the precedences of C call for, no more: Written says what the      *)
(* tokens are and what they mean, CmdP what the monitor makes of them.    *)
(*                                                                         *)
(* A token is a number or the name of an operator: how make_token() finds  *)
(* the tokens in a line, the radices of numbers, registers and symbols are *)
(* left out.  Division by zero, a fault of the host, and shifts by Width   *)
(* bits and more, undefined in C, are never written down.                  *)
(***************************************************************************)
EXTENDS Integers, Sequences, FiniteSets, FiniteSetsExt, Bitwise

CONSTANTS Base,         \* 2 ^ 32 of the program
          Width,        \* its logarithm
          Numbers,      \* the numbers the user writes down
          Unary,        \* the operators that are used
          Binary,
          Memory,       \* vaddr_read() of every address
          MaxTokens     \* bound: the length of an expression

ASSUME SizeAssumption == /\ Width \in Nat \ {0}
                         /\ Base = 2 ^ Width
                         /\ Numbers \subseteq 0 .. Base - 1
                         /\ Memory \in [0 .. Base - 1 -> 0 .. Base - 1]
                         /\ MaxTokens \in Nat \ {0}

VARIABLES stack,        \* the expressions the user has in mind, the last on top
          printed       \* what the monitor has answered

vars == <<stack, printed>>

Word == 0 .. Base - 1
Truth(p) == IF p THEN 1 ELSE 0

(* The precedences of C: the higher, the looser.  A number and brackets    *)
(* are 0, a unary operator is UnaryLevel.                                  *)
UnaryLevel == 2
BinaryLevel(op) ==
  CASE op \in {"*", "/", "%"}         -> 3
    [] op \in {"+", "-"}              -> 4
    [] op \in {"<<", ">>"}            -> 5
    [] op \in {"<", ">", "<=", ">="}  -> 6
    [] op \in {"==", "!="}            -> 7
    [] op = "&"                       -> 8
    [] op = "^"                       -> 9
    [] op = "|"                       -> 10
    [] op = "&&"                      -> 11
    [] op = "||"                      -> 12

\* The operators of C on uint32_t
Apply1(op, a) == CASE op = "!" -> Truth(a = 0)
                   [] op = "~" -> Base - 1 - a
                   [] op = "-" -> (-a) % Base
                   [] op = "*" -> Memory[a]
Apply2(op, a, b) ==
  CASE op = "*"  -> (a * b) % Base
    [] op = "/"  -> a \div b
    [] op = "%"  -> a % b
    [] op = "+"  -> (a + b) % Base
    [] op = "-"  -> (a - b) % Base
    [] op = "<<" -> (a * 2 ^ b) % Base
    [] op = ">>" -> a \div 2 ^ b
    [] op = "<"  -> Truth(a < b)
    [] op = ">"  -> Truth(a > b)
    [] op = "<=" -> Truth(a <= b)
    [] op = ">=" -> Truth(a >= b)
    [] op = "==" -> Truth(a = b)
    [] op = "!=" -> Truth(a # b)
    [] op = "&"  -> a & b
    [] op = "^"  -> a ^^ b
    [] op = "|"  -> a | b
    [] op = "&&" -> Truth(a # 0 /\ b # 0)
    [] op = "||" -> Truth(a # 0 \/ b # 0)
\* a token: its type, and the number when it is one
Num(n) == [type |-> "num", val |-> n]
Op(op) == [type |-> op, val |-> 0]
UnaryTypes == {"!", "~", "-", "*"}
BinaryTypes == {"*", "/", "%", "+", "-", "<<", ">>", "<", ">", "<=", ">=", "==", "!=",
                "&", "^", "|", "&&", "||"}
-----------------------------------------------------------------------------
(* eval(): the value of a sequence of tokens, and *success.                *)

Failed == [ok |-> FALSE, val |-> Base - 1]

\* check_brackets()
Brackets(t, type) == Cardinality({i \in DOMAIN t : t[i].type = type})
Depth(t, i) == Brackets(SubSeq(t, 1, i), "(") - Brackets(SubSeq(t, 1, i), ")")
Balanced(t) == Depth(t, Len(t)) = 0 /\ \A i \in DOMAIN t : Depth(t, i) >= 0

Inner(t) == SubSeq(t, 2, Len(t) - 1)

\* Mutant: that the two brackets belong together is not tested
EnclosedByAny(t) == t[1].type = "(" /\ t[Len(t)].type = ")"

Enclosed(t) == t[1].type = "(" /\ t[Len(t)].type = ")" /\ Balanced(Inner(t))

\* the level the loop gives to a token outside all brackets: a sign is one
\* only where the tokens begin
LevelAt(t, i) ==
  IF t[i].type \in {"!", "~"} \/ (i = 1 /\ t[i].type \in {"-", "*"})
  THEN UnaryLevel ELSE BinaryLevel(t[i].type)

Outside(t) == {i \in DOMAIN t : t[i].type \in UnaryTypes \cup BinaryTypes /\ Depth(t, i) = 0}

\* Mutant: < for <= in the levels of the loop
MainOperatorFirst(t) ==
  Min({i \in Outside(t) : \A j \in Outside(t) : LevelAt(t, j) <= LevelAt(t, i)})

\* pos_op: the loosest operator, of which the first is taken when they are
\* unary and the last when they are binary
MainOperator(t) ==
  LET loosest == Max({LevelAt(t, i) : i \in Outside(t)})
      there == {i \in Outside(t) : LevelAt(t, i) = loosest}
  IN  IF loosest = UnaryLevel THEN Min(there) ELSE Max(there)

\* && and || leave the right operand alone when the left one decides
Decided(op, left) == \/ op = "&&" /\ left.val = 0
                     \/ op = "||" /\ left.val # 0

\* With no operator outside the brackets the code reads tokens[-1], which is
\* no token: taken to be none of the switch.  A `*' before what fails reads
\* memory at -1 all the same, which ends the program where nothing is mapped;
\* here it only fails.
RECURSIVE Eval(_)
Eval(t) ==
  CASE t = <<>> -> Failed
    [] Len(t) = 1 -> IF t[1].type = "num" THEN [ok |-> TRUE, val |-> t[1].val] ELSE Failed
    [] Len(t) > 1 /\ ~Balanced(t) -> Failed
    [] Len(t) > 1 /\ Balanced(t) /\ Enclosed(t) -> Eval(Inner(t))
    [] OTHER ->
       IF Outside(t) = {} THEN Failed
       ELSE LET i == MainOperator(t)
                op == t[i].type
                right == Eval(SubSeq(t, i + 1, Len(t)))
            IN  IF LevelAt(t, i) = UnaryLevel
                THEN IF right.ok THEN [ok |-> TRUE, val |-> Apply1(op, right.val)] ELSE Failed
                ELSE LET left == Eval(SubSeq(t, 1, i - 1))
                     IN  IF left.ok /\ Decided(op, left)
                         THEN [ok |-> TRUE, val |-> Truth(left.val # 0)]
                         ELSE IF left.ok /\ right.ok
                              THEN [ok |-> TRUE, val |-> Apply2(op, left.val, right.val)]
                              ELSE Failed
-----------------------------------------------------------------------------
(* What the user has in mind: an expression, how it is written, how loose  *)
(* its outermost operator is and what C makes of it.                       *)

Written(toks, level, val) == [toks |-> toks, level |-> level, val |-> val]
InBrackets(toks) == <<Op("(")>> \o toks \o <<Op(")")>>
Bracketed(e, level) == IF e.level <= level THEN e.toks ELSE InBrackets(e.toks)

Nowhere == [ok |-> FALSE, val |-> 0]

Init == /\ stack = <<>>
        /\ printed = Nowhere

Top == stack[Len(stack)]
Below == stack[Len(stack) - 1]
Drop(n) == SubSeq(stack, 1, Len(stack) - n)
\* two expressions must leave room for the operator between them
Room(st) == Len(st[1].toks) + (IF Len(st) = 2 THEN Len(st[2].toks) + 1 ELSE 0) <= MaxTokens

Keep(st) == Room(st) /\ stack' = st /\ printed' = Nowhere

Think(n) == /\ Len(stack) < 2
            /\ Keep(Append(stack, Written(<<Num(n)>>, 0, n)))

Prefix(op) ==
  LET e == Written(<<Op(op)>> \o Bracketed(Top, UnaryLevel), UnaryLevel, Apply1(op, Top.val))
  IN  /\ stack # <<>>
      /\ Keep(Append(Drop(1), e))

\* brackets that are not needed do no harm
Enclose == /\ stack # <<>>
           /\ Keep(Append(Drop(1), Written(InBrackets(Top.toks), 0, Top.val)))

\* all binary operators are left associative
Combine(op) ==
  LET level == BinaryLevel(op)
      e == Written(Bracketed(Below, level) \o <<Op(op)>> \o Bracketed(Top, level - 1),
                   level, Apply2(op, Below.val, Top.val))
  IN  /\ Len(stack) = 2
      /\ op \in {"/", "%"} => Top.val # 0
      /\ op \in {"<<", ">>"} => Top.val < Width
      /\ Keep(<<e>>)

\* cmd_p: the expression is typed in
CmdP == /\ stack # <<>>
         /\ printed' = Eval(Top.toks)
         /\ stack' = <<Top>>

Next == \/ \E n \in Numbers : Think(n)
        \/ \E op \in Unary : Prefix(op)
        \/ \E op \in Binary : Combine(op)
        \/ Enclose
        \/ CmdP

Spec == Init /\ [][Next]_vars
-----------------------------------------------------------------------------
(* The stack holds tokens and words. *)
TypeOK == /\ Len(stack) <= 2
          /\ \A i \in DOMAIN stack :
               /\ Len(stack[i].toks) \in 1 .. MaxTokens
               /\ stack[i].val \in Word
               /\ Balanced(stack[i].toks)
          /\ printed \in [ok : BOOLEAN, val : Word]

(* A value the monitor prints is the one that C gives to the expression:   *)
(* every level, the order of operators of one level, brackets and signs    *)
(* are read as in C (the loop of eval()).                                  *)
ValuesAreOfC == printed.ok => printed.val = Top.val

(* A minus or a dereference is read as one only where the tokens begin,    *)
(* after a bracket and after an operator that binds looser than the binary *)
(* one of its name: "1 < -2" is, "1 - -2" and "!-1" are not.               *)
Ends(t, i) == i > 0 /\ t[i].type \in {"num", ")"}
IsSign(t, i) == t[i].type \in {"-", "*"} /\ ~Ends(t, i - 1)
SignIsRead(t, i) == \/ i = 1
                    \/ t[i - 1].type = "("
                    \/ /\ t[i - 1].type \in BinaryTypes
                       /\ Ends(t, i - 2)
                       /\ BinaryLevel(t[i - 1].type) > BinaryLevel(t[i].type)

(* The monitor gives up no expression whose signs it can read: brackets,   *)
(* also ones that both begin and end the line without belonging together,  *)
(* and unary operators anywhere do not confuse it.                         *)
ReadableIsPrinted ==
  [][CmdP /\ (\A i \in DOMAIN Top.toks : IsSign(Top.toks, i) => SignIsRead(Top.toks, i))
       => printed'.ok]_vars
=============================================================================
