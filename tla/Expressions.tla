----------------------------- MODULE Expressions -----------------------------
(***************************************************************************)
(* The expressions of templates and conditions, "a subset of JavaScript":  *)
(* the parser, against a definition of the language by its loosest         *)
(* operator, and the operators, against those of JavaScript.               *)
(*                                                                         *)
(* The text is given as tokens; one name, one property and one operator of *)
(* each level (two where the level matters for associativity or as unary   *)
(* operator) stand for all.  Numbers are in halves, so that the quotients  *)
(* of small numbers are among them.                                        *)
(***************************************************************************)
EXTENDS Integers, Sequences, FiniteSets, SequencesExt, FiniteSetsExt

CONSTANTS
  MaxTokens  (* bound on the length of an expression                       *)

ASSUME ExpressionsAssumption == MaxTokens \in Nat

-----------------------------------------------------------------------------
(* ExpressionParser: one method for each level of binary operators.        *)
Level == <<{"||"}, {"&&"}, {"==="}, {"<"}, {"+", "-"}, {"*"}>>
Unary == {"!", "-"}

Binary(op, l, r) == [node |-> op, parts |-> <<l, r>>]
Leaf(t) == [node |-> t, parts |-> <<>>]

(* A method of the parser returns the tree and the position after it, or   *)
(* raises an ExpressionError.                                              *)
Error == [tree |-> Leaf("error"), at |-> 0]
At(tokens, i) == IF i <= Len(tokens) THEN tokens[i] ELSE "EOF"

RECURSIVE Ternary(_, _), BinaryLevel(_, _, _), Operands(_, _, _), UnaryOp(_, _), Postfix(_, _), Primary(_, _)

Ternary(tokens, i) ==
  LET c == BinaryLevel(1, tokens, i)
      t == Ternary(tokens, c.at + 1)
      e == Ternary(tokens, t.at + 1)
  IN  IF c = Error THEN Error
      ELSE IF At(tokens, c.at) # "?" THEN c
      ELSE IF t = Error \/ At(tokens, t.at) # ":" \/ e = Error THEN Error
      ELSE [tree |-> [node |-> "?", parts |-> <<c.tree, t.tree, e.tree>>], at |-> e.at]

(* Mutant: the operators of a level are grouped from the right.            *)
OperandsRight(k, left, tokens) ==
  IF left = Error \/ At(tokens, left.at) \notin Level[k] THEN left
  ELSE LET right == BinaryLevel(k, tokens, left.at + 1)
       IN  IF right = Error THEN Error
           ELSE [tree |-> Binary(tokens[left.at], left.tree, right.tree), at |-> right.at]

(* The loop of a level: left is what has been parsed so far.               *)
Operands(k, left, tokens) ==
  IF left = Error \/ At(tokens, left.at) \notin Level[k] THEN left
  ELSE LET right == BinaryLevel(k + 1, tokens, left.at + 1)
       IN  IF right = Error THEN Error
           ELSE Operands(k, [tree |-> Binary(tokens[left.at], left.tree, right.tree),
                             at |-> right.at], tokens)

BinaryLevel(k, tokens, i) ==
  IF k > Len(Level) THEN UnaryOp(tokens, i)
  ELSE Operands(k, BinaryLevel(k + 1, tokens, i), tokens)

UnaryOp(tokens, i) ==
  IF At(tokens, i) \notin Unary THEN Postfix(tokens, Primary(tokens, i))
  ELSE LET operand == UnaryOp(tokens, i + 1)
       IN  IF operand = Error THEN Error
           ELSE [tree |-> [node |-> tokens[i], parts |-> <<operand.tree>>], at |-> operand.at]

Postfix(tokens, left) ==
  IF left = Error \/ At(tokens, left.at) # ".p" THEN left
  ELSE Postfix(tokens, [tree |-> [node |-> ".p", parts |-> <<left.tree>>], at |-> left.at + 1])

Primary(tokens, i) ==
  IF At(tokens, i) = "a" THEN [tree |-> Leaf("a"), at |-> i + 1]
  ELSE IF At(tokens, i) # "(" THEN Error
  ELSE LET e == Ternary(tokens, i + 1)
       IN  IF e = Error \/ At(tokens, e.at) # ")" THEN Error ELSE [e EXCEPT !.at = @ + 1]

(* parse; what follows the expression is not looked at.                    *)
Parse(tokens) == Ternary(tokens, 1)

-----------------------------------------------------------------------------
(* The language: an expression is divided at the loosest operator that is  *)
(* outside all brackets.                                                   *)
EndsOperand(t) == t \in {"a", ".p", ")"}
Depth(tokens, i) ==
  Cardinality({j \in 1..(i - 1) : tokens[j] = "("}) - Cardinality({j \in 1..i : tokens[j] = ")"})
Outside(tokens, ops) ==
  {i \in 2..Len(tokens) : tokens[i] \in ops /\ Depth(tokens, i) = 0 /\ EndsOperand(tokens[i - 1])}

(* The ":" of the first "?": as many of them as of "?" up to there.        *)
Colon(tokens) ==
  Min({i \in Outside(tokens, {":"}) :
         Cardinality({j \in Outside(tokens, {":"}) : j <= i})
           = Cardinality({j \in Outside(tokens, {"?"}) : j <= i})})

RECURSIVE Tree(_)
Tree(tokens) ==
  LET n == Len(tokens)
      part(i, j) == Tree(SubSeq(tokens, i, j))
      levels == {k \in DOMAIN Level : Outside(tokens, Level[k]) # {}}
  IN  IF Outside(tokens, {"?"}) # {}
      THEN LET q == Min(Outside(tokens, {"?"}))
               c == Colon(tokens)
           IN  [node |-> "?", parts |-> <<part(1, q - 1), part(q + 1, c - 1), part(c + 1, n)>>]
      ELSE IF levels # {}
      THEN LET i == Max(Outside(tokens, Level[Min(levels)]))
           IN  Binary(tokens[i], part(1, i - 1), part(i + 1, n))
      ELSE IF tokens[1] \in Unary THEN [node |-> tokens[1], parts |-> <<part(2, n)>>]
      ELSE IF tokens[n] = ".p" THEN [node |-> ".p", parts |-> <<part(1, n - 1)>>]
      ELSE IF n = 1 THEN Leaf("a") ELSE part(2, n - 1)

-----------------------------------------------------------------------------
(* Values: numbers (int and float, which Python keeps apart) in halves or  *)
(* NaN or infinite, booleans, null, which also stands for undefined,       *)
(* strings and lists.                                                      *)
Value(ty, n, s) == [type |-> ty, half |-> n, text |-> s]
Whole(n) == Value("int", n, "")
Float(n) == Value("float", n, "")
NaN == Value("float", 0, "nan")
Inf(positive) == Value("float", 0, IF positive THEN "inf" ELSE "-inf")
Null == Value("null", 0, "")
Bool(b) == Value("bool", IF b THEN 2 ELSE 0, "")
List == Value("list", 0, "")
Str(s) == Value("str", 0, s)

Operand ==
  {Whole(n) : n \in {-2, 0, 2, 4}} \cup {Float(n) : n \in {1, 2}} \cup {NaN, Inf(TRUE), Null, List}
    \cup {Bool(b) : b \in BOOLEAN} \cup {Str(s) : s \in {"", "1", "a"}}
Operator == {"&&", "||", "==", "===", "<", ">=", "+", "-", "*", "/", "%"}

Is(v, ty) == v.type = ty
Number(v) == v.type \in {"int", "float"}
Finite(v) == Number(v) /\ v.text = ""
Sign(v) == IF v.text = "inf" THEN 1 ELSE IF v.text = "-inf" THEN -1
           ELSE IF v.half > 0 THEN 1 ELSE IF v.half < 0 THEN -1 ELSE 0

(* _to_boolean                                                             *)
ToBoolean(v) ==
  CASE Is(v, "null") -> FALSE
    [] Is(v, "bool") -> v.half # 0
    [] Number(v) -> v # NaN /\ Sign(v) # 0
    [] Is(v, "str") -> v.text # ""
    [] OTHER -> TRUE

(* _to_number                                                              *)
ToNumber(v) ==
  CASE Is(v, "null") -> Whole(0)
    [] Is(v, "bool") -> Whole(v.half)
    [] Number(v) -> v
    [] Is(v, "str") /\ v.text \in {"", "1"} -> Whole(IF v.text = "1" THEN 2 ELSE 0)
    [] OTHER -> NaN

(* Arithmetic of Python and of JavaScript, as far as they are the same.    *)
Kind(v, w) == IF Is(v, "int") /\ Is(w, "int") THEN "int" ELSE "float"
Negated(v) == IF Finite(v) THEN Value(v.type, -v.half, "") ELSE IF v = NaN THEN NaN ELSE Inf(v.text # "inf")
Plus(v, w) ==
  CASE v = NaN \/ w = NaN -> NaN
    [] Finite(v) /\ Finite(w) -> Value(Kind(v, w), v.half + w.half, "")
    [] ~Finite(v) /\ ~Finite(w) -> IF v = w THEN v ELSE NaN
    [] OTHER -> IF Finite(v) THEN w ELSE v
Times(v, w) ==
  CASE v = NaN \/ w = NaN -> NaN
    [] Finite(v) /\ Finite(w) -> Value(Kind(v, w), (v.half * w.half) \div 2, "")
    [] OTHER -> IF Sign(v) * Sign(w) = 0 THEN NaN ELSE Inf(Sign(v) * Sign(w) > 0)
Over(v, w) ==  (* w # 0 *)
  CASE v = NaN \/ w = NaN -> NaN
    [] Finite(v) /\ Finite(w) -> Float((2 * v.half * Sign(w)) \div (w.half * Sign(w)))
    [] ~Finite(v) /\ ~Finite(w) -> NaN
    [] OTHER -> IF Finite(v) THEN Float(0) ELSE Inf(Sign(v) * Sign(w) > 0)
Below(v, w) ==
  v # NaN /\ w # NaN /\ IF Finite(v) /\ Finite(w) THEN v.half < w.half
                        ELSE v # w /\ (v.text = "-inf" \/ w.text = "inf")
Equal(v, w) == v # NaN /\ w # NaN /\ v.half = w.half /\ v.text = w.text

(* _strict_equals and _loose_equals; bool is a kind of int.                *)
StrictEquals(v, w) == v.type = w.type /\ Equal(v, w)

RECURSIVE LooseEquals(_, _)
LooseEquals(v, w) ==
  CASE v.type = w.type -> Equal(v, w)
    [] (Number(v) \/ Is(v, "bool")) /\ Is(w, "str") -> w.text = "1" /\ Equal(Whole(v.half), Whole(2)) /\ v.text = ""
    [] Is(v, "str") /\ (Number(w) \/ Is(w, "bool")) -> LooseEquals(w, v)
    [] Is(v, "bool") -> LooseEquals(Whole(v.half), w)
    [] Is(w, "bool") -> LooseEquals(v, Whole(w.half))
    [] OTHER -> FALSE

(* Concatenation, with the texts that str() makes of the values.  Those of *)
(* JavaScript are others for true, null, lists, 1.0, NaN and infinities.   *)
Concat(a, b) == [type |-> "text", parts |-> <<a, b>>]
SameText(v) == v.type \in {"str", "int"} \/ (Is(v, "float") /\ Finite(v) /\ v.half % 2 # 0)
ScriptText(v) == IF SameText(v) THEN v ELSE Value("script", v.half, v.text)

(* The remainder of Python has the sign of the divisor.                    *)
Remainder(v, w) ==
  CASE v = NaN \/ w = NaN \/ ~Finite(v) -> NaN
    [] Finite(v) /\ Finite(w) /\ Sign(w) > 0 -> Value(Kind(v, w), v.half % w.half, "")
    [] Finite(v) /\ Finite(w) /\ Sign(w) <= 0 -> Value(Kind(v, w), -((-v.half) % (-w.half)), "")
    [] OTHER -> IF Sign(v) * Sign(w) < 0 THEN w ELSE v

(* Mutant: && is taken for an operator on booleans.                        *)
AndOfBooleans(v, w) == Bool(ToBoolean(v) /\ ToBoolean(w))

And(v, w) == IF ToBoolean(v) THEN w ELSE v

(* _evaluate_binary_op; a division by zero raises in %.                    *)
Raised == [type |-> "raised"]
BinaryResult(op, v, w) ==
  LET a == ToNumber(v)
      b == ToNumber(w)
      zero == b # NaN /\ Sign(b) = 0
  IN CASE op = "&&" -> And(v, w)
       [] op = "||" -> IF ToBoolean(v) THEN v ELSE w
       [] op = "==" -> Bool(LooseEquals(v, w))
       [] op = "===" -> Bool(StrictEquals(v, w))
       [] op = "<" -> Bool(Below(a, b))
       [] op = ">=" -> Bool(Below(b, a) \/ Equal(a, b))
       [] op = "+" -> IF Is(v, "str") \/ Is(w, "str") THEN Concat(v, w) ELSE Plus(a, b)
       [] op = "-" -> Plus(a, Negated(b))
       [] op = "*" -> Times(a, b)
       [] op = "/" -> IF zero THEN Inf(a # NaN /\ Sign(a) > 0) ELSE Over(a, b)
       [] op = "%" -> IF zero THEN Raised ELSE Remainder(a, b)

-----------------------------------------------------------------------------
(* JavaScript.  The list is [1, 2], and two lists are two objects.         *)
Textual(v) == v.type \in {"str", "list"}
Rank(v) == CASE v = Str("") -> 0 [] v = Str("1") -> 1 [] v = List -> 2 [] OTHER -> 3
Magnitude(v) == IF Sign(v) < 0 THEN Negated(v) ELSE v

ScriptEquals(v, w) ==
  IF Number(v) THEN Number(w) /\ Equal(v, w) ELSE v = w /\ ~Is(v, "list")
ScriptLooseEquals(v, w) ==
  \/ ScriptEquals(v, w)
  \/ /\ v.type \notin {"null", "list"} /\ w.type \notin {"null", "list"}
     /\ ~(Is(v, "str") /\ Is(w, "str"))
     /\ Equal(ToNumber(v), ToNumber(w))
ScriptBelow(v, w) ==
  IF Textual(v) /\ Textual(w) THEN Rank(v) < Rank(w) ELSE Below(ToNumber(v), ToNumber(w))
ScriptEqual(v, w) ==
  IF Textual(v) /\ Textual(w) THEN Rank(v) = Rank(w) ELSE Equal(ToNumber(v), ToNumber(w))

Script(op, v, w) ==
  LET a == ToNumber(v)
      b == ToNumber(w)
      truthy == v \notin {Null, Bool(FALSE), Str(""), NaN} /\ ~(Number(v) /\ Sign(v) = 0)
      zero == b # NaN /\ Sign(b) = 0
  IN CASE op = "&&" -> IF truthy THEN w ELSE v
       [] op = "||" -> IF truthy THEN v ELSE w
       [] op = "==" -> Bool(ScriptLooseEquals(v, w))
       [] op = "===" -> Bool(ScriptEquals(v, w))
       [] op = "<" -> Bool(ScriptBelow(v, w))
       [] op = ">=" -> Bool(ScriptBelow(w, v) \/ ScriptEqual(v, w))
       [] op = "+" -> IF Textual(v) \/ Textual(w) THEN Concat(ScriptText(v), ScriptText(w)) ELSE Plus(a, b)
       [] op = "-" -> Plus(a, Negated(b))
       [] op = "*" -> Times(a, b)
       [] op = "/" -> IF ~zero THEN Over(a, b)
                      ELSE IF a = NaN \/ Sign(a) = 0 THEN NaN ELSE Inf(Sign(a) > 0)
       [] op = "%" -> IF zero THEN NaN
                      ELSE IF Sign(a) < 0 THEN Negated(Remainder(Negated(a), Magnitude(b)))
                      ELSE Remainder(a, Magnitude(b))

(* JavaScript has one kind of number.                                      *)
Same(r, s) ==
  IF r.type \in {"int", "float"} /\ s.type \in {"int", "float"}
  THEN r.half = s.half /\ r.text = s.text
  ELSE r = s

(* Where the code does otherwise.                                          *)
Differs(op, v, w) ==
  LET mixed == Number(v) /\ Number(w) /\ v.type # w.type
      lists == Is(v, "list") /\ Is(w, "list")
      a == ToNumber(v)
      b == ToNumber(w)
  IN CASE op = "===" -> mixed \/ lists
       [] op = "==" -> \/ mixed \/ lists
                       \/ {v.type, w.type} = {"bool", "float"}
                       \/ Str("") \in {v, w} /\ (Number(v) \/ Number(w) \/ Is(v, "bool") \/ Is(w, "bool"))
       [] op \in {"<", ">="} -> Textual(v) /\ Textual(w)
       [] op = "+" -> \/ Is(v, "list") \/ Is(w, "list")
                      \/ (Is(v, "str") \/ Is(w, "str")) /\ ~(SameText(v) /\ SameText(w))
       [] op = "/" -> b # NaN /\ Sign(b) = 0 /\ (a = NaN \/ Sign(a) = 0)
       [] op = "%" -> (a # NaN /\ Sign(a) < 0) \/ (b # NaN /\ Sign(b) <= 0)
       [] OTHER -> FALSE

-----------------------------------------------------------------------------
VARIABLES
  tokens,    (* the expression so far                                      *)
  open,      (* its open brackets and "?"                                  *)
  operation  (* an operator and two operands                               *)

expressionVars == <<tokens, open, operation>>

ExpressionInit ==
  /\ tokens = <<>> /\ open = <<>>
  /\ operation \in Operator \X Operand \X Operand

WantsOperand == tokens = <<>> \/ ~EndsOperand(Last(tokens))
Complete == ~WantsOperand /\ open = <<>>

(* The expressions of the language, token by token.                        *)
Type(t) ==
  /\ Len(tokens) < MaxTokens
  /\ tokens' = Append(tokens, t)
  /\ IF WantsOperand THEN t \in Unary \cup {"a", "("}
     ELSE \/ t \in UNION {Level[k] : k \in DOMAIN Level} \cup {".p", "?"}
          \/ t \in {")", ":"} /\ open # <<>> /\ Last(open) = (IF t = ")" THEN "(" ELSE "?")
  /\ open' = IF t \in {"(", "?"} THEN Append(open, t) ELSE IF t \in {")", ":"} THEN Front(open) ELSE open
  /\ UNCHANGED operation

Token == UNION {Level[k] : k \in DOMAIN Level} \cup Unary \cup {"a", "(", ")", ".p", "?", ":"}

ExpressionNext == \E t \in Token : Type(t)

(* Every expression of the language is parsed, to its end and into the     *)
(* tree that the loosest operators make, grouped from the left, with the   *)
(* conditional from the right; nothing that is incomplete is.              *)
ParsedByPrecedence ==
  IF Complete THEN Parse(tokens) = [tree |-> Tree(tokens), at |-> Len(tokens) + 1]
  ELSE Parse(tokens).at # Len(tokens) + 1

(* The operators compute what they do in JavaScript ("using JavaScript     *)
(* rules", expressions.py:869), whatever their operands are converted      *)
(* from, except where Differs lists them.                                  *)
OperatorsAgree ==
  LET op == operation[1]  v == operation[2]  w == operation[3]
  IN  Differs(op, v, w) \/ Same(BinaryResult(op, v, w), Script(op, v, w))

(* An expression means what it means in JavaScript: it is parsed as there, *)
(* and the operators compute the same.                                     *)
ExpressionsAgree == ParsedByPrecedence /\ OperatorsAgree

(* The same without exception: 4 / 2 === 2 is false, as the quotient is a  *)
(* float and the literal an int.                                           *)
OperatorsLikeJavaScript ==
  Same(BinaryResult(operation[1], operation[2], operation[3]), Script(operation[1], operation[2], operation[3]))
=============================================================================
