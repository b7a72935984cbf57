--------------------------- MODULE TypeResolution ---------------------------
(***************************************************************************)
(* TypeResolver: what a type annotation in a TypeScript file stands for,   *)
(* and the limits that keep types which are built on each other in check:  *)
(* a limit of depth and the search for circular constraints.               *)
(*                                                                         *)
(* A file declares each name at most once, as an interface, an alias, a    *)
(* class or an enum, or imports it.  An interface may extend another type  *)
(* and may have type parameters that are bounded by others, with arguments *)
(* ("applied": T extends B<T>) or without.  No name begins with another    *)
(* one and no type has the name of a parameter in its own, since the code  *)
(* looks names up as parts of a text.  What the bodies of the declarations *)
(* say, and what the imported files build on, is left out.                 *)
(*                                                                         *)
(* A definition called a mutant is a plausible mistake in the definition   *)
(* that follows it; no formula uses it.  Some property fails with it.      *)
(***************************************************************************)
EXTENDS Integers, Sequences, FiniteSets, SequencesExt, FiniteSetsExt

CONSTANTS
  TypeName,    (* the names that the file may declare                      *)
  Parameter,   (* the type parameters of a function                        *)
  MaxLimit,    (* bound on max_constraint_depth                            *)
  MaxEdges,    (* bound on the types that the declarations build on        *)
  Nothing

ASSUME TypeAssumption == MaxLimit \in Nat \ {0} /\ TypeName \cap Parameter = {}

VARIABLES
  declarations, (* of the file                                             *)
  limit,       (* max_constraint_depth                                     *)
  annotation,  (* the annotation, or the type parameters, asked about      *)
  definition   (* what the answer is: of an annotation its kind, of type   *)
               (* parameters a function from constraints to kinds          *)

typeVars == <<declarations, limit, annotation, definition>>

Plain(kind) == [kind |-> kind, base |-> Nothing, bounds |-> <<>>, applied |-> FALSE]

Declaration ==
  {Plain(k) : k \in {"none", "type", "enum", "imported interface", "imported class"}}
  \cup [kind : {"class"}, base : TypeName \cup {Nothing}, bounds : {<<>>}, applied : {FALSE}]
  \cup {d \in [kind : {"interface"}, base : TypeName \cup {Nothing},
               bounds : {b \in UNION {SetToSeqs(S) : S \in SUBSET TypeName} : Len(b) <= 2},
               applied : BOOLEAN] : d.bounds = <<>> => ~d.applied}

Edges(d) == Len(d.bounds) + IF d.base = Nothing THEN 0 ELSE 1

TypesInit ==
  /\ declarations \in [TypeName -> Declaration]
  /\ MapThenSumSet(LAMBDA t : Edges(declarations[t]), TypeName) <= MaxEdges
  /\ limit \in 1..MaxLimit
  /\ annotation = Nothing /\ definition = Nothing

(* What the patterns for a type alias, a class and an enum find.           *)
Kind(t) == IF t \in TypeName THEN declarations[t].kind ELSE "none"
(* _parse_constraint_expressions                                           *)
Bounds(t) == ToSet(declarations[t].bounds)

-----------------------------------------------------------------------------
(* The pattern for an interface that extends another one does not get past *)
(* type parameters whose bounds have arguments of their own.               *)
Base(t) == IF declarations[t].applied THEN Nothing ELSE declarations[t].base

RECURSIVE InheritanceDepth(_, _)
(* _calculate_generic_constraint_depth                                     *)
BoundsDepth(bounds, visited) ==
  Max({0} \cup {InheritanceDepth(b, visited) + 1 : b \in bounds \ visited})

(* Mutant: the types on the way are counted, and not those they build on.  *)
InheritanceDepthNear(t, visited) ==
  IF t \in visited \/ Kind(t) \notin {"interface", "class"} THEN 0
  ELSE IF Base(t) # Nothing THEN 1
  ELSE BoundsDepth(Bounds(t), visited \cup {t})

(* _calculate_inheritance_depth: what a type extends counts, or else what  *)
(* bounds its parameters; only in the same file.                           *)
InheritanceDepth(t, visited) ==
  IF t \in visited \/ Kind(t) \notin {"interface", "class"} THEN 0
  ELSE IF Base(t) # Nothing THEN InheritanceDepth(Base(t), visited \cup {t}) + 1
  ELSE BoundsDepth(Bounds(t), visited \cup {t})

(* _has_circular_interface_constraint: of the parameters of the bound only *)
(* the text up to the first closing bracket is looked at.                  *)
SeenBounds(t) ==
  IF declarations[t].applied THEN {Head(declarations[t].bounds)} ELSE Bounds(t)

CircularWith(t, b) == Kind(b) = "interface" /\ t \in SeenBounds(b)
Circular(t) == \E b \in Bounds(t) : CircularWith(t, b)

-----------------------------------------------------------------------------
(* _find_interface_definition                                              *)
Interface(t) == IF Circular(t) THEN "circular" ELSE "interface"

(* _find_type_in_imports: classes are not looked for.                      *)
Imported(t) == IF Kind(t) = "imported interface" THEN "interface" ELSE "unknown"

(* _find_type_definition: the kinds of a definition, and of the errors.    *)
Limited(t, found) == IF InheritanceDepth(t, {}) > limit THEN "depth exceeded" ELSE found

DeclaredAs(t) ==
  CASE Kind(t) = "interface" -> Limited(t, Interface(t))
    [] Kind(t) = "class" -> Limited(t, "class")
    [] Kind(t) \in {"type", "enum"} -> Kind(t)
    [] OTHER -> Imported(t)

DeclarationErrors == {"depth exceeded", "circular"}
Errors == DeclarationErrors \cup {"unknown type"}

(* The shapes of an annotation: a primitive type, a name, an array, a      *)
(* union with a primitive, or an instantiation, with an argument.          *)
Annotation ==
  [shape : {"primitive"}, name : {Nothing}]
  \cup [shape : {"name", "array", "union", "instance", "builtin"}, name : TypeName]

(* _resolve_basic_type: members of a union and elements of an array are    *)
(* looked up, but their errors become part of the text.                    *)
Basic(a) ==
  CASE a.shape = "primitive" -> "primitive"
    [] a.shape \in {"array", "union"} -> a.shape
    [] a.shape = "builtin" -> "unknown"
    [] OTHER -> DeclaredAs(a.name)

(* _resolve_with_generics                                                  *)
WithGenerics(a) ==
  CASE a.shape = "builtin" -> "utility_type"
    [] a.shape = "instance" ->
         IF DeclaredAs(a.name) \in DeclarationErrors THEN DeclaredAs(a.name) ELSE "generic_instantiation"
    [] OTHER -> Basic(a)

(* _is_recursive_type: the text of every definition holds the name itself, *)
(* also that which says that an annotation is not known.                   *)
RecursiveType(a) ==
  a.shape \in {"name", "instance"} => ~(Kind(a.name) = "interface" /\ Circular(a.name))

(* _resolve_with_full_inference                                            *)
WithInference(a, recursive) ==
  IF recursive /\ RecursiveType(a) THEN "recursive" ELSE WithGenerics(a)

Definition(a, level, recursive) ==
  LET d == CASE level = "basic" -> Basic(a)
             [] level = "generics" -> WithGenerics(a)
             [] level = "full_type" -> WithInference(a, recursive)
  IN  IF d = "unknown" THEN "unknown type" ELSE d

ResolveType ==
  \E a \in Annotation, recursive \in BOOLEAN,
     level \in {"basic", "generics", "full_type"} :
    /\ definition = Nothing
    /\ recursive => level = "full_type"
    /\ annotation' = [asked |-> a, level |-> level]
    /\ definition' = Definition(a, level, recursive)
    /\ UNCHANGED <<declarations, limit>>

-----------------------------------------------------------------------------
(* The type parameters of a function, each bounded by a type or a later    *)
(* or earlier parameter; a type perhaps with a parameter as its argument.  *)
Constraint ==
  [head : TypeName, args : {{}} \cup {{p} : p \in Parameter}]
  \cup [head : Parameter, args : {{}}]

Mentioned(c) == c.args \cup ({c.head} \cap Parameter)

(* _count_constraint_depth, of the shapes that occur here.                 *)
SyntacticDepth(c) == IF c.args = {} THEN 1 ELSE 2

(* _calculate_constraint_dependency_depth: a parameter met again counts as *)
(* 10, which no limit reaches as long as it is less (the tool's is 3).     *)
RECURSIVE DependencyDepth(_, _, _)
DependencyDepth(c, constraints, visited) ==
  LET named == Mentioned(c) \cap DOMAIN constraints
  IN  IF named = {} THEN SyntacticDepth(c)
      ELSE IF named \cap visited # {} THEN 10
      ELSE 1 + Max({DependencyDepth(constraints[p], constraints, visited \cup {p}) :
                      p \in named})

ConstraintDepth(c, constraints) ==
  LET inherited == IF c.head \in TypeName THEN InheritanceDepth(c.head, {}) ELSE 0
  IN  Max({DependencyDepth(c, constraints, {}), inherited})

(* What resolve_type answers for a constraint.                             *)
Answered(c) ==
  IF c.head \in Parameter THEN "unknown type"
  ELSE LET shape == IF c.args = {} THEN "name" ELSE "instance"
       IN  Definition([shape |-> shape, name |-> c.head], "generics", FALSE)

Resolved(c, constraints) ==
  IF ConstraintDepth(c, constraints) > limit THEN "depth exceeded" ELSE Answered(c)

(* The base of an instantiation has an entry of its own; one that cannot   *)
(* be resolved is made up.                                                 *)
BaseEntry(t) ==
  LET d == Answered([head |-> t, args |-> {}])
  IN  IF d \in Errors THEN "interface" ELSE d

(* The names after "extends" in the text of a definition; the text of an   *)
(* error of depth, and of one that was made up, has none.                  *)
Text(t, kind) ==
  IF kind = "class" THEN {declarations[t].base} \ {Nothing}
  ELSE IF kind = "circular" \/ (kind = "interface" /\ Kind(t) = kind /\ DeclaredAs(t) = kind)
       THEN Bounds(t)
  ELSE {}

(* _is_circular_constraint                                                 *)
RECURSIVE IsCircular(_, _, _)
IsCircular(t, texts, visited) ==
  \/ t \in visited
  \/ t \in texts[t]
  \/ \E o \in DOMAIN texts \ {t} : t \in texts[o] /\ IsCircular(o, texts, visited \cup {t})

(* extract_generic_constraints: an entry for every constraint, and one for *)
(* the base of an instantiation, of which the circular ones are told.  The *)
(* inputs do not have one type in both ways, with and without arguments.   *)
ExtractConstraints ==
  \E constraints \in UNION {[P -> Constraint] : P \in SUBSET Parameter \ {{}}} :
    LET asked == {constraints[p] : p \in DOMAIN constraints}
        bare == {c.head : c \in {d \in asked : d.args = {}}}
        bases == {c.head : c \in {d \in asked : d.args # {}}}
        entry == [t \in bare \cup bases |->
                    IF t \in bases THEN BaseEntry(t)
                    ELSE Resolved([head |-> t, args |-> {}], constraints)]
        texts == [t \in bare \cup bases |-> Text(t, entry[t])]
    IN  /\ definition = Nothing
        /\ bases \cap bare = {}
        /\ annotation' = [asked |-> constraints, level |-> "generics"]
        /\ definition' = [entries |-> {Resolved(c, constraints) : c \in asked},
                          circular |-> {t \in bare \cup bases : IsCircular(t, texts, {})}]
        /\ UNCHANGED <<declarations, limit>>

TypesNext == ResolveType \/ ExtractConstraints

TypesSpec == TypesInit /\ [][TypesNext]_typeVars

-----------------------------------------------------------------------------
(* The types that a type of the file directly builds on, as far as the     *)
(* code looks.                                                             *)
BuildsOn(t) ==
  IF Kind(t) \notin {"interface", "class"} THEN {}
  ELSE IF Base(t) # Nothing THEN {Base(t)} ELSE Bounds(t)

(* The ways from a type down the types it builds on.                       *)
Chains ==
  {c \in UNION {SetToSeqs(S) : S \in SUBSET TypeName \ {{}}} :
     \A i \in 1..(Len(c) - 1) : c[i + 1] \in BuildsOn(c[i])}

Loops(t) == \E c \in Chains : c[1] = t /\ \E i \in 1..Len(c) : c[i] \in BuildsOn(Last(c))

Longest(t) == Max({Len(c) - 1 : c \in {e \in Chains : e[1] = t}})

(* A name that is answered by a declaration of the file has no chain of    *)
(* types below it that is longer than the limit, and one with an error of  *)
(* depth has one, or goes round in a circle; but an answer that stands for *)
(* a recursive type is given without looking.  Type parameters are bounded *)
(* by such types, and not in a circle, or there is an error of depth.      *)
DepthLimited ==
  definition # Nothing =>
    IF "shape" \in DOMAIN annotation.asked
    THEN annotation.asked.shape = "name" =>
           LET t == annotation.asked.name
           IN  /\ definition \in {"interface", "class"} /\ Kind(t) = definition => Longest(t) <= limit
               /\ definition = "depth exceeded" => Longest(t) > limit \/ Loops(t)
    ELSE LET constraints == annotation.asked
         IN  "depth exceeded" \notin definition.entries =>
               \A p \in DOMAIN constraints :
                 /\ constraints[p].head \in TypeName => Longest(constraints[p].head) <= limit
                 /\ \A q \in DOMAIN constraints :
                      q \in Mentioned(constraints[p]) => p \notin Mentioned(constraints[q])

(* The same for what the declarations say: refuted, as bounds with         *)
(* arguments hide what an interface extends.                               *)
InheritanceLimited ==
  \A t \in TypeName :
    /\ Kind(t) = "interface" /\ declarations[t].base # Nothing
    /\ DeclaredAs(t) \notin DeclarationErrors /\ Kind(declarations[t].base) \in {"interface", "class"}
    => InheritanceDepth(declarations[t].base, {}) < limit

(* Interfaces whose parameters bound each other in a circle are refused:   *)
(* refuted for circles of three, and with arguments.                       *)
BoundsInCircleFound ==
  \A t \in TypeName :
    /\ \A n \in TypeName : Kind(n) = "interface" => declarations[n].base = Nothing
    /\ Loops(t) /\ \A n \in TypeName : Kind(n) # "class"
    => DeclaredAs(t) \in DeclarationErrors

(* What cannot be resolved is an error: refuted for arrays, unions and     *)
(* instantiations of types that do not exist.                              *)
UnknownReported ==
  definition \in STRING /\ annotation.asked.shape # "builtin"
  /\ annotation.asked.shape # "primitive" /\ Kind(annotation.asked.name) = "none"
  => definition \in Errors

(* "<T extends BaseEntity, U extends T>", the example of the code, has no  *)
(* errors if BaseEntity has none: refuted, T is an unknown type.           *)
ExampleResolved ==
  \A p, q \in Parameter, t \in TypeName :
    /\ definition # Nothing /\ DOMAIN annotation.asked = {p, q}
    /\ limit = 2 /\ DeclaredAs(t) \notin Errors \cup {"unknown"}
    /\ annotation.asked = [x \in {p, q} |-> [head |-> IF x = p THEN t ELSE p, args |-> {}]]
    => definition.entries \cap Errors = {}
=============================================================================
