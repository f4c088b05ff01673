----------------------------- MODULE FlatConfig -----------------------------
(***************************************************************************)
(* flat_dataclass.py: the tree of configurations is flattened to one class *)
(* whose fields are the command line's arguments, and the tree is rebuilt  *)
(* from a parsed command line.                                             *)
(***************************************************************************)
EXTENDS ConfigTree, Integers, FiniteSets

-----------------------------------------------------------------------------
(* create_flat_dataclass *)

Prefix(class) == IF class = Root THEN "" ELSE class \o "_"

NoFlat == [fields |-> <<>>, args |-> <<>>, deps |-> [c \in Classes |-> {}], done |-> {}]

(* process_dataclass: args holds, per field of a class, the flat name, the  *)
(* field's own name and the class.                                          *)
RECURSIVE Process(_, _)
Process(class, flat) ==
    LET Field(f, acc) ==
            IF f \in DOMAIN Alternatives
            THEN LET subclasses == {Alternatives[f][i][2] : i \in DOMAIN Alternatives[f]}
                     typed == [acc EXCEPT !.args = Append(@, <<class, f, f>>),
                                          !.fields = Append(@, f \o "_type"),
                                          !.deps[class] = @ \cup subclasses]
                 IN  FoldLeft(LAMBDA a, c : Process(c[2], a), typed, Alternatives[f])
            ELSE IF f \in Dataclasses
            THEN Process(f, [acc EXCEPT !.args = Append(@, <<class, f, f>>),
                                        !.deps[class] = @ \cup {f}])
            ELSE [acc EXCEPT !.args = Append(@, <<class, Prefix(class) \o f, f>>),
                             !.fields = Append(@, Prefix(class) \o f)]
    IN  IF class \in flat.done THEN flat
        ELSE FoldLeft(LAMBDA acc, f : Field(f, acc),
                      [flat EXCEPT !.done = @ \cup {class}], Fields[class])

FlatClass == Process(Root, NoFlat)

-----------------------------------------------------------------------------
(* topological_sort *)

InSomeOrder(S) == FoldSet(LAMBDA c, seq : Append(seq, c), <<>>, S)

RECURSIVE Sorted(_, _, _)
Sorted(deps, ready, degree) ==
    IF ready = <<>> THEN <<>>
    ELSE LET class == Head(ready)
             less == [c \in Classes |->
                        IF c \in deps[class] THEN degree[c] - 1 ELSE degree[c]]
             freed == {c \in deps[class] : less[c] = 0}
         IN  <<class>> \o Sorted(deps, Tail(ready) \o InSomeOrder(freed), less)

TopologicalSort(deps) ==
    LET degree == [c \in Classes |-> Cardinality({d \in Classes : c \in deps[d]})]
    IN  Sorted(deps, SelectSeq(InSomeOrder(Classes), LAMBDA c :
                                    deps[c] # {} /\ degree[c] = 0), degree)

-----------------------------------------------------------------------------
(* create_from_cli_args.  A command line gives at most one value per flat   *)
(* name; argparse rejects a name it does not know.                          *)

Arguments == Range(FlatClass.fields)
BoolArguments == {a \in Arguments : \E x \in Range(FlatClass.args) :
                    x[2] = a /\ x[3] \in BoolFields}
Accepted(names) ==
    names \subseteq Arguments \cup {"no-" \o a : a \in BoolArguments}

(* The value of a flat name: that of a list of booleans is converted by     *)
(* bool(), for which every text is true.                                    *)
Parsed(given, name) ==
    IF name \notin DOMAIN given THEN "default"
    ELSE IF \E x \in Range(FlatClass.args) : x[2] = name /\ x[3] \in BoolListFields
    THEN "True"
    ELSE given[name]

TypeGiven(given, f) ==
    IF f \o "_type" \in DOMAIN given THEN given[f \o "_type"] ELSE DefaultType[f]

(* reconstruct_original_dataclass: instances are built from the leaves up;  *)
(* a field takes the instance of its class, or of the alternative whose     *)
(* type is given.                                                           *)
Chosen(f, type) == (CHOOSE c \in Range(Alternatives[f]) : c[1] = type)[2]

(* Seeded fault: the type is that of the field's default.                   *)
InstanceOfDefault(instances, f, given) == instances[Chosen(f, DefaultType[f])]

Instance(instances, f, given) == instances[Chosen(f, TypeGiven(given, f))]

Reconstruct(given) ==
    LET flat == FlatClass
        Value(instances, x) ==
            IF x[3] \in DOMAIN Alternatives THEN Instance(instances, x[3], given)
            ELSE IF x[3] \in Dataclasses THEN instances[x[3]]
            ELSE Parsed(given, x[2])
        Build(instances, class) ==
            LET own == {x \in Range(flat.args) : x[1] = class}
            IN  [instances EXCEPT ![class] =
                    [name |-> class, values |-> {<<x[3], Value(instances, x)>> : x \in own}]]
        order == Reverse(TopologicalSort(flat.deps))
        none == [c \in Classes |-> [name |-> "missing", values |-> {}]]
    IN  FoldLeft(Build, none, order)[Root]

-----------------------------------------------------------------------------
(* What the flat class is for: the configuration the arguments describe.    *)

RECURSIVE Described(_, _)
Described(class, given) ==
    [name |-> class,
     values |-> {<<f, IF f \in DOMAIN Alternatives
                      THEN Described(Chosen(f, TypeGiven(given, f)), given)
                      ELSE IF f \in Dataclasses THEN Described(f, given)
                      ELSE LET name == IF class = Root THEN f ELSE class \o "_" \o f
                           IN  IF name \in DOMAIN given THEN given[name] ELSE "default">>
                 : f \in Range(Fields[class])}]

(* The flat names are distinct although they are made by joining names, and *)
(* a command line gives exactly the configuration it describes: each value  *)
(* reaches the field of the class it is named for, in the configurations    *)
(* that are chosen, everything else is the default.  (Lists of booleans are *)
(* an exception: see Parsed.)                                               *)
RoundTrip(given) ==
    /\ Cardinality(Arguments) = Len(FlatClass.fields)
    /\ Reconstruct(given) = Described(Root, given)
=============================================================================
