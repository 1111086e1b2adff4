---------------------------- MODULE MCRoundTrip ----------------------------
(* Two bots, one with a UUID, and a person who goes by the name of one.    *)
EXTENDS RoundTrip

CONSTANTS app1, app2, uuid1, ann, bob, word, rnd, rndEscaped, beak, annName, t1

TwoBots == <<<<uuid1, app1>>, <<Absent, app2>>>>

EscapedNames == [n \in Names |-> IF n = rnd THEN rndEscaped ELSE n]

Display ==
    [who \in {InChat(app1), InChat(app2), Person(ann), Person(bob), Everyone} |->
        CASE who = InChat(app1) -> rnd
          [] who = InChat(app2) -> beak
          [] who = Person(ann)  -> rnd
          [] who = Person(bob)  -> annName
          [] OTHER -> Everyone]

Text(path, w) == [text |-> w, path |-> path]
Container == <<"items">>
ColumnSet == <<"items", "columns">>

Cards ==
    {<<[name |-> Absent, card |-> <<Text(Container \o Container, word), Text(ColumnSet, beak),
                                    Text(<<>>, word)>>],
       [name |-> annName, card |-> <<>>]>>,
     <<[name |-> annName, card |-> <<Text(Container \o Container \o Container, word),
                                     Text(ColumnSet \o Container, beak),
                                     Text(<<>>, Absent)>>]>>,
     <<[name |-> Absent, card |-> <<Text(ColumnSet \o Container, word)>>]>>}

Spoken ==
    {Said(s, <<>>) :
        s \in {<<>>, <<InChat(app1)>>, <<InChat(app2), word, InChat(app1)>>,
               <<Person(ann), word, InChat(app1)>>, <<Everyone, word, Person(ann)>>}}
    \cup {Said(<<>>, c) : c \in Cards}
    \cup {Said(<<word>>, <<[name |-> annName, card |-> <<>>]>>)}

(* A Filter is a SelectSeq. *)
ASSUME FilterAssumption ==
    \A s \in BoundedSeq(Names, 4) :
        Filter(s, LAMBDA x : x # rnd) = SelectSeq(s, LAMBDA x : x # rnd)

(* appendStructuredText as it is written, one value after the other.       *)
RECURSIVE StructuredText(_, _)
StructuredText(value, depth) ==
    IF depth > MaxTextDepth THEN <<>>
    ELSE IF value.kind = "string" THEN SelectSeq(<<value.text>>, LAMBDA t : t # Absent)
    ELSE FlattenSeq([i \in DOMAIN Inside(value) |-> StructuredText(Inside(value)[i], depth + 1)])

(* Small JSON values, and the same within so many arrays.                  *)
Leaves == {Null} \cup {[kind |-> "string", text |-> t] : t \in {word, beak, Absent}}
Around(values) ==
    {Array(items) : items \in BoundedSeq(values, 2)}
    \cup {[kind |-> "object", fields |-> fields] :
             fields \in UNION {[keys -> values] : keys \in SUBSET {"facts", "text", "other"}}}

RECURSIVE Wrapped(_, _)
Wrapped(value, n) == IF n = 0 THEN value ELSE Array(<<Wrapped(value, n - 1)>>)

(* What is found level by level is what is found in the code's order.      *)
ASSUME FragmentsAssumption ==
    \A value \in Leaves \cup Around(Leaves) \cup
                   {Array(<<v, w>>) : v \in Leaves, w \in Around(Leaves)} :
        \A n \in {0, 1, MaxTextDepth - 2, MaxTextDepth - 1, MaxTextDepth, MaxTextDepth + 1} :
            Fragments(Wrapped(value, n)) = StructuredText(Wrapped(value, n), 0)

(* The names and accounts of this instance are those the theorems speak of. *)
ASSUME NamesAssumption == PlainNames /\ DistinctAccounts

Answers == {<<>>, <<At(rnd), word>>, <<At(rndEscaped), word>>}
=============================================================================
