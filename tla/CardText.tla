------------------------------ MODULE CardText ------------------------------
(***************************************************************************)
(* The text of an activity: its own, or else what is found in the cards    *)
(* attached to it.  A JSON value has a kind: "string" with its text,       *)
(* "array" with its items, "object" with its fields (a function on keys),  *)
(* or another, which has no text.                                          *)
(***************************************************************************)
EXTENDS Accounts, SequencesExt  \* Accounts for Absent: here a text that is blank

CONSTANT MaxTextDepth \* of nested values (8)

ASSUME CardTextAssumption == MaxTextDepth \in Nat

(* A sequence without the members at other positions, and without those    *)
(* that fail a test: SelectSeq, said in terms that a proof can use.        *)
Picked(s, positions) ==
    [k \in 1..Cardinality(positions) |->
        s[CHOOSE i \in positions : Cardinality({j \in positions : j <= i}) = k]]

Filter(s, Test(_)) == Picked(s, {i \in DOMAIN s : Test(s[i])})

(* No JSON at all is JSON's null. *)
Null == [kind |-> "null"]

(* The keys looked into, in this order. *)
TextKeys == <<"title", "text", "value", "label", "fallbackText", "altText", "speak",
              "body", "items", "columns", "facts", "actions">>

(* What is directly inside a value; a string stands for itself.            *)
Inside(value) ==
    CASE value.kind = "string" -> <<value>>
      [] value.kind = "array"  -> value.items
      [] value.kind = "object" ->
           LET keys == Filter(TextKeys, LAMBDA k : k \in DOMAIN value.fields)
           IN [i \in DOMAIN keys |-> value.fields[keys[i]]]
      [] OTHER -> <<>>

(* Values opened in place, so that texts stay in the order they are found. *)
Opened(values) == FlattenSeq([i \in DOMAIN values |-> Inside(values[i])])

Levels(value) ==
    LET level[depth \in 0..MaxTextDepth] ==
            IF depth = 0 THEN <<value>> ELSE Opened(level[depth - 1])
    IN level

(* appendStructuredText: the texts in a value that are not too deep.       *)
Fragments(value) ==
    LET strings == Filter(Levels(value)[MaxTextDepth], LAMBDA v : v.kind = "string")
    IN Filter([i \in DOMAIN strings |-> strings[i].text], LAMBDA t : t # Absent)

(* Defect: a text is repeated wherever the card repeats it. *)
JoinUnique_All(texts) == Filter(texts, LAMBDA t : t # Absent)

(* The texts that are not blank, each where it is first found.             *)
JoinUnique(texts) ==
    Picked(texts, {i \in DOMAIN texts :
                      texts[i] # Absent /\ \A j \in 1..(i - 1) : texts[j] # texts[i]})

(* An attachment without text stands by its name.                          *)
AttachmentText(a) ==
    LET found == Fragments(a.content) IN IF found = <<>> THEN <<a.name>> ELSE found

ActivityText(act) ==
    IF act.text # <<>> THEN act.text
    ELSE JoinUnique(Fragments(act.value) \o
                    FlattenSeq([i \in DOMAIN act.attachments |->
                                  AttachmentText(act.attachments[i])]))
=============================================================================
