----------------------------- MODULE MC_Routing -----------------------------
(***************************************************************************)
(* Enumerates the inputs of the two routing operators and compares each   *)
(* with spec 4.2.  An initial state picks which operator is exercised:    *)
(*  - "routing_key": a TOPIC binding pattern and a routing key, grown one  *)
(*    character at a time, for routingKeyMatches;                          *)
(*  - "message": a group's binding list (one queue.bind at a time), a     *)
(*    topic and a published message, for messageMatches.                  *)
(* The variables of the other operator keep their initial values.         *)
(***************************************************************************)
EXTENDS Routing, FiniteSets

CONSTANTS
    MaxPatternLen,   \* longest binding pattern enumerated
    MaxKeyLen,       \* longest routing key enumerated
    TopicNames,      \* topics a binding may name
    HeaderNames,     \* header names
    HeaderValues,    \* header values
    MaxBindings,     \* longest binding list of the group
    NoInput          \* model value: an input of the other operator

PatternChars == {"a", "b", Sep, "*", "#"}
KeyChars == {"a", "b", Sep}

TopicTypes == {"DIRECT", "FANOUT", "TOPIC", "HEADERS"}
RoutingKeys == {<<"a">>, <<"b">>, <<"a", ".", "b">>}
Patterns == {<<"a">>, <<"*">>, <<"#">>, <<"a", ".", "#">>}
HeaderMaps == [HeaderNames -> HeaderValues \cup {Absent}]
BindingMaps == {f \in HeaderMaps : \E h \in HeaderNames : f[h] # Absent}

Bys == {[kind |-> "key", key |-> p] : p \in Patterns \cup RoutingKeys}
       \cup {[kind |-> k, fields |-> f] : k \in {"all", "any"}, f \in BindingMaps}
       \cup {[kind |-> "none"]}

VARIABLES input, pattern, key, topic, bindings, message, messageTime, createdAt
vars == <<input, pattern, key, topic, bindings, message, messageTime, createdAt>>

Init ==
    /\ input \in {"routing_key", "message"}
    /\ pattern = <<>> /\ key = <<>> /\ bindings = <<>>
    /\ IF input = "message"
         THEN /\ topic \in [name : TopicNames, type : TopicTypes]
              /\ message \in [routingKey : RoutingKeys, headers : HeaderMaps \cup {NilHeaders}]
              /\ messageTime \in 0..1
              /\ createdAt \in 0..1
         ELSE /\ topic = NoInput /\ message = NoInput
              /\ messageTime = 0 /\ createdAt = 0

\* The binding's routing key grows by one character.
ExtendPattern ==
    /\ input = "routing_key" /\ Len(pattern) < MaxPatternLen
    /\ \E c \in PatternChars : pattern' = Append(pattern, c)
    /\ UNCHANGED <<input, key, topic, bindings, message, messageTime, createdAt>>

\* The published message's routing key grows by one character.
ExtendKey ==
    /\ input = "routing_key" /\ Len(key) < MaxKeyLen
    /\ \E c \in KeyChars : key' = Append(key, c)
    /\ UNCHANGED <<input, pattern, topic, bindings, message, messageTime, createdAt>>

\* The group gets one more binding (queue.bind, or a re-declare).
AddBinding ==
    /\ input = "message" /\ Len(bindings) < MaxBindings
    /\ \E t \in TopicNames, by \in Bys :
          bindings' = Append(bindings, [topic |-> t, by |-> by])
    /\ UNCHANGED <<input, pattern, key, topic, message, messageTime, createdAt>>

Next == ExtendPattern \/ ExtendKey \/ AddBinding
Spec == Init /\ [][Next]_vars

Group == [createdAt |-> createdAt, bindings |-> bindings]

\* A binding pattern as spec 4.2 describes one: the empty pattern, or
\* dot-separated segments none of which is empty.
WellFormedPattern(p) == p = <<>> \/ NoEmptySegment(p)

\* routingKeyMatches (TOPIC exchanges) decides exactly as spec 4.2 says for
\* every well-formed pattern and every routing key without empty segments:
\* wildcards, "#" over zero or more segments, literal segments and the
\* trailing-dot rule all agree.
RoutingKeyMatchesSpecOnNonEmptySegments ==
    input = "routing_key" /\ WellFormedPattern(pattern) /\ NoEmptySegment(key) =>
        (RoutingKeyMatches(pattern, key) = SpecRoutingKeyMatches(pattern, key))

\* Spec 4.2, DIRECT and TOPIC: a message no older than the group matches
\* exactly when some binding of the group names this topic and carries a
\* routing key equal to (DIRECT) or matching (TOPIC) the message's key;
\* bindings on other topics and header bindings never count.
KeyBindingsMatchSpec ==
    input = "message" /\ topic.type \in {"DIRECT", "TOPIC"} =>
        (MessageMatches(message, messageTime, topic, Group)
           = SpecMessageMatches(message, messageTime, topic, Group))
=============================================================================
