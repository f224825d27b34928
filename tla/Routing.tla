------------------------------ MODULE Routing -------------------------------
(***************************************************************************)
(* mq/match.go: deciding whether a consumer group wants a message.         *)
(* Strings are sequences of one-character strings; the only characters     *)
(* that matter to the matcher are the separator "." and the wildcards "*"  *)
(* and "#", every other byte is a literal ("a", "b").                      *)
(***************************************************************************)
EXTENDS Naturals, Sequences, SequencesExt

Sep == "."
Wildcard == <<"*">>
ZeroOrMore == <<"#">>

\* strings.IndexByte(s, '.') + 1: the 1-based position of the first
\* separator, 0 when there is none.
IndexSep(s) == SelectInSeq(s, LAMBDA c : c = Sep)
\* Mutant: routingKey[:j+1] instead of routingKey[:j], keeping the dot.
BeforeWithSep(s, j) == SubSeq(s, 1, j)

\* s[:j] and s[j+1:] around the separator at 1-based position j.
Before(s, j) == SubSeq(s, 1, j - 1)

After(s, j) == SubSeq(s, j + 1, Len(s))

\* routingKeyMatches(pattern, routingKey), branch by branch.
RECURSIVE RoutingKeyMatches(_, _)
RoutingKeyMatches(pattern, key) ==
    IF pattern = <<>> THEN key = <<>>
    ELSE
      LET i == IndexSep(pattern)
          j == IndexSep(key)
      IN
      IF i = 0 THEN
        CASE pattern = Wildcard ->
               key # <<>> /\ j = 0
          [] pattern = ZeroOrMore ->
               \* strip one segment, fail on a trailing dot, recurse
               j = 0 \/ (After(key, j) # <<>> /\ RoutingKeyMatches(pattern, After(key, j)))
          [] OTHER -> key = pattern
      ELSE
        LET part == Before(pattern, i)
            rest == After(pattern, i)
            \* the "for" loop of the "#" branch: try rest at every suffix
            RECURSIVE ZeroOrMoreLoop(_)
            ZeroOrMoreLoop(k) ==
                \/ RoutingKeyMatches(rest, k)
                \/ LET jj == IndexSep(k)
                   IN jj # 0 /\ After(k, jj) # <<>> /\ ZeroOrMoreLoop(After(k, jj))
        IN
        CASE part = Wildcard ->
               IF j = 0 THEN key # <<>> /\ RoutingKeyMatches(rest, <<>>)
               ELSE After(key, j) # <<>> /\ RoutingKeyMatches(rest, After(key, j))
          [] part = ZeroOrMore -> ZeroOrMoreLoop(key)
          [] OTHER ->
               IF j = 0 THEN key = part /\ RoutingKeyMatches(rest, <<>>)
               ELSE /\ Before(key, j) = part
                    /\ After(key, j) # <<>>
                    /\ RoutingKeyMatches(rest, After(key, j))

-----------------------------------------------------------------------------
(* messageMatches(message, messageTime, topic, consumerGroup).             *)
(* A binding is [topic, by]; by.kind is "key" (RoutingKey), "all"          *)
(* (HeadersAll), "any" (HeadersAny) or "none" (fanout, By left nil).  A    *)
(* header map is a function from header names to values or Absent; a      *)
(* message without headers carries NilHeaders.                             *)

CONSTANTS Absent, NilHeaders

\* The HeadersAll loop: every expected header present with an equal value.
HeadersAllMatch(fields, headers) ==
    \A h \in DOMAIN fields :
        fields[h] # Absent => headers[h] = fields[h]
\* The HeadersAny loop: some expected header present with an equal value.
HeadersAnyMatch(fields, headers) ==
    \E h \in DOMAIN fields : fields[h] # Absent /\ headers[h] = fields[h]

\* The labelled BINDING loop of the HEADERS case, from binding k on: a
\* HeadersAll binding that fails moves on ("continue BINDING"), a
\* HeadersAny binding returns its own result.
RECURSIVE HeadersBindingsFrom(_, _, _, _)
HeadersBindingsFrom(bindings, k, topicName, headers) ==
    IF k > Len(bindings) THEN FALSE
    ELSE LET b == bindings[k]
             continue == HeadersBindingsFrom(bindings, k + 1, topicName, headers)
         IN IF b.topic # topicName THEN continue
            ELSE CASE b.by.kind = "all" ->
                        HeadersAllMatch(b.by.fields, headers) \/ continue
                   [] b.by.kind = "any" ->
                        HeadersAnyMatch(b.by.fields, headers)
                   [] OTHER -> continue

\* Mutant: the DIRECT loop forgets to skip bindings of other topics.
MessageMatchesAnyTopic(message, messageTime, topic, group) ==
    /\ ~(messageTime < group.createdAt)
    /\ CASE topic.type = "DIRECT" ->
              \E k \in DOMAIN group.bindings :
                 LET b == group.bindings[k]
                 IN b.by.kind = "key" /\ b.by.key = message.routingKey
         [] topic.type = "FANOUT" -> TRUE
         [] topic.type = "TOPIC" ->
              \E k \in DOMAIN group.bindings :
                 LET b == group.bindings[k]
                 IN b.topic = topic.name /\ b.by.kind = "key"
                    /\ RoutingKeyMatches(b.by.key, message.routingKey)
         [] topic.type = "HEADERS" ->
              /\ message.headers # NilHeaders
              /\ HeadersBindingsFrom(group.bindings, 1, topic.name, message.headers)

MessageMatches(message, messageTime, topic, group) ==
    /\ ~(messageTime < group.createdAt)
    /\ CASE topic.type = "DIRECT" ->
              \E k \in DOMAIN group.bindings :
                 LET b == group.bindings[k]
                 IN b.topic = topic.name /\ b.by.kind = "key"
                    /\ b.by.key = message.routingKey
         [] topic.type = "FANOUT" -> TRUE
         [] topic.type = "TOPIC" ->
              \E k \in DOMAIN group.bindings :
                 LET b == group.bindings[k]
                 IN b.topic = topic.name /\ b.by.kind = "key"
                    /\ RoutingKeyMatches(b.by.key, message.routingKey)
         [] topic.type = "HEADERS" ->
              /\ message.headers # NilHeaders
              /\ HeadersBindingsFrom(group.bindings, 1, topic.name, message.headers)

-----------------------------------------------------------------------------
(* The reference: spec 4.2 states the TOPIC pattern over dot-separated     *)
(* segments.  "*" matches exactly one non-empty segment, "#" zero or more  *)
(* segments, a literal segment matches byte-exact, and a routing key that  *)
(* ends in "." never matches.                                              *)

\* The segments of s: the maximal dot-free runs between separators.
Segments(s) ==
    LET seps == <<0>> \o SelectSeq([k \in 1..Len(s) |-> IF s[k] = Sep THEN k ELSE 0],
                                  LAMBDA k : k # 0) \o <<Len(s) + 1>>
    IN [n \in 1..Len(seps) - 1 |-> SubSeq(s, seps[n] + 1, seps[n + 1] - 1)]

RECURSIVE SegmentsMatch(_, _)
SegmentsMatch(ps, ks) ==
    IF ps = <<>> THEN ks = <<>>
    ELSE CASE Head(ps) = ZeroOrMore ->
                \/ SegmentsMatch(Tail(ps), ks)
                \/ ks # <<>> /\ SegmentsMatch(ps, Tail(ks))
           [] Head(ps) = Wildcard ->
                ks # <<>> /\ Head(ks) # <<>> /\ SegmentsMatch(Tail(ps), Tail(ks))
           [] OTHER ->
                ks # <<>> /\ Head(ks) = Head(ps) /\ SegmentsMatch(Tail(ps), Tail(ks))

TrailingDot(key) == key # <<>> /\ key[Len(key)] = Sep

SpecRoutingKeyMatches(pattern, key) ==
    ~TrailingDot(key) /\ SegmentsMatch(Segments(pattern), Segments(key))

\* A key none of whose segments is empty (no leading dot, no "..").
NoEmptySegment(key) == \A k \in 1..Len(Segments(key)) : Segments(key)[k] # <<>>

\* Spec 4.2 by topic type: a group wants the message when it is not older
\* than the group and one of the group's bindings naming the topic matches.
BindingMatchesSpec(b, message, topic) ==
    /\ b.topic = topic.name
    /\ CASE topic.type \in {"DIRECT", "TOPIC"} ->
              /\ b.by.kind = "key"
              /\ IF topic.type = "DIRECT" THEN b.by.key = message.routingKey
                 ELSE SpecRoutingKeyMatches(b.by.key, message.routingKey)
         [] topic.type = "FANOUT" -> TRUE
         [] topic.type = "HEADERS" ->
              /\ message.headers # NilHeaders
              /\ \/ b.by.kind = "all" /\ HeadersAllMatch(b.by.fields, message.headers)
                 \/ b.by.kind = "any" /\ HeadersAnyMatch(b.by.fields, message.headers)

SpecMessageMatches(message, messageTime, topic, group) ==
    /\ ~(messageTime < group.createdAt)
    /\ \E k \in DOMAIN group.bindings :
          BindingMatchesSpec(group.bindings[k], message, topic)

=============================================================================
