-------------------------------- MODULE Topics --------------------------------
(***************************************************************************)
(* Topic names and topic filters, as sequences of bytes: how packetview    *)
(* makes one of its levels, and how mqttbytes validates them and matches   *)
(* the one against the other.                                              *)
(***************************************************************************)
EXTENDS Integers, SequencesExt

Slash == 47
Plus == 43
Hash == 35
Dollar == 36

(* split('/') of the standard library. *)
Levels(s) ==
    FoldLeft(LAMBDA levels, c : IF c = Slash THEN Append(levels, << >>)
                                ELSE [levels EXCEPT ![Len(levels)] = Append(@, c)],
             << << >> >>, s)

(* The path add_separated writes. *)
Separated(parts, separator) ==
    FlattenSeq([i \in DOMAIN parts |->
                  IF i # Len(parts) THEN parts[i] \o separator ELSE parts[i]])

-----------------------------------------------------------------------------
(* TopicIterator. *)
Iterator(parts) == [rest |-> parts, first |-> TRUE, prev_was_separator |-> FALSE]

(* What next returns, and the iterator it leaves. *)
Item(it) ==
    IF it.rest = << >> THEN << >>
    ELSE IF it.first \/ it.prev_was_separator THEN <<Head(it.rest)>>
    ELSE << <<Slash>> >>

After(it) ==
    IF it.rest = << >> THEN [it EXCEPT !.first = FALSE]
    ELSE IF it.first \/ it.prev_was_separator
    THEN [rest |-> Tail(it.rest), first |-> FALSE, prev_was_separator |-> FALSE]
    ELSE [it EXCEPT !.prev_was_separator = TRUE]

(* The strings a consumer gets: at most two for each part. *)
TopicItems(parts) ==
    FoldLeft(LAMBDA got, n : [it |-> After(got.it), items |-> got.items \o Item(got.it)],
             [it |-> Iterator(parts), items |-> << >>], [n \in 1..(2 * Len(parts)) |-> n]).items

-----------------------------------------------------------------------------
(* has_wildcards, valid_topic, valid_filter. *)
HasWildcards(s) == Contains(s, Plus) \/ Contains(s, Hash)

ValidTopic(topic) == ~HasWildcards(topic)

ValidFilter(filter) ==
    LET levels == Levels(filter)
    IN  /\ filter # << >>
        /\ ~(Len(Last(levels)) # 1 /\ HasWildcards(Last(levels)))
        /\ \A i \in 1..(Len(levels) - 1) :
              /\ ~Contains(levels[i], Hash)
              /\ ~(Len(levels[i]) > 1 /\ Contains(levels[i], Plus))

(* A fault for the mutants: "a/#" is compared with the levels of "a" before *)
(* its last level is looked at.                                            *)
MatchedExactly(topics, filters) ==
    LET from[i \in 1..(Len(filters) + 1)] ==
            IF i > Len(filters) THEN Len(topics) <= Len(filters)
            ELSE /\ i <= Len(topics)
                 /\ \/ filters[i] = <<Hash>>
                    \/ /\ topics[i] # <<Hash>>
                       /\ filters[i] = <<Plus>> \/ filters[i] = topics[i]
                       /\ from[i + 1]
    IN  from[1]

(* The loop of matches over the levels of the filter. *)
Matched(topics, filters) ==
    LET from[i \in 1..(Len(filters) + 1)] ==
            IF i > Len(filters) THEN Len(topics) <= Len(filters)
            ELSE \/ filters[i] = <<Hash>>
                 \/ /\ i <= Len(topics)
                    /\ topics[i] # <<Hash>>
                    /\ filters[i] = <<Plus>> \/ filters[i] = topics[i]
                    /\ from[i + 1]
    IN  from[1]

Matches(topic, filter) ==
    /\ topic # << >> => topic[1] # Dollar
    /\ Matched(Levels(topic), Levels(filter))

-----------------------------------------------------------------------------
(* What MQTT 3.1.1 says of filters: a wildcard is a level of its own, "#"  *)
(* only the last; "+" stands for one level, "#" for any number of levels.  *)
WellFormed(filter) ==
    /\ filter # << >>
    /\ LET levels == Levels(filter)
       IN  \A i \in DOMAIN levels :
              /\ Contains(levels[i], Plus) => levels[i] = <<Plus>>
              /\ Contains(levels[i], Hash) => levels[i] = <<Hash>> /\ i = Len(levels)

Covers(filter, topic) ==
    LET f == Levels(filter)
        t == Levels(topic)
        n == IF Last(f) = <<Hash>> THEN Len(f) - 1 ELSE Len(f)
    IN  /\ IF Last(f) = <<Hash>> THEN Len(t) >= n ELSE Len(t) = n
        /\ \A i \in 1..n : f[i] \in {<<Plus>>, t[i]}
=============================================================================
