----------------------------- MODULE CountedTexts -----------------------------
(***************************************************************************)
(* The texts that are taken apart by counting: ParseDelta of internal/uade *)
(* (the partial answers of WebForms), extractMicrosoftConfigJSON of        *)
(* internal/sso (the object in a script of Microsoft's page), and          *)
(* splitNotificationContent of internal/app (a message too long for        *)
(* Discord).  A text is a sequence of characters; "w" stands for one that  *)
(* takes two bytes, and a name for any of several letters.                 *)
(***************************************************************************)
EXTENDS Integers, Sequences, FiniteSets

VARIABLE sample     \* a text under test, with what it was made from (or a page, see SearchForms)

-----------------------------------------------------------------------------
(* ParseDelta: nodes "length|type|id|content|". *)

MaxNodes == 2

Failed(why, parsed) == [parsed EXCEPT !.failure = why]

Bytes(text) == Len(text) + Cardinality({i \in DOMAIN text : text[i] = "w"})

\* The bar at which a field that starts after cur ends.
Bars(text, cur) == {i \in cur + 1..Len(text) : text[i] = "|"}
Bar(text, cur) == CHOOSE i \in Bars(text, cur) : \A j \in Bars(text, cur) : i <= j

\* read: the index of the bar is one of bytes, and is added to one of runes. A field
\* that no bar ends is missing; past the end of the text the program may panic.
FieldEnd(text, cur) == cur + Bytes(SubSeq(text, cur + 1, Bar(text, cur) - 1))
Field(text, cur) == SubSeq(text, cur + 1, FieldEnd(text, cur))
Readable(text, cur) == Bars(text, cur) # {} /\ FieldEnd(text, cur) <= Len(text)

Digits == {"0", "1", "2", "3"}
Value(c) == CASE c = "1" -> 1 [] c = "2" -> 2 [] c = "3" -> 3 [] OTHER -> 0
IsLength(field) == field # <<>> /\ \A i \in DOMAIN field : field[i] \in Digits
Number(field) == Value(field[Len(field)])   \* of one digit, in the samples

\* "ln > len(chars)-cur", and the bar that must follow.
Fits(text, cur, length) == length <= Len(text) - cur
BarAt(text, end) == end < Len(text) /\ text[end + 1] = "|"

\* The portal refuses the search, or sends the browser elsewhere.
Refusals == {<<"error">>, <<"pageRedirect">>}

\* What a turn of the loop makes of a node. Those that are no panels and no hidden fields,
\* which the code counts and passes over, are kept: there are none in the samples.
Node(text, parsed) ==
    LET typeAt == FieldEnd(text, parsed.cur) + 1
        idAt == FieldEnd(text, typeAt) + 1
        at == FieldEnd(text, idAt) + 1
        length == Number(Field(text, parsed.cur))
        type == Field(text, typeAt)
        node == [type |-> type, id |-> Field(text, idAt), content |-> SubSeq(text, at + 1, at + length)]
    IN  IF Len(parsed.nodes) >= MaxNodes THEN Failed("too many nodes", parsed)
        ELSE IF ~Readable(text, parsed.cur) THEN Failed("missing delimiter", parsed)
        ELSE IF ~IsLength(Field(text, parsed.cur)) THEN Failed("invalid length", parsed)
        ELSE IF ~Readable(text, typeAt) \/ ~Readable(text, idAt) THEN Failed("missing delimiter", parsed)
        ELSE IF ~Fits(text, at, length) THEN Failed("truncated", parsed)
        ELSE IF ~BarAt(text, at + length) THEN Failed("missing delimiter", parsed)
        ELSE IF type \in Refusals THEN Failed("refused", parsed)
        ELSE [cur |-> at + length + 1, nodes |-> Append(parsed.nodes, node), failure |-> ""]

\* The loop ends at the end of the text, blanks included.
AtEnd(text, cur) == \A i \in cur + 1..Len(text) : text[i] = " "

Turn(text, parsed) ==
    IF parsed.failure # "" \/ AtEnd(text, parsed.cur) THEN parsed ELSE Node(text, parsed)

\* No node is shorter than a character, so that as many turns are enough.
Parsed == [cur |-> 0, nodes |-> <<>>, failure |-> ""]
ParseDelta(text) ==
    LET turn[i \in 0..Len(text)] == IF i = 0 THEN Parsed ELSE Turn(text, turn[i - 1])
    IN  turn[Len(text)]

-----------------------------------------------------------------------------
(* extractMicrosoftConfigJSON, from the brace that opens the object. *)

\* state.mode: between the strings, in one, after a backslash in one, or at the end of
\* the object, where the loop returns.
Braces(depth, c) == CASE c = "open" -> depth + 1 [] c = "close" -> depth - 1 [] OTHER -> depth

Scan(state, c) ==
    LET read(mode, depth) == [at |-> state.at + 1, mode |-> mode, depth |-> depth]
    IN  CASE state.mode = "ended" -> state
          [] state.mode = "escape" -> read("string", state.depth)
          [] state.mode = "string" ->
                 read(CASE c = "backslash" -> "escape" [] c = "quote" -> "plain" [] OTHER -> "string", state.depth)
          [] state.mode = "plain" ->
                 read(CASE c = "quote" -> "string" [] c = "close" /\ state.depth = 1 -> "ended" [] OTHER -> "plain",
                      Braces(state.depth, c))

Unscanned == [at |-> 0, mode |-> "plain", depth |-> 0]

\* How many characters the object has, 0 if it does not end.
ExtractObject(text) ==
    LET scanned[i \in 0..Len(text)] == IF i = 0 THEN Unscanned ELSE Scan(scanned[i - 1], text[i])
    IN  IF scanned[Len(text)].mode = "ended" THEN scanned[Len(text)].at ELSE 0

-----------------------------------------------------------------------------
(* splitNotificationContent: a payload of that many runes, in parts that say which   *)
(* they are, of how many.                                                             *)

\* What Discord takes, and the marks of a part, "parte 9/10": the length of either
\* depends on the digits of the two numbers. Shortened, as the limit of 2000 is.
MarkLength == 2
NumberLength(n) == IF n < 10 THEN 1 ELSE 2

\* The slip: a number is a digit.
ShortPrefix(first, index, count) == MarkLength + 2 + (IF index = 1 THEN first ELSE 0)
Prefix(first, index, count) ==
    MarkLength + NumberLength(index) + NumberLength(count) + (IF index = 1 THEN first ELSE 0)

Capacity(message, index, count) == message.limit - Prefix(message.first, index, count)

\* The parts that there are before the next one is cut end there.
Position(contents) == IF contents = <<>> THEN 0 ELSE contents[Len(contents)].end

Part(message, index, count, from) ==
    LET end == from + Capacity(message, index, count)
    IN  [index |-> index, of |-> count, from |-> from, end |-> IF end > message.payload THEN message.payload ELSE end]

\* A turn of the inner loop. There are no parts if the program panics, for want of
\* room for any of the message beside a mark.
CutPart(message, index, count, contents) ==
    IF index > 1 /\ (contents = <<>> \/ Position(contents) >= message.payload) THEN contents
    ELSE IF Capacity(message, index, count) <= 0 THEN <<>>
    ELSE Append(contents, Part(message, index, count, Position(contents)))

\* The parts, if they are said to be count.
Cut(message, count) ==
    LET cut[index \in 0..message.payload + 1] ==
            IF index = 0 THEN <<>> ELSE CutPart(message, index, count, cut[index - 1])
    IN  cut[message.payload + 1]

Settled(contents) == contents = <<>> \/ Len(contents) = contents[1].of

\* The loop, which has as many rounds as it needs: three, if a mark has no numbers but
\* of one or two digits.
MaxRounds == 3
SplitNotification(message) ==
    LET round[i \in 1..MaxRounds] ==
            IF i = 1 THEN Cut(message, 1)
            ELSE IF Settled(round[i - 1]) THEN round[i - 1] ELSE Cut(message, Len(round[i - 1]))
    IN  round[MaxRounds]

Short(message) == message.first + message.payload <= message.limit

-----------------------------------------------------------------------------
(* What UADE and Microsoft send, and what users are told. *)

UpTo(S, n) == UNION {[1..k -> S] : k \in 0..n}

DigitOf(n) == CASE n = 0 -> "0" [] n = 1 -> "1" [] n = 2 -> "2" [] OTHER -> "3"
NodeText(node) ==
    <<DigitOf(Len(node.content)), "|">> \o node.type \o <<"|">> \o node.id \o <<"|">> \o node.content \o <<"|">>

DeltaNodes == [type : {<<"updatePanel">>, <<"hiddenField">>} \cup Refusals, id : {<<>>, <<"id">>},
               content : {<<>>, <<"w">>, <<"1", "|">>, <<"|", " ">>}]

\* The nodes of a text, and where each of them ends.
Deltas == {[nodes |-> ns, ends |-> IF Len(ns) = 0 THEN {0}
                                   ELSE {0, Len(NodeText(ns[1])), Len(NodeText(ns[1]) \o NodeText(ns[Len(ns)]))},
            text |-> IF Len(ns) = 0 THEN <<>> ELSE IF Len(ns) = 1 THEN NodeText(ns[1])
                     ELSE NodeText(ns[1]) \o NodeText(ns[2])] : ns \in UpTo(DeltaNodes, 2)}

\* Strings with braces, quotes and backslashes, and objects of them.
Escaped == {<<"backslash", "quote">>, <<"backslash", "backslash">>, <<"open">>, <<"close">>}
Strings == {<<"quote">> \o a \o b \o <<"quote">> : a, b \in Escaped \cup {<<>>}}
FlatObjects == {<<"open">> \o a \o <<"close">> : a \in Strings}
Objects == FlatObjects \cup {<<"open">> \o a \o o \o <<"close">> : a \in Strings, o \in FlatObjects}

Init ==
    \/ sample \in [delta : Deltas]
    \/ sample \in [object : Objects, rest : UpTo({"close", "quote", "open"}, 1)]
    \/ sample \in [limit : 9..11, first : 0..3, payload : 0..60]

NoSample == [none |-> <<>>]

-----------------------------------------------------------------------------
(* Properties. *)

IsDelta == "delta" \in DOMAIN sample
IsObject == "object" \in DOMAIN sample
IsMessage == "payload" \in DOMAIN sample

\* A partial answer is parsed into the nodes it was made from, whatever bars,
\* digits and wide characters are in their contents and although a blank ends it, and
\* refused if one of them is an error; when the transfer stops within a node it is
\* refused, never taken for a shorter answer.
DeltaFaithful ==
    IsDelta =>
        LET text == sample.delta.text
            good == \A i \in DOMAIN sample.delta.nodes : sample.delta.nodes[i].type \notin Refusals
            parsed == ParseDelta(text \o <<" ">>)
        IN  /\ good <=> parsed.failure = ""
            /\ good => parsed.nodes = sample.delta.nodes
            /\ \A n \in 0..Len(text) :
                   ParseDelta(SubSeq(text, 1, n)).failure = "" => n \in sample.delta.ends

\* The object is cut where it ends, whatever braces and escaped quotes are in its
\* strings and whatever follows it, and not at all wherever the text breaks off before.
ObjectFaithful ==
    IsObject =>
        /\ ExtractObject(sample.object \o sample.rest) = Len(sample.object)
        /\ \A n \in 0..Len(sample.object) - 1 : ExtractObject(SubSeq(sample.object, 1, n)) = 0

\* However long a message is, its parts are short enough for Discord, every one says
\* which it is of how many there are, and together they are the whole message. The
\* loop settles although more parts have longer marks, and so may need more parts.
SplitFaithful ==
    IsMessage /\ ~Short(sample) =>
        LET parts == SplitNotification(sample)
        IN  parts # <<>> /\ \A i \in DOMAIN parts :
                /\ parts[i].index = i /\ parts[i].of = Len(parts)
                /\ parts[i].from = IF i = 1 THEN 0 ELSE parts[i - 1].end
                /\ i = Len(parts) => parts[i].end = sample.payload
                /\ sample.limit >= parts[i].end - parts[i].from
                       + NumberLength(i) + NumberLength(Len(parts)) + MarkLength + (IF i = 1 THEN sample.first ELSE 0)

\* What is taken apart is what was put together, whatever it is made of.
TextsFaithful == DeltaFaithful /\ ObjectFaithful /\ SplitFaithful

=============================================================================
