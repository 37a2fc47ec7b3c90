-------------------------------- MODULE Url --------------------------------
(***************************************************************************)
(* The parsers of url.cc as functions of the text they walk over: of what  *)
(* a request asks for (ParseUrl, which http_message.cc calls; nexer.cc     *)
(* looks at the path), of a query (ParseQueryString) and of escapes        *)
(* (DecodeUrlComponent).  Characters are their ASCII codes.                *)
(***************************************************************************)
EXTENDS Integers, Sequences, SequencesExt

CONSTANTS
    Alphabets, \* sets of texts; inputs are put together from those of one set
    MaxPieces

\* A text is bytes, and the program's texts end at their first NUL.
ASSUME UrlAssumption == \A a \in Alphabets : a \subseteq Seq(1..255)

VARIABLES
    alphabet,
    pieces,
    input

urlVars == <<alphabet, pieces, input>>

Colon == 58
Slash == 47
Question == 63
Hash == 35
Ampersand == 38
Equal == 61
Percent == 37
Plus == 43
Space == 32
Zero == 48
UpperA == 65
LowerA == 97

At(s, i) == IF i \in DOMAIN s THEN s[i] ELSE 0
Between(s, i, j) == SubSeq(s, i, j - 1)

\* Where a loop that begins at place i and ends at one of `stops`, or at the
\* end of the text, leaves off.
Until(s, i, stops) ==
    CHOOSE j \in i..Len(s) + 1 :
        /\ j = Len(s) + 1 \/ s[j] \in stops
        /\ \A k \in i..j - 1 : s[k] \notin stops

-----------------------------------------------------------------------------
(* ParseUrl: where each field ends the next begins. *)

\* strstr(s, "://"), 0 if there is none.
Mark(s) ==
    LET at == {i \in 1..Len(s) - 2 : SubSeq(s, i, i + 2) = <<Colon, Slash, Slash>>}
    IN IF at = {} THEN 0 ELSE CHOOSE i \in at : \A j \in at : i <= j

HostAt(s) == IF Mark(s) = 0 THEN 1 ELSE Mark(s) + 3

PortAt(s) == IF Mark(s) = 0 THEN 1 ELSE Until(s, HostAt(s), {Colon, Slash, Question, Hash})

PathAt(s) ==
    IF Mark(s) # 0 /\ At(s, PortAt(s)) = Colon
    THEN Until(s, PortAt(s) + 1, {Slash, Question, Hash}) ELSE PortAt(s)

QueryAt(s) == Until(s, PathAt(s), {Question, Hash})

\* Variant: a query goes on to the end.
FragmentAtEnd(s) == IF At(s, QueryAt(s)) = Question THEN Len(s) + 1 ELSE QueryAt(s)

FragmentAt(s) ==
    IF At(s, QueryAt(s)) = Question THEN Until(s, QueryAt(s) + 1, {Hash}) ELSE QueryAt(s)

\* Any text that follows, if it does not begin with "/", gets one.
Rooted(s) == IF At(s, PathAt(s)) \in {Slash, 0} THEN <<>> ELSE <<Slash>>

ParseUrl(s) ==
    [scheme   |-> Between(s, 1, Mark(s)),
     host     |-> Between(s, HostAt(s), PortAt(s)),
     port     |-> Between(s, PortAt(s) + 1, PathAt(s)),
     path     |-> Rooted(s) \o Between(s, PathAt(s), QueryAt(s)),
     query    |-> Between(s, QueryAt(s) + 1, FragmentAt(s)),
     fragment |-> Between(s, FragmentAt(s) + 1, Len(s) + 1)]

-----------------------------------------------------------------------------
(* ParseQueryString and DecodeUrlComponent. *)

NoPair == [key |-> <<>>, value |-> <<>>]

\* run_cb: the pair is handed on unless it is empty.
RunCb(q) == [inValue |-> q.inValue, pair |-> NoPair,
             out |-> IF q.pair = NoPair THEN q.out ELSE Append(q.out, q.pair)]

\* One turn of the loop.
QueryChar(q, c) ==
    CASE c = Ampersand -> [RunCb(q) EXCEPT !.inValue = FALSE]
      [] c = Equal /\ ~q.inValue -> [q EXCEPT !.inValue = TRUE]
      [] c # Ampersand /\ q.inValue -> [q EXCEPT !.pair.value = Append(@, c)]
      [] OTHER -> [q EXCEPT !.pair.key = Append(@, c)]

\* The pairs the callback is given.
ParseQueryString(s) ==
    RunCb(FoldLeft(QueryChar, [inValue |-> FALSE, pair |-> NoPair, out |-> <<>>], s)).out

isxdigit(c) == c \in Zero..Zero + 9 \cup UpperA..UpperA + 5 \cup LowerA..LowerA + 5
toupper(c) == IF c >= LowerA THEN c - LowerA + UpperA ELSE c
Digit(c) == IF c < UpperA THEN c - Zero ELSE toupper(c) - UpperA + 10

IsEscape(s, i) == s[i] = Percent /\ isxdigit(At(s, i + 1)) /\ isxdigit(At(s, i + 2))

\* The bytes of dst.
DecodeUrlComponent(s) ==
    LET from[i \in 1..Len(s) + 3] ==
          IF i > Len(s) THEN <<>>
          ELSE IF IsEscape(s, i)
               THEN <<Digit(s[i + 1]) * 16 + Digit(s[i + 2])>> \o from[i + 3]
               ELSE <<IF s[i] = Plus THEN Space ELSE s[i]>> \o from[i + 1]
    IN from[1]

-----------------------------------------------------------------------------

UrlInit == alphabet \in Alphabets /\ pieces = 0 /\ input = <<>>

UrlNext ==
    /\ pieces < MaxPieces /\ pieces' = pieces + 1
    /\ \E p \in alphabet : input' = input \o p
    /\ UNCHANGED alphabet

UrlSpec == UrlInit /\ [][UrlNext]_urlVars

-----------------------------------------------------------------------------
(* Properties. *)

\* s is u written out; a port, a query or a fragment that is empty may have
\* its mark, and the path may have got its "/" from the parser.
Spells(s, u) ==
    LET marked(mark, field) == {<<mark>> \o field} \cup (IF field = <<>> THEN {<<>>} ELSE {})
        before == IF Mark(s) = 0 THEN {<<>>}
                  ELSE {u.scheme \o <<Colon, Slash, Slash>> \o u.host \o p : p \in marked(Colon, u.port)}
        path == {u.path} \cup (IF At(u.path, 1) = Slash /\ At(u.path, 2) # Slash THEN {Tail(u.path)} ELSE {})
    IN \E b \in before, p \in path, q \in marked(Question, u.query), f \in marked(Hash, u.fragment) :
          s = b \o p \o (q \o f)

\* The fields of a url put together again are the url, and none holds a
\* character that ends it: the path, by which the admin handler knows a
\* shutdown, has neither query nor fragment (url.cc:31-73).
UrlIsDivided ==
    LET u == ParseUrl(input)
    IN /\ Spells(input, u)
       /\ ToSet(u.host) \cap {Colon, Slash, Question, Hash} = {}
       /\ ToSet(u.port) \cap {Slash, Question, Hash} = {}
       /\ ToSet(u.path) \cap {Question, Hash} = {}
       /\ ToSet(u.query) \cap {Hash} = {}
       /\ u.path # <<>> => Head(u.path) = Slash

\* A piece of a query begins where the text does or behind an "&"; the first
\* "=" before the next "&" divides it.
Begins(s) == {1} \cup {i + 1 : i \in {i \in DOMAIN s : s[i] = Ampersand}}
PairAt(s, i) ==
    LET end == Until(s, i, {Ampersand})
        eq == Until(s, i, {Ampersand, Equal})
    IN [key |-> Between(s, i, eq), value |-> Between(s, eq + 1, end)]

\* The pieces that say something, and pairs that are theirs, in order.
Filled(s) == {i \in Begins(s) : PairAt(s, i) # NoPair}
Tell(pairs, s, starts) ==
    /\ Len(pairs) = Cardinality(starts)
    /\ \A i \in starts : pairs[Cardinality(starts \cap 1..i)] = PairAt(s, i)

\* A query's pairs are told once each, in order, but for the empty ones
\* (url.cc:80-117).
QueryIsSplit == Tell(ParseQueryString(input), input, Filled(input))

\* s with each character that is no letter escaped, the hex digits from a or A.
Encoded(s, a) ==
    LET digit(d) == IF d < 10 THEN Zero + d ELSE a + d - 10
        code(c) == IF c >= UpperA THEN <<c>> ELSE IF c = Space THEN <<Plus>>
                   ELSE <<Percent, digit(c \div 16), digit(c % 16)>>
    IN FlattenSeq([i \in DOMAIN s |-> code(s[i])])

\* Decoding undoes encoding, in either case of the digits, and never makes a
\* text longer, so that it can be done in place (url.cc:4-20).
DecodeUndoesEncode ==
    /\ \A a \in {UpperA, LowerA} : DecodeUrlComponent(Encoded(input, a)) = input
    /\ Len(DecodeUrlComponent(input)) <= Len(input)

\* What a url, a query and an escaped text are read as is what was written.
ReadsWhatIsWritten == UrlIsDivided /\ QueryIsSplit /\ DecodeUndoesEncode
=============================================================================
