--------------------------------- MODULE Uri ---------------------------------
(***************************************************************************)
(* http::uri::parse_from_array (net/app/http/uri.cpp) and wish::split      *)
(* (net/util/string_util.cpp), compared with the parts an URL was put      *)
(* together from, in the notation of the picture in uri.h.  The URL grows  *)
(* part by part; every prefix of that growth is parsed.                    *)
(*                                                                         *)
(* A text is a sequence of characters.  The places where the parser tells  *)
(* characters apart are kept; skip_space, which is called with a copy of   *)
(* the pointer, skips nothing.                                             *)
(***************************************************************************)
EXTENDS Naturals, Sequences, FiniteSets, FiniteSetsExt, SequencesExt

CONSTANTS PortMod,   \* number of values of uint16_t
          MaxPairs   \* bound on the pairs of a query

ASSUME UriAssumption == PortMod \in Nat \ {0} /\ MaxPairs \in Nat

VARIABLES parts   \* what the URL is put together from

-----------------------------------------------------------------------------
(* The parser.  Texts are indexed from 1; a position one past the end stands *)
(* for the terminating null character.                                       *)

End(s) == Len(s) + 1
FirstOf(s, from, chars) == Min({k \in from .. Len(s) : s[k] \in chars} \cup {End(s)})
Between(s, i, j) == SubSeq(s, i, j - 1)

\* The first loop stops at "://" and at "@", wherever they are; what it has passed
\* since the last stop is the schema or the user_info.
IsSchemaMark(s, k) == k + 2 <= Len(s) /\ s[k] = ":" /\ s[k + 1] = "/" /\ s[k + 2] = "/"
SchemaMarks(s) == {k \in 1 .. Len(s) : IsSchemaMark(s, k)}
UserMarks(s) == {k \in 1 .. Len(s) : s[k] = "@"}
PastMark(s, k) == IF s[k] = "@" THEN k + 1 ELSE k + 3
StartAt(s, k) ==
  Max({1} \cup {PastMark(s, j) : j \in {i \in SchemaMarks(s) \cup UserMarks(s) : i < k}})
BeforeLast(s, marks) == IF marks = {} THEN << >> ELSE Between(s, StartAt(s, Max(marks)), Max(marks))

\* The address: it ends at the first of "/", "?" and "#".
AddrStart(s) == StartAt(s, End(s))
AddrEnd(s) == FirstOf(s, AddrStart(s), {"/", "?", "#"})
Colons(s) == {k \in AddrStart(s) .. AddrEnd(s) - 1 : s[k] = ":"}
Host(s) == Between(s, AddrStart(s), IF Colons(s) = {} THEN AddrEnd(s) ELSE Max(Colons(s)))

\* atoi: the number at the front of a text.
Digits == <<"0", "1", "2", "3", "4", "5", "6", "7", "8", "9">>
LeadingNumber(s) ==
  LET digits == SubSeq(s, 1, Min({k \in 1 .. Len(s) : s[k] \notin Range(Digits)} \cup {End(s)}) - 1)
      value(c) == (CHOOSE d \in 1 .. 10 : Digits[d] = c) - 1
  IN  FoldLeft(LAMBDA n, c : 10 * n + value(c), 0, digits)

\* The string that is converted reaches two characters too far: to the null character
\* if one character follows the port, and one past it if the URL ends with the port.
\* There lies any byte; the address sanitizer may stop the program at this read.
Nul == "null"
Bytes == {"0", "/", Nul}
PortText(s, byte) == SubSeq(s \o <<Nul, byte>>, Max(Colons(s)) + 1, AddrEnd(s) + 1)
ReadsPastEnd(s) == Colons(s) # {} /\ AddrEnd(s) + 1 > End(s)

\* The ports that can be returned.
Ports(s) == IF Colons(s) = {} THEN {80}
            ELSE {LeadingNumber(PortText(s, byte)) % PortMod : byte \in Bytes}

\* split: the pieces between separators; an empty last piece is dropped.
Split(s, sep) ==
  LET cuts == <<0>> \o SetToSortSeq({k \in 1 .. Len(s) : s[k] = sep}, <) \o <<End(s)>>
      pieces == [i \in 1 .. Len(cuts) - 1 |-> Between(s, cuts[i] + 1, cuts[i + 1])]
  IN  IF Last(pieces) = << >> THEN Front(pieces) ELSE pieces

\* One separator begins the path, whichever it is, the next one the query.
PathEnd(s) == FirstOf(s, AddrEnd(s) + 1, {"?", "#"})
Path(s) == Between(s, AddrEnd(s) + 1, PathEnd(s))

\* Mutant: the query takes the fragment with it.
QueryEnd_Text(s) == End(s)

QueryEnd(s) == FirstOf(s, PathEnd(s) + 1, {"#"})
Query(s) == Between(s, PathEnd(s) + 1, QueryEnd(s))
Pairs(s) == [i \in 1 .. Len(Split(Query(s), "&")) |-> Split(Split(Query(s), "&")[i], "=")]

\* The value returned: every piece of the query is a key and a value.  When it is
\* false the fragment and the url were not assigned.
Accepted(s) == \A i \in DOMAIN Pairs(s) : Len(Pairs(s)[i]) = 2

\* insert keeps the first value of a key of an accepted query.
Params(s) ==
  [k \in {Pairs(s)[i][1] : i \in DOMAIN Pairs(s)} |->
     Pairs(s)[Min({i \in DOMAIN Pairs(s) : Pairs(s)[i][1] = k})][2]]

Fragment(s) == IF Accepted(s) THEN SubSeq(s, QueryEnd(s) + 1, Len(s)) ELSE << >>
Url(s) == IF Accepted(s) THEN SubSeq(s, AddrEnd(s), Len(s)) ELSE << >>

-----------------------------------------------------------------------------
(* URLs.  A part that may be missing is a set of at most one text. *)

Schemas == {<<"f">>}
Users == {<<"u">>, <<"u", ":", "p">>}
Hosts == {<<"h">>, <<"h", ".", "c">>}
PortTexts == {<<"8">>, <<"8", "0", "8">>, <<"7", "0", "0", "0", "0">>}
Paths == {<< >>, <<"a", "/", "b">>, <<"a", ":", "b">>, <<"a", "@", "b">>}
Keys == {<<"k">>, <<"l">>}
Vals == {<<"v">>, <<"w", "@">>}
Fragments == {<<"n">>, <<"n", "?", "=">>}

UriInit == parts \in [schema : {{}}, user : {{}}, host : Hosts, port : {{}},
                      path : {{}}, query : {<< >>}, fragment : {{}}]

\* A part that is missing is added.
AddPart(name, texts) ==
  parts[name] = {} /\ \E t \in texts : parts' = [parts EXCEPT ![name] = {t}]

AddPair == /\ Len(parts.query) < MaxPairs
           /\ \E k \in Keys, v \in Vals :
                parts' = [parts EXCEPT !.query = Append(@, [key |-> k, val |-> v])]

UriNext == \/ AddPart("schema", Schemas) \/ AddPart("user", Users)
           \/ AddPart("port", PortTexts) \/ AddPart("path", Paths)
           \/ AddPart("fragment", Fragments)
           \/ AddPair

UriSpec == UriInit /\ [][UriNext]_parts

\* The text of a part, with what separates it from its neighbours.
Text(part, before, after) ==
  IF part = {} THEN << >> ELSE before \o (CHOOSE t \in part : TRUE) \o after

QueryText == FoldLeft(LAMBDA text, p : text \o (IF text = << >> THEN << >> ELSE <<"&">>)
                                            \o p.key \o <<"=">> \o p.val,
                      << >>, parts.query)

TargetText == Text(parts.path, <<"/">>, << >>)
              \o (IF parts.query = << >> THEN << >> ELSE <<"?">> \o QueryText)
              \o Text(parts.fragment, <<"#">>, << >>)

UrlText == Text(parts.schema, << >>, <<":", "/", "/">>) \o Text(parts.user, << >>, <<"@">>)
           \o parts.host \o Text(parts.port, <<":">>, << >>) \o TargetText

-----------------------------------------------------------------------------
(* Correctness. *)

\* No "@" and no "://" occur behind the host.
PlainTarget == SchemaMarks(TargetText) = {} /\ UserMarks(TargetText) = {}

\* The authority is parsed as the picture in uri.h has it, with or without a path, a
\* query and a fragment, exactly if no "@" occurs behind it; a port keeps 16 bits of
\* its number.  Whatever the string it is read from holds behind it, no other number
\* comes out, but an URL that ends with its port, as test_uri.cpp:5 has one, is read
\* past its end (uri.cpp:18-70).
AuthorityIsParsed ==
  /\ PlainTarget =>
       /\ BeforeLast(UrlText, SchemaMarks(UrlText)) = Text(parts.schema, << >>, << >>)
       /\ BeforeLast(UrlText, UserMarks(UrlText)) = Text(parts.user, << >>, << >>)
       /\ Ports(UrlText) =
            {IF parts.port = {} THEN 80
             ELSE LeadingNumber(Text(parts.port, << >>, << >>)) % PortMod}
       /\ ReadsPastEnd(UrlText) <=> parts.port # {} /\ TargetText = << >>
  /\ PlainTarget <=> Host(UrlText) = parts.host

\* What follows the authority, in the order it is in.
Pieces == (IF parts.path = {} THEN << >> ELSE <<"path">>)
          \o (IF parts.query = << >> THEN << >> ELSE <<"query">>)
          \o (IF parts.fragment = {} THEN << >> ELSE <<"fragment">>)
PieceText(name) == CASE name = "path" -> Text(parts.path, << >>, << >>)
                     [] name = "query" -> QueryText
                     [] name = "fragment" -> Text(parts.fragment, << >>, << >>)

\* The text of the first, second or third piece; the first one ends at a "?", too.
Piece(i) == IF i \in DOMAIN Pieces THEN PieceText(Pieces[i]) ELSE << >>
Cut == FirstOf(Piece(1), 1, {"?"})
IsCut == Cut # End(Piece(1))

\* The parser takes the separators in the order of the picture and does not look which
\* one it has met: the first piece is the path, the second the query and the third the
\* fragment, whatever they are, so that a fragment without a query (test_uri.cpp:9) or
\* a query without a path (test_uri.cpp:11) takes the place of what is missing.  The
\* URL is refused exactly if the place of the query is taken by a fragment; whenever it
\* is accepted, the url that http::client requests is the whole target, and the pairs
\* are those of the query in its place, the first value of a key (uri.cpp:71-118,
\* string_util.cpp:5-23).
TargetIsParsed ==
  LET keys == {parts.query[i].key : i \in DOMAIN parts.query}
      first(k) == Min({i \in DOMAIN parts.query : parts.query[i].key = k})
      second(name) == 2 \in DOMAIN Pieces /\ Pieces[2] = name
  IN  PlainTarget =>
        /\ Accepted(UrlText) <=> ~IsCut /\ ~second("fragment")
        /\ Path(UrlText) = Between(Piece(1), 1, Cut)
        /\ ~IsCut => Query(UrlText) = Piece(2)
        /\ Accepted(UrlText) =>
             /\ Params(UrlText) = [k \in IF second("query") THEN keys ELSE {} |-> parts.query[first(k)].val]
             /\ Fragment(UrlText) = Piece(3)
             /\ Url(UrlText) = TargetText

\* An URL is taken apart into what it was put together from (uri.cpp:12-119).
UrlIsParsed == AuthorityIsParsed /\ TargetIsParsed
=============================================================================
