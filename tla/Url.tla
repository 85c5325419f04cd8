---------------------------------- MODULE Url ----------------------------------
(***************************************************************************)
(* The URL parser (parse_url of crates/wrkrs/src/parser.rs) on a text that *)
(* is read a character at a time, and the Host header that is built from   *)
(* what it returns (host_header of crates/wrkrs-engine/src/format.rs).     *)
(*                                                                         *)
(* A character stands for all that no state tells apart: "a" for the       *)
(* letters that are hexadecimal digits, "g" for the others, "_" for _ and  *)
(* ~, "!" for ! ' ( ) ; & = + $ and the comma, "^" for " < > ^ ` and the   *)
(* bar, " " for every character no state accepts.                          *)
(***************************************************************************)
EXTENDS Integers, Sequences, SequencesExt

CONSTANTS
    Char,     \* the characters of the texts
    Digit,    \* the value of each digit among them
    MaxPort,  \* the largest port, 0xffff in the code
    Starts,   \* bound: texts whose continuations are read
    MaxMore   \* bound: how many characters longer than one of them

\* A field that was not marked.
None == [start |-> 0, end |-> 0]

\* parse_url returns None.
NoUrl == [scheme |-> <<>>, host |-> <<>>, port |-> <<>>, path |-> <<>>]

Letters == {"a", "g"}
Hexadecimal == {"a"} \union DOMAIN Digit
HostChars == Letters \union DOMAIN Digit \union {".", "-"}
ZoneChars == HostChars \union {"%", "_"}
UserInfoChars == ZoneChars \union {"!", "*", ":"}
UrlChars == UserInfoChars \union {"/", "^"}

ASSUME UrlOK ==
    /\ Digit \in [DOMAIN Digit -> 0 .. 9]
    /\ DOMAIN Digit \subseteq Char \intersect {"0", "1", "2", "3", "4", "5", "6", "7", "8", "9"}
    /\ MaxPort \in Nat
    /\ Starts \subseteq Seq(Char)
    /\ MaxMore \in Nat

VARIABLES
    url,   \* the text that was read
    marks  \* the state of the machine and the fields it has marked

urlVars == <<url, marks>>

-----------------------------------------------------------------------------
(* The main machine.                                                         *)

InServer == {"ServerStart", "Server", "ServerWithAt"}
InQuery == {"QueryStart", "Query"}

\* A move of a machine: from one of some states, on one of some characters, to a state.
Move(from, on, to) == [from |-> from, on |-> on, to |-> to]

\* The moves of a machine, which dies where there is none.
Step(moves, st, ch) ==
    LET open == {m \in moves : st \in m.from /\ ch \in m.on}
    IN  IF open = {} THEN "Dead" ELSE (CHOOSE m \in open : TRUE).to

UrlMoves ==
    {Move({"SpacesBeforeUrl"}, {"/", "*"}, "Path"),
     Move({"SpacesBeforeUrl", "Schema"}, Letters, "Schema"),
     Move({"Schema"}, {":"}, "SchemaSlash"),
     Move({"SchemaSlash"}, {"/"}, "SchemaSlashSlash"),
     Move({"SchemaSlashSlash"}, {"/"}, "ServerStart"),
     Move(InServer, {"/"}, "Path"),
     Move(InServer, {"?"}, "QueryStart"),
     Move({"ServerStart", "Server"}, {"@"}, "ServerWithAt"),
     Move(InServer, UserInfoChars \union {"[", "]"}, "Server"),
     Move({"Path"}, UrlChars, "Path"),
     Move({"Path"}, {"?"}, "QueryStart"),
     Move(InQuery, UrlChars \union {"?"}, "Query"),
     Move({"Path", "FragmentStart"} \union InQuery, {"#"}, "FragmentStart"),
     Move({"FragmentStart", "Fragment"}, UrlChars \union {"?"}, "Fragment"),
     Move({"Fragment"}, {"#"}, "Fragment")}

\* One step of the URL state machine.
UrlStep(st, ch) == Step(UrlMoves, st, ch)

\* Slip: a field reaches from the beginning of the text.
ExtendFromZero(condition, index, range) ==
    IF ~condition THEN range ELSE [start |-> 0, end |-> index + 1]

\* extend(), on a field that is none of its business if the condition is false.
Extend(condition, index, range) ==
    IF ~condition THEN range
    ELSE [start |-> IF range = None THEN index ELSE range.start, end |-> index + 1]

NoMarks == [state |-> "SpacesBeforeUrl", schema |-> None, authority |-> None,
            path |-> None, foundAt |-> FALSE]

\* Slip: the query of a URL without a path is taken for its path.
MarkQuery(m, index, ch) ==
    LET st == UrlStep(m.state, ch)
    IN  [state |-> st,
         schema |-> Extend(st = "Schema", index, m.schema),
         authority |-> Extend(st \in {"Server", "ServerWithAt"}, index, m.authority),
         path |-> Extend(st \in {"Path", "QueryStart", "Query"}, index, m.path),
         foundAt |-> m.foundAt \/ st = "ServerWithAt"]

\* One round of the loop in parse_fields, on the character at index.
Mark(m, index, ch) ==
    LET st == UrlStep(m.state, ch)
    IN  [state |-> st,
         schema |-> Extend(st = "Schema", index, m.schema),
         authority |-> Extend(st \in {"Server", "ServerWithAt"}, index, m.authority),
         path |-> Extend(st = "Path", index, m.path),
         foundAt |-> m.foundAt \/ st = "ServerWithAt"]

\* The loop, from the beginning of a text.
MarksOf(text) ==
    LET upTo[i \in 0 .. Len(text)] ==
          IF i = 0 THEN NoMarks ELSE Mark(upTo[i - 1], i - 1, text[i])
    IN  upTo[Len(text)]

-----------------------------------------------------------------------------
(* The host machine, on the authority.                                       *)

InUserInfo == {"UserInfoStart", "UserInfo"}

HostMoves ==
    {Move(InUserInfo, {"@"}, "HostStart"),
     Move(InUserInfo, UserInfoChars, "UserInfo"),
     Move({"HostStart"}, {"["}, "V6Start"),
     Move({"HostStart", "Host"}, HostChars, "Host"),
     Move({"Host", "V6End"}, {":"}, "PortStart"),
     Move({"V6Start", "V6"}, Hexadecimal \union {":", "."}, "V6"),
     Move({"V6"}, {"%"}, "V6ZoneStart"),
     Move({"V6ZoneStart", "V6Zone"}, ZoneChars, "V6Zone"),
     Move({"V6", "V6Zone"}, {"]"}, "V6End"),
     Move({"PortStart", "Port"}, DOMAIN Digit, "Port")}

\* One step of the host state machine.
HostStep(st, ch) == Step(HostMoves, st, ch)

\* The host after a step, which starts over when a host or an address begins.
HostRange(range, from, to, index) ==
    IF to \in {"Host", "V6"}
    THEN [start |-> IF from = to THEN range.start ELSE index, end |-> index + 1]
    ELSE IF to \in {"V6ZoneStart", "V6Zone"} THEN [start |-> range.start, end |-> index + 1]
    ELSE range

\* One round of split_host's loop, on the character at index.
SplitRound(was, index, ch) ==
    LET next == HostStep(was.state, ch)
    IN  [state |-> next,
         host |-> HostRange(was.host, was.state, next, index),
         port |-> Extend(next = "Port", index, was.port)]

\* split_host's loop: the host and the port of the authority of a text.
SplitHost(text, m) ==
    LET first == m.authority.start
        upTo[i \in first .. m.authority.end] ==
          IF i = first
          THEN [state |-> IF m.foundAt THEN "UserInfoStart" ELSE "HostStart",
                host |-> [start |-> first, end |-> first], port |-> None]
          ELSE SplitRound(upTo[i - 1], i - 1, text[i])
    IN  upTo[m.authority.end]

\* The bytes of a range.
Slice(text, range) == SubSeq(text, range.start + 1, range.end)

\* The value of a sequence of digits.
Value(digits) ==
    LET upTo[i \in 0 .. Len(digits)] ==
          IF i = 0 THEN 0 ELSE upTo[i - 1] * 10 + Digit[digits[i]]
    IN  upTo[Len(digits)]

\* What parse_url makes of a text and of what the main machine marked in it.
Parts(text, m) ==
    IF m.state = "Dead" \/ m.schema = None \/ m.authority = None THEN NoUrl
    ELSE LET split == SplitHost(text, m)
         IN  IF \/ split.state \notin {"Host", "V6End", "Port"}
                \/ Value(Slice(text, split.port)) > MaxPort
             THEN NoUrl
             ELSE [scheme |-> Slice(text, m.schema),
                   host |-> Slice(text, split.host),
                   port |-> Slice(text, split.port),
                   path |-> IF m.path = None THEN <<"/">>
                            ELSE SubSeq(text, m.path.start + 1, Len(text))]

ParseUrl(text) == Parts(text, MarksOf(text))

\* Slip: an address is not put back into its brackets.
HostHeaderBare(host, port) == host \o (IF port = <<>> THEN <<>> ELSE <<":">> \o port)

\* host_header(), which wrk.init repeats in Lua.
HostHeader(host, port) ==
    (IF Contains(host, ":") THEN <<"[">> \o host \o <<"]">> ELSE host)
      \o (IF port = <<>> THEN <<>> ELSE <<":">> \o port)

-----------------------------------------------------------------------------

\* Bound: the short continuations of some texts.
Short(text) == \E s \in Starts : IsPrefix(s, text) /\ Len(text) < Len(s) + MaxMore

UrlInit ==
    /\ url = <<>>
    /\ marks = NoMarks

\* The loop goes on to the next character; a dead machine has returned.
Read(ch) ==
    /\ marks.state # "Dead"
    /\ Short(url)
    /\ url' = Append(url, ch)
    /\ marks' = Mark(marks, Len(url), ch)

UrlNext == \E ch \in Char : Read(ch)

UrlSpec == UrlInit /\ [][UrlNext]_urlVars

-----------------------------------------------------------------------------
(* The same language, from its grammar: a text is cut at the first of the    *)
(* separators and each piece is looked at on its own.                        *)

First(text, chars) ==
    IF \E i \in 1 .. Len(text) : text[i] \in chars
    THEN CHOOSE i \in 1 .. Len(text) :
           text[i] \in chars /\ \A j \in 1 .. i - 1 : text[j] \notin chars
    ELSE Len(text) + 1

Before(text, chars) == SubSeq(text, 1, First(text, chars) - 1)
From(text, chars) == SubSeq(text, First(text, chars), Len(text))
After(text, chars) == SubSeq(text, First(text, chars) + 1, Len(text))

Of(text, chars) == \A i \in 1 .. Len(text) : text[i] \in chars
Some(text, chars) == text # <<>> /\ Of(text, chars)

\* Path, query and fragment: ["/" ...] ["?" ...] ["#" ...].
IsRest(rest) ==
    LET path == Before(rest, {"?", "#"})
        query == Before(After(rest, {"?", "#"}), {"#"})
    IN  /\ Of(path, UrlChars)
        /\ \/ First(rest, {"#"}) < First(rest, {"?"})
           \/ Of(query, UrlChars \union {"?"})
        /\ Of(After(rest, {"#"}), UrlChars \union {"?", "#"})

\* [":" port] after a host.
IsPort(text) ==
    \/ text = <<>>
    \/ text[1] = ":" /\ Some(Tail(text), DOMAIN Digit) /\ Value(Tail(text)) <= MaxPort

\* The host of host [":" port], or nothing.
HostOf(text) ==
    IF text # <<>> /\ text[1] = "["
    THEN LET inside == Tail(Before(text, {"]"}))
         IN  IF /\ First(text, {"]"}) <= Len(text)
                /\ Some(Before(inside, {"%"}), Hexadecimal \union {":", "."})
                /\ \/ ~Contains(inside, "%")
                   \/ Some(After(inside, {"%"}), ZoneChars)
                /\ IsPort(After(text, {"]"}))
             THEN inside ELSE <<>>
    ELSE IF Some(Before(text, {":"}), HostChars) /\ IsPort(From(text, {":"}))
         THEN Before(text, {":"}) ELSE <<>>

PortOf(text) ==
    After(IF text[1] = "[" THEN After(text, {"]"}) ELSE text, {":"})

\* scheme "://" [userinfo "@"] host [":" port] rest.
ByGrammar(text) ==
    LET scheme == Before(text, {":"})
        body == SubSeq(text, Len(scheme) + 4, Len(text))
        authority == Before(body, {"/", "?"})
        rest == From(body, {"/", "?"})
        named == Contains(authority, "@")
        server == IF named THEN After(authority, {"@"}) ELSE authority
    IN  IF /\ Some(scheme, Letters)
           /\ IsPrefix(<<":", "/", "/">>, From(text, {":"}))
           /\ named => Of(Before(authority, {"@"}), UserInfoChars)
           /\ HostOf(server) # <<>>
           /\ IsRest(rest)
        THEN [scheme |-> scheme, host |-> HostOf(server), port |-> PortOf(server),
              path |-> IF rest # <<>> /\ rest[1] = "/" THEN rest ELSE <<"/">>]
        ELSE NoUrl

-----------------------------------------------------------------------------

\* The two machines accept the language of the grammar and cut a text where the
\* grammar does: brackets and user information are not part of the host, a zone is,
\* the query rides along with a path and is lost without one.
ParseMatchesGrammar == Parts(url, marks) = ByGrammar(url)

\* The Host header that is built from a URL names its host and port: parsed as an
\* authority it gives them back.  An address in brackets has a colon, else
\* host_header() cannot tell it from a name.
HostHeaderReadsBack ==
    LET p == Parts(url, marks)
    IN  p # NoUrl /\ (Contains(p.host, "%") => Contains(p.host, ":"))
          => ParseUrl(<<"a", ":", "/", "/">> \o HostHeader(p.host, p.port))
               = [p EXCEPT !.scheme = <<"a">>, !.path = <<"/">>]

\* What a range may be in a text.
Inside(range, text) ==
    range = None \/ (0 <= range.start /\ range.start < range.end /\ range.end <= Len(text))

\* The marked fields lie in the text and follow each other without an overlap: no
\* slice of parse_url is out of bounds, and no byte belongs to two fields.
FieldsInside ==
    /\ Inside(marks.schema, url)
    /\ Inside(marks.authority, url)
    /\ Inside(marks.path, url)
    /\ marks.authority # None
         => marks.schema # None /\ marks.schema.end + 3 <= marks.authority.start
    /\ marks.path # None /\ marks.authority # None
         => marks.authority.end <= marks.path.start
=============================================================================
