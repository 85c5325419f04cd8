-------------------------------- MODULE Request --------------------------------
(***************************************************************************)
(* How the requests of a thread are built and counted: wrk.init and        *)
(* wrk.format of the Lua engine (crates/wrkrs/src/engines/lua/wrk.lua) and *)
(* of the QuickJS engine, the request of a data file (config/mod.rs) and   *)
(* verify_request (parser.rs), which counts the messages of a request.     *)
(*                                                                         *)
(* One script runs in both engines.  A header is a name and a value; of a  *)
(* value only what is told apart is kept: a number, a text, or a text with *)
(* a byte that no header may have.                                         *)
(***************************************************************************)
EXTENDS Integers, Sequences, FiniteSets, SequencesExt

CONSTANTS
    Absent,       \* what a script leaves out: Lua's nil, JavaScript's null
    Lower,        \* each header name in lower case
    Named,        \* the names that validate() takes
    Tokens,       \* the names that httparse takes, which are fewer
    MaxHeaders,   \* how many headers frame() has room for, 256
    GivenHeaders, \* the -H options, each with what separates name and value
    Assignable,   \* the headers a script or a file may set
    Reassigned,   \* those of them that a request function may set
    Bodies,       \* the bodies it may give
    MaxSet,       \* bound: headers it sets
    MaxBatch      \* bound: messages of one request

Text(t) == <<"text", t>>
Number(n) == <<"number", n>>
Control == <<"control">>

Names == DOMAIN Lower
Values ==
    {Text("target"), Control} \union {h[2] : h \in Assignable}
      \union UNION {{g[i].value : i \in DOMAIN g} : g \in GivenHeaders}

\* The bytes of a body: one that looks like a whole request, and any other.
LikeRequest == [line |-> "sound", headers |-> <<>>]
Junk == [line |-> "broken", headers |-> <<>>]

ASSUME RequestOK ==
    /\ {"Host", "Content-Length"} \subseteq Names
    /\ Lower["Content-Length"] = "content-length"
    /\ Tokens \subseteq Named /\ Named \subseteq Names
    /\ {"Host", "Content-Length"} \subseteq Tokens
    /\ MaxHeaders \in Nat
    /\ \A g \in GivenHeaders : g \in Seq([name : Names, separator : {": ", ":"}, value : Values])
    /\ Assignable \subseteq Names \X Values /\ Reassigned \subseteq Assignable
    /\ Absent \notin Values
    /\ Bodies \subseteq Seq({LikeRequest, Junk})
    /\ MaxSet \in Nat /\ MaxBatch \in Nat \ {0}

VARIABLES
    phase,     \* the script is loaded, wrk.init has set Host, the thread runs
    dynamic,   \* the script has a request function
    given,     \* ScriptSpec.headers
    file,      \* the headers that were set before the run, in order
    line,      \* method and path: sound, odd (validate() takes them, httparse
               \* does not) or broken
    body,      \* wrk.body
    tables,    \* per engine: wrk.headers and a table of the script's own
    cached,    \* the request that wrk.init of the Lua engine keeps
    batch      \* per engine: the messages of the request so far

vars == <<phase, dynamic, given, file, line, body, tables, cached, batch>>

-----------------------------------------------------------------------------
(* Header lists and the formatter of the core.                               *)

\* What a sequence has at some places.
Kept(s, places) ==
    LET upTo[i \in 0 .. Len(s)] ==
          IF i = 0 THEN <<>>
          ELSE IF i \in places THEN Append(upTo[i - 1], s[i]) ELSE upTo[i - 1]
    IN  upTo[Len(s)]

\* split_headers(): an option without a colon and a space is dropped.
SplitHeaders(options) ==
    Kept([i \in DOMAIN options |-> <<options[i].name, options[i].value>>],
         {i \in DOMAIN options : options[i].separator = ": "})

Has(headers, name) == \E i \in DOMAIN headers : headers[i][1] = name

FirstOf(headers, name) ==
    CHOOSE i \in DOMAIN headers :
        headers[i][1] = name /\ \A j \in 1 .. i - 1 : headers[j][1] # name

\* An entry replaces the first of its name, or is appended.
Replace(headers, header) ==
    IF Has(headers, header[1])
    THEN [headers EXCEPT ![FirstOf(headers, header[1])] = header]
    ELSE Append(headers, header)

Drop(headers, name) == Kept(headers, {i \in DOMAIN headers : headers[i][1] # name})

\* Slip: a body that is absent leaves the length of another one.
ApplyAnyLength(headers, content) ==
    IF content = Absent THEN headers
    ELSE Replace(headers, <<"Content-Length", Number(Len(content))>>)

\* apply_content_length()
ApplyContentLength(headers, content) ==
    IF content = Absent THEN Drop(headers, "Content-Length")
    ELSE Replace(headers, <<"Content-Length", Number(Len(content))>>)

\* format_request(): a message.
FormatRequest(start, headers, content, host) ==
    [line |-> start,
     headers |-> ApplyContentLength(
                     IF host = Absent \/ Has(headers, "Host") THEN headers
                     ELSE Append(headers, <<"Host", host>>), content),
     body |-> IF content = Absent THEN <<>> ELSE content]

\* Slip: a header of the file is sent beside the option of its name.
OverlayBeside(base, over) == base \o over

\* overlay(): the headers of a file over those of the options.
Overlay(base, over) ==
    LET upTo[i \in 0 .. Len(over)] ==
          IF i = 0 THEN base ELSE Replace(upTo[i - 1], over[i])
    IN  upTo[Len(over)]

\* The host and the port of the URL, host_header().
TargetHost == Text("target")

\* validate(), on what would break the request line or a header.
Valid ==
    /\ line # "broken"
    /\ \A i \in DOMAIN file : file[i][1] \in Named /\ file[i][2] # Control

\* ConfigEngine::create(): the request of a file that says what the script does.
ConfigRequest == FormatRequest(line, Overlay(SplitHeaders(given), file), body, TargetHost)

-----------------------------------------------------------------------------
(* The tables of the engines.                                                *)

NoTable == [n \in {} |-> Absent]

Put(table, name, value) ==
    [n \in DOMAIN table \union {name} |-> IF n = name THEN value ELSE table[n]]
Without(table, name) == [n \in DOMAIN table \ {name} |-> table[n]]
Get(table, name) == IF name \in DOMAIN table THEN table[name] ELSE Absent

\* The entries of a table, in an order of the engine's.
Pairs(table) == SetToSeq({<<n, table[n]>> : n \in DOMAIN table})

\* install_wrk_table() and install_wrk(): the options fill wrk.headers in order.
Installed(headers) ==
    LET upTo[i \in 0 .. Len(headers)] ==
          IF i = 0 THEN NoTable ELSE Put(upTo[i - 1], headers[i][1], headers[i][2])
    IN  upTo[Len(headers)]

\* The table and the message wrk.format of wrk.lua makes of a table.
LuaFormat(table, defaults, content) ==
    LET hosted == IF "Host" \in DOMAIN table \/ "Host" \notin DOMAIN defaults THEN table
                  ELSE Put(table, "Host", defaults["Host"])
        told == IF content = Absent THEN Without(hosted, "Content-Length")
                ELSE Put(hosted, "Content-Length", Number(Len(content)))
    IN  [table |-> told,
         message |-> [line |-> line, headers |-> Pairs(told),
                      body |-> IF content = Absent THEN <<>> ELSE content]]

\* Those of format_request_js(), which asks the core and repeats its changes.
JsFormat(table, defaults, content) ==
    LET default == Get(defaults, "Host")
        hosted == IF "Host" \in DOMAIN table \/ default = Absent THEN table
                  ELSE Put(table, "Host", default)
    IN  [table |-> IF content = Absent THEN Without(hosted, "Content-Length")
                   ELSE Put(hosted, "Content-Length", Number(Len(content))),
         message |-> FormatRequest(line, Pairs(table), content, default)]

-----------------------------------------------------------------------------
(* Counting messages.                                                        *)

\* The bytes of messages; a header block counts as one.
Stream(messages) ==
    LET upTo[i \in 0 .. Len(messages)] ==
          IF i = 0 THEN <<>>
          ELSE upTo[i - 1]
                 \o <<[line |-> messages[i].line, headers |-> messages[i].headers]>>
                 \o messages[i].body
    IN  upTo[Len(messages)]

Incomplete == 0 - 1
Malformed == 0 - 2

\* Whether httparse takes the bytes for a header block, with room for its headers.
Parses(block) ==
    /\ block.line = "sound"
    /\ Len(block.headers) <= MaxHeaders
    /\ \A i \in DOMAIN block.headers :
          block.headers[i][1] \in Tokens /\ block.headers[i][2] # Control

\* frame(): how many bytes the message of a header block has behind it.
BodyLength(block) ==
    LET lengths == {i \in DOMAIN block.headers : Lower[block.headers[i][1]] = "content-length"}
        first == CHOOSE i \in lengths : \A j \in lengths : i <= j
        value == block.headers[first][2]
    IN  IF lengths # {} /\ value[1] = "number" THEN value[2] ELSE 0

\* verify_request(): how many messages the bytes are, or why they are not.
VerifyRequest(bytes) ==
    LET n == Len(bytes)
        from[offset \in 0 .. n] ==
          IF offset = n THEN 0
          ELSE IF ~Parses(bytes[offset + 1]) THEN Malformed
          ELSE LET next == offset + 1 + BodyLength(bytes[offset + 1])
               IN  IF next > n THEN Incomplete
                   ELSE IF from[next] < 0 THEN from[next] ELSE from[next] + 1
    IN  IF n = 0 THEN Incomplete ELSE from[0]

-----------------------------------------------------------------------------

Engines == {"lua", "quickjs"}

Init ==
    /\ phase = "load"
    /\ dynamic \in BOOLEAN
    /\ given \in GivenHeaders
    /\ file = <<>>
    /\ line = "sound"
    /\ body = Absent
    /\ tables = [e \in Engines |->
                    [wrk |-> Installed(SplitHeaders(given)), mine |-> NoTable]]
    /\ cached = Absent
    /\ batch = [e \in Engines |-> <<>>]

\* The script, or its init callback, shapes the request.
Shape ==
    /\ phase \in {"load", "init"}
    /\ \/ /\ Len(file) < MaxSet
          /\ \E header \in Assignable :
               /\ file' = Append(file, header)
               /\ tables' = [e \in Engines |->
                               [tables[e] EXCEPT !.wrk = Put(@, header[1], header[2])]]
          /\ UNCHANGED <<line, body>>
       \/ body' \in Bodies /\ UNCHANGED <<line, file, tables>>
       \/ line' \in {"odd", "broken"} /\ UNCHANGED <<body, file, tables>>
    /\ UNCHANGED <<phase, dynamic, given, cached, batch>>

\* wrk.init sets Host before it calls the init callback.
SetHost ==
    /\ phase = "load"
    /\ phase' = "init"
    /\ tables' = [e \in Engines |->
                     IF "Host" \in DOMAIN tables[e].wrk THEN tables[e]
                     ELSE [tables[e] EXCEPT !.wrk = Put(@, "Host", TargetHost)]]
    /\ UNCHANGED <<dynamic, given, file, line, body, cached, batch>>

\* wrk.init of the Lua engine formats the request of a script without a request
\* function; the QuickJS engine does when it is asked.
EndInit ==
    /\ phase = "init"
    /\ phase' = "run"
    /\ LET made == LuaFormat(tables["lua"].wrk, tables["lua"].wrk, body)
       IN  /\ cached' = made.message
           /\ tables' = [tables EXCEPT !["lua"].wrk = made.table]
    /\ UNCHANGED <<dynamic, given, file, line, body, batch>>

\* request() without a function of the script.
Request ==
    /\ phase = "run" /\ ~dynamic
    /\ batch["quickjs"] = <<>>
    /\ LET made == JsFormat(tables["quickjs"].wrk, tables["quickjs"].wrk, body)
       IN  /\ batch' = [lua |-> <<cached>>, quickjs |-> <<made.message>>]
           /\ tables' = [tables EXCEPT !["quickjs"].wrk = made.table]
    /\ UNCHANGED <<phase, dynamic, given, file, line, body, cached>>

\* The request function sets a header of a table, formats a message from it and joins
\* it to the others.
Format ==
    /\ phase = "run" /\ dynamic
    /\ Len(batch["lua"]) < MaxBatch
    /\ \E name \in {"wrk", "mine"}, header \in Reassigned \union {Absent},
          content \in Bodies \union {body} :
         LET changed(e) ==
               IF header = Absent THEN tables[e]
               ELSE [tables[e] EXCEPT ![name] = Put(@, header[1], header[2])]
             lua == LuaFormat(changed("lua")[name], changed("lua").wrk, content)
             js == JsFormat(changed("quickjs")[name], changed("quickjs").wrk, content)
         IN  /\ batch' = [lua |-> Append(batch["lua"], lua.message),
                          quickjs |-> Append(batch["quickjs"], js.message)]
             /\ tables' = [tables EXCEPT !["lua"][name] = lua.table,
                                         !["quickjs"][name] = js.table]
    /\ UNCHANGED <<phase, dynamic, given, file, line, body, cached>>

Next == Shape \/ SetHost \/ EndInit \/ Request \/ Format

Spec == Init /\ [][Next]_vars

-----------------------------------------------------------------------------

\* A length that is not under the name the formatters maintain.
Disguised(header) == Lower[header[1]] = "content-length" /\ header[1] # "Content-Length"

Framed(messages) ==
    \A i \in DOMAIN messages : \A j \in DOMAIN messages[i].headers :
        ~Disguised(messages[i].headers[j])

Sound(messages) ==
    \A i \in DOMAIN messages : Parses(messages[i])

\* What validate() does not look at: tokens, and how many headers there are.
Acceptable(message) ==
    /\ message.line # "odd"
    /\ Len(message.headers) <= MaxHeaders
    /\ \A i \in DOMAIN message.headers : message.headers[i][1] \in Tokens

\* verify_request counts what was formatted, however the lengths in the tables were
\* changed before and whatever the bodies look like; and a file that passes
\* validate() is one request, unless httparse refuses its method or one of its
\* names or there are too many headers: then it is malformed.  Only a length in
\* another spelling, which no formatter maintains, or bytes no header may have can
\* come in between.
BatchCounted ==
    /\ \A e \in Engines :
         batch[e] # <<>> /\ Framed(batch[e]) /\ Sound(batch[e])
           => VerifyRequest(Stream(batch[e])) = Len(batch[e])
    /\ Valid /\ (\A i \in DOMAIN given : given[i].value # Control) /\ Framed(<<ConfigRequest>>)
         => VerifyRequest(Stream(<<ConfigRequest>>)) =
              IF Acceptable(ConfigRequest) THEN 1 ELSE Malformed

\* What a message says, in any order.
Says(message) == [message EXCEPT !.headers = Range(@)]

NamedOnce(headers) ==
    \A i, j \in DOMAIN headers : headers[i][1] = headers[j][1] => i = j

\* A script sends the same messages whatever engine it is written for, though one
\* builds its request in init and the other when it is asked, and each rewrites its
\* own tables; a data file sends what the script sends that says the same, unless
\* options repeat a name: a table keeps the last of them, the list of the file all.
EnginesAgree ==
    /\ Len(batch["lua"]) = Len(batch["quickjs"])
    /\ \A i \in DOMAIN batch["lua"] : Says(batch["lua"][i]) = Says(batch["quickjs"][i])
    /\ cached # Absent /\ NamedOnce(SplitHeaders(given)) => Says(cached) = Says(ConfigRequest)
=============================================================================
