-------------------------------- MODULE MCInputs --------------------------------
(***************************************************************************)
(* What the user gives the program, on small instances: the words of a     *)
(* command line, the text of an address, and the headers and bodies of a   *)
(* request.  Each of the three machines moves only while the other two are *)
(* where they begin, so that the run has the states of each and not their  *)
(* product.                                                                *)
(***************************************************************************)
EXTENDS CommandLine, Url, Request, TLC

-----------------------------------------------------------------------------
(* Up to four words of every form.                                           *)

\* "thr", "e" and "out" stand for the beginnings of long names, "url" for an address.
MCWord ==
    {<<"-", "-">>, <<"url">>, <<"4">>, <<"-", "t">>, <<"-", "L", "t", "2", "K">>,
     <<"-", "-", "thr", "=", "0">>, <<"-", "-", "thr">>, <<"-", "-", "e">>, <<"-", "-", "none">>,
     <<"-", "-", "out", "=", "json">>, <<"-", "-", "output", "=", "json">>,
     <<"-", "-", "latency", "=", "4">>, <<"-", "c">>, <<"-", "1">>,
     <<"-", "d", " ", "4", " ", "m", " ", "x">>, <<"-", "d", "-", "4", "s">>, <<"-", "s">>,
     <<"a.js">>, <<"b.toml">>, <<"-", "e">>, <<"-", "e", "quickjs">>, <<"-", "v", "E">>, <<"-", "h">>}

MCSymbol == UNION {Range(word) : word \in MCWord} \union DOMAIN Options

MCCompletions ==
    <<"thr">> :> {"threads"} @@ <<"e">> :> {"engine", "engines"}
    @@ <<"out">> :> {"output", "output-file"}

MCDigitOf == "0" :> 0 @@ "1" :> 1 @@ "2" :> 2 @@ "4" :> 4

MCAddresses == {<<"url">>}

MCExtension == <<"a.js">> :> "js" @@ <<"b.toml">> :> "toml"

MCBuilds == {<<"luajit", "quickjs", "config">>, <<"config", "stub">>, <<"config">>}

-----------------------------------------------------------------------------
(* Every text of MaxMore characters, every authority of that length and the  *)
(* continuations of one long authority of each form.                         *)

MCChar == {"a", "g", "0", "9", "/", ":", "?", "#", "@", "[", "]", "*", "!", "_", ".", "-", "%",
           "^", " "}

MCDigit == "0" :> 0 @@ "9" :> 9

Scheme == <<"g", ":", "/", "/">>

MCStarts ==
    {<<>>, Scheme, Scheme \o <<"a", "@", "a">>, Scheme \o <<"[", ":">>,
     Scheme \o <<"[", ":", "%", "g">>, Scheme \o <<"a", ":", "9", "/">>,
     Scheme \o <<"[", "a", "]", ":">>}

-----------------------------------------------------------------------------
(* Headers that decide about framing and one that does not.                  *)

\* "X/Y" passes validate() and is no token; "X Y" does not pass.
MCTokens == {"Host", "host", "Content-Length", "content-length", "X"}
MCNamed == MCTokens \union {"X/Y"}

MCLower == [n \in MCNamed \union {"X Y"} |->
               CASE n \in {"Host", "host"} -> "host"
                 [] n \in {"Content-Length", "content-length"} -> "content-length"
                 [] n = "X" -> "x"
                 [] n = "X/Y" -> "x/y"
                 [] n = "X Y" -> "x y"]

Option(name, separator, value) == [name |-> name, separator |-> separator, value |-> value]

MCGivenHeaders ==
    {<<>>,
     <<Option("Host", ": ", Text("given")), Option("X", ":", Text("1"))>>,
     <<Option("host", ": ", Text("given")), Option("X", ": ", Control)>>,
     <<Option("X", ": ", Text("1")), Option("X", ": ", Text("2"))>>,
     <<Option("Content-Length", ": ", Number(2))>>,
     <<Option("content-length", ": ", Number(1))>>}

MCAssignable ==
    {<<"Host", Text("script")>>, <<"Content-Length", Number(1)>>,
     <<"content-length", Number(0)>>, <<"X", Text("2")>>, <<"X", Control>>,
     <<"X/Y", Text("1")>>, <<"X Y", Text("1")>>}

MCReassigned ==
    {<<"Host", Text("script")>>, <<"Content-Length", Number(1)>>, <<"content-length", Number(0)>>}

MCBodies == {<<>>, <<Junk>>, <<LikeRequest, Junk>>}

-----------------------------------------------------------------------------
(* The three machines.                                                       *)

LineRests == args = <<>> /\ build = <<"config">>
UrlRests == UrlInit
RequestRests == Init /\ ~dynamic /\ given = <<>>

\* The machine of the address has already read one of the texts.
MCUrlInit == url \in Starts /\ marks = MarksOf(url)

MCInit ==
    \/ LineInit /\ UrlRests /\ RequestRests
    \/ LineRests /\ MCUrlInit /\ RequestRests
    \/ LineRests /\ UrlRests /\ Init

MCNext ==
    \/ UrlRests /\ RequestRests /\ LineNext /\ UNCHANGED <<urlVars, vars>>
    \/ LineRests /\ RequestRests /\ UrlNext /\ UNCHANGED <<lineVars, vars>>
    \/ LineRests /\ UrlRests /\ Next /\ UNCHANGED <<lineVars, urlVars>>

MCSpec == MCInit /\ [][MCNext]_<<lineVars, urlVars, vars>>
=============================================================================
