------------------------------ MODULE CommandLine ------------------------------
(***************************************************************************)
(* From the words of a command line to a benchmark or an exit: the option  *)
(* parser (crates/wrkrs/src/getopt.rs), the settings (cli.rs), the numbers *)
(* with their units (units.rs), the choice of an engine (engines/mod.rs)   *)
(* and the first half of main (main.rs).                                   *)
(*                                                                         *)
(* A word is a sequence of characters, with an option's long name, or the  *)
(* beginning of one, for a single character.                               *)
(***************************************************************************)
EXTENDS Integers, Sequences, SequencesExt

CONSTANTS
    Symbol,      \* the characters, and what stands for one
    Word,        \* the words
    MaxWords,    \* bound: how many of them
    Completions, \* the long names that begin with what may stand for a name
    DigitOf,     \* the value of each digit
    Addresses,   \* the words parse_url accepts
    Modulus,     \* what a u64 wraps at, 2^64 in the code
    Extension,   \* the extension of a word that has one
    Builds,      \* the engines each build has, in their order
    Nil          \* nothing

\* The options: long name, and whether they take a value.
Options ==
    [c |-> [long |-> "connections", value |-> TRUE], d |-> [long |-> "duration", value |-> TRUE],
     t |-> [long |-> "threads", value |-> TRUE], s |-> [long |-> "script", value |-> TRUE],
     H |-> [long |-> "header", value |-> TRUE], L |-> [long |-> "latency", value |-> FALSE],
     T |-> [long |-> "timeout", value |-> TRUE], o |-> [long |-> "output", value |-> TRUE],
     O |-> [long |-> "output-file", value |-> TRUE], e |-> [long |-> "engine", value |-> TRUE],
     E |-> [long |-> "engines", value |-> FALSE], h |-> [long |-> "help", value |-> FALSE],
     v |-> [long |-> "version", value |-> FALSE]]

ShortOf(long) == CHOOSE short \in DOMAIN Options : Options[short].long = long

\* The extensions each engine handles.
Handles ==
    [luajit |-> {"lua"}, lua54 |-> {"lua"}, quickjs |-> {"js"}, config |-> {"toml", "json"},
     stub |-> {"stub"}]

\* What getopt, the settings and select() fail with.
Errors ==
    {"unrecognized-option", "ambiguous-option", "doesnt-allow-argument", "requires-argument",
     "invalid-option", "no-message", "invalid-output-mode", "not-compiled-in",
     "requires-script", "no-engine", "no-extension", "not-handled"}

ASSUME CommandLineOK ==
    /\ Word \subseteq Seq(Symbol) /\ DOMAIN Options \union {"-"} \subseteq Symbol
    /\ MaxWords \in Nat
    /\ \A name \in DOMAIN Completions :
         Completions[name] \subseteq {Options[s].long : s \in DOMAIN Options}
    /\ DigitOf \in [DOMAIN DigitOf -> 0 .. 9]
    /\ Addresses \subseteq Word
    /\ Modulus \in Nat /\ Modulus > 4000
    /\ \A build \in Builds : build \in Seq(DOMAIN Handles) /\ Contains(build, "config")
    /\ Nil \notin Seq(Symbol) /\ Nil \notin Nat /\ Nil \notin Errors

VARIABLES
    args,   \* the arguments of the process
    build   \* engines(), which the features of the build decide

lineVars == <<args, build>>

-----------------------------------------------------------------------------
(* getopt: the words into options and positional arguments.                  *)

Parsed(options, positional) == [error |-> Nil, options |-> options, positional |-> positional]
Failed(error) == [error |-> error, options |-> <<>>, positional |-> <<>>]

Given(short, value) == <<[short |-> short, value |-> value]>>

DashDash == <<"-", "-">>
IsLong(word) == Len(word) > 2 /\ SubSeq(word, 1, 2) = DashDash
IsCluster(word) == Len(word) > 1 /\ word[1] = "-" /\ word[2] # "-"

\* match_long(): the options a name may mean.
Matches(name) ==
    LET exact == {s \in DOMAIN Options : name = <<Options[s].long>>}
    IN  IF exact # {} THEN exact
        ELSE IF name \in DOMAIN Completions THEN {ShortOf(long) : long \in Completions[name]}
        ELSE {}

\* Slip: a word that looks like an option is no value.
NextValuePlain(words, i) ==
    IF i < Len(words) /\ ~(words[i + 1] # <<>> /\ words[i + 1][1] = "-") THEN words[i + 1] ELSE Nil

\* The value of an option that brings none: the next word, whatever it looks like.
NextValue(words, i) == IF i < Len(words) THEN words[i + 1] ELSE Nil

\* What a word brings: an option, or some, and whether the next word was its value.
Took(options, more) == [error |-> Nil, options |-> options, more |-> more]

\* A word that starts with two dashes.
ParseLong(words, i) ==
    LET body == SubSeq(words[i], 3, Len(words[i]))
        equals == SelectInSeq(body, LAMBDA ch : ch = "=")
        name == IF equals = 0 THEN body ELSE SubSeq(body, 1, equals - 1)
        attached == SubSeq(body, equals + 1, Len(body))
        meant == Matches(name)
        short == CHOOSE s \in meant : TRUE
    IN  IF meant = {} THEN Failed("unrecognized-option")
        ELSE IF meant # {short} THEN Failed("ambiguous-option")
        ELSE IF ~Options[short].value
        THEN IF equals # 0 THEN Failed("doesnt-allow-argument")
             ELSE Took(Given(short, Nil), 0)
        ELSE IF equals # 0 THEN Took(Given(short, attached), 0)
        ELSE IF NextValue(words, i) = Nil THEN Failed("requires-argument")
        ELSE Took(Given(short, NextValue(words, i)), 1)

\* A cluster of short options, the last of which may bring its value; the first
\* character that is no flag decides how the cluster ends.
ParseCluster(words, i) ==
    LET cluster == Tail(words[i])
        at == SelectInSeq(cluster, LAMBDA ch : ch \notin DOMAIN Options \/ Options[ch].value)
        last == IF at = 0 THEN Len(cluster) ELSE at - 1
        flags == [k \in 1 .. last |-> [short |-> cluster[k], value |-> Nil]]
    IN  IF at = 0 THEN Took(flags, 0)
        ELSE IF cluster[at] \notin DOMAIN Options THEN Failed("invalid-option")
        ELSE IF at < Len(cluster)
        THEN Took(flags \o Given(cluster[at], SubSeq(cluster, at + 1, Len(cluster))), 0)
        ELSE IF NextValue(words, i) = Nil THEN Failed("requires-argument")
        ELSE Took(flags \o Given(cluster[at], NextValue(words, i)), 1)

\* What the words have brought so far, and the next of them to look at.
Start == [error |-> Nil, options |-> <<>>, positional |-> <<>>, next |-> 1]

Brought(s, options, positional, next) ==
    [error |-> Nil, options |-> s.options \o options, positional |-> s.positional \o positional,
     next |-> next]

\* One round of the loop in parse, on a word that was no value of another.
Round(words, i, s) ==
    LET took == IF IsLong(words[i]) THEN ParseLong(words, i) ELSE ParseCluster(words, i)
    IN  IF s.error # Nil \/ i < s.next THEN s
        ELSE IF words[i] = DashDash
        THEN Brought(s, <<>>, SubSeq(words, i + 1, Len(words)), Len(words) + 1)
        ELSE IF ~IsLong(words[i]) /\ ~IsCluster(words[i])
        THEN Brought(s, <<>>, <<words[i]>>, i + 1)
        ELSE IF took.error # Nil THEN [s EXCEPT !.error = took.error]
        ELSE Brought(s, took.options, <<>>, i + 1 + took.more)

\* getopt::parse()
GetOpt(words) ==
    LET upTo[i \in 0 .. Len(words)] ==
          IF i = 0 THEN Start ELSE Round(words, i, upTo[i - 1])
        s == upTo[Len(words)]
    IN  IF s.error # Nil THEN Failed(s.error) ELSE Parsed(s.options, s.positional)

-----------------------------------------------------------------------------
(* Numbers with units.                                                       *)

Wrap(n) == n % Modulus

Blank == " "

ScanStart == [at |-> "start", negative |-> FALSE, read |-> FALSE, value |-> 0, unit |-> <<>>]

\* One character: blanks, a sign, digits, blanks, and a unit of at most two characters.
ScanChar(s, ch) ==
    CASE s.at = "end" \/ (s.at \in {"start", "gap"} /\ ch = Blank) -> s
      [] s.at = "start" /\ ch \in {"+", "-"} -> [s EXCEPT !.at = "digits", !.negative = ch = "-"]
      [] s.at \in {"start", "digits"} /\ ch \in DOMAIN DigitOf ->
           [s EXCEPT !.at = "digits", !.read = TRUE, !.value = Wrap(@ * 10 + DigitOf[ch])]
      [] s.at = "digits" /\ ch = Blank -> [s EXCEPT !.at = "gap"]
      [] s.at = "unit" /\ (ch = Blank \/ Len(s.unit) = 2) -> [s EXCEPT !.at = "end"]
      [] OTHER -> [s EXCEPT !.at = "unit", !.unit = Append(@, ch)]

\* eq_ignore_ascii_case(), for the letters of the units.
Capital == [k |-> "K", m |-> "M", g |-> "G", t |-> "T", p |-> "P", s |-> "S", h |-> "H"]
AnyCase(unit) ==
    [i \in DOMAIN unit |-> IF unit[i] \in DOMAIN Capital THEN Capital[unit[i]] ELSE unit[i]]

\* scan_units(): the number, multiplied once for each unit up to its own, or nothing.
ScanUnits(input, base, units, scale) ==
    LET upTo[i \in 0 .. Len(input)] ==
          IF i = 0 THEN ScanStart ELSE ScanChar(upTo[i - 1], input[i])
        s == upTo[Len(input)]
        named == AnyCase(s.unit)
        power == SelectInSeq(units, LAMBDA unit : AnyCase(unit) = named)
        times[k \in 0 .. power] == IF k = 0 THEN s.value ELSE Wrap(times[k - 1] * scale)
        scaled == times[power]
    IN  IF ~s.read \/ (power = 0 /\ named \notin {<<>>, AnyCase(base)}) THEN Nil
        ELSE IF s.negative THEN Wrap(Modulus - scaled) ELSE scaled

ScanMetric(input) == ScanUnits(input, <<>>, <<<<"k">>, <<"M">>, <<"G">>, <<"T">>, <<"P">>>>, 1000)
ScanTime(input) == ScanUnits(input, <<"s">>, <<<<"m">>, <<"h">>>>, 60)

-----------------------------------------------------------------------------
(* The settings.                                                             *)

Usage(message) == [asks |-> "usage", message |-> message]

Defaults ==
    [threads |-> 2, connections |-> 10, duration |-> 10, timeout |-> 2000, latency |-> FALSE,
     script |-> Nil, headers |-> <<>>, engine |-> Nil, list |-> FALSE, output |-> "legacy",
     file |-> Nil, versions |-> 0, failure |-> Nil]

OutputModes == {"legacy", "modern", "json"}

\* saturating_mul
Saturating(n) == IF n > (Modulus - 1) \div 1000 THEN Modulus - 1 ELSE n * 1000

\* The settings that are numbers.
Scanned == [t |-> "threads", c |-> "connections", d |-> "duration", T |-> "timeout"]

\* One option of the loop; the first that fails ends it.
Apply(c, option) ==
    LET value == option.value
        number == IF option.short \in {"d", "T"} THEN ScanTime(value) ELSE ScanMetric(value)
        set(n) == [c EXCEPT ![Scanned[option.short]] = n]
    IN  IF c.failure # Nil THEN c ELSE
        CASE option.short \in DOMAIN Scanned ->
               IF number = Nil THEN [c EXCEPT !.failure = "no-message"]
               ELSE set(IF option.short = "T" THEN Saturating(number) ELSE number)
          [] option.short = "s" -> [c EXCEPT !.script = value]
          [] option.short = "H" -> [c EXCEPT !.headers = Append(@, value)]
          [] option.short = "L" -> [c EXCEPT !.latency = TRUE]
          [] option.short = "e" -> [c EXCEPT !.engine = value]
          [] option.short = "E" -> [c EXCEPT !.list = TRUE]
          [] option.short = "o" ->
               IF \E mode \in OutputModes : value = <<mode>>
               THEN [c EXCEPT !.output = value[1]]
               ELSE [c EXCEPT !.failure = "invalid-output-mode"]
          [] option.short = "O" -> [c EXCEPT !.file = value]
          [] option.short = "v" -> [c EXCEPT !.versions = @ + 1]
          [] OTHER -> [c EXCEPT !.failure = "no-message"]

\* The settings after the loop.
Settings(options) ==
    LET upTo[i \in 0 .. Len(options)] ==
          IF i = 0 THEN Defaults ELSE Apply(upTo[i - 1], options[i])
    IN  upTo[Len(options)]

\* Slip: only a missing connection is refused, not too few for the threads.
CheckedZero(c, positional) ==
    IF c.failure # Nil THEN Usage(c.failure)
    ELSE IF c.list THEN [asks |-> "list"]
    ELSE IF positional = <<>> \/ c.threads = 0 \/ c.duration = 0 THEN Usage("no-message")
    ELSE IF positional[1] \notin Addresses THEN Usage("invalid-URL")
    ELSE IF c.connections = 0 THEN Usage("too-few-connections")
    ELSE [asks |-> "run", config |-> c, url |-> positional[1], initArgs |-> positional]

\* The checks behind the loop, in their order.
Checked(c, positional) ==
    IF c.failure # Nil THEN Usage(c.failure)
    ELSE IF c.list THEN [asks |-> "list"]
    ELSE IF positional = <<>> \/ c.threads = 0 \/ c.duration = 0 THEN Usage("no-message")
    ELSE IF positional[1] \notin Addresses THEN Usage("invalid-URL")
    ELSE IF c.connections = 0 \/ c.connections < c.threads
    THEN Usage("too-few-connections")
    ELSE [asks |-> "run", config |-> c, url |-> positional[1], initArgs |-> positional]

\* cli::parse() of what getopt has read.
Parse(got) ==
    IF got.error # Nil THEN Usage(got.error)
    ELSE Checked(Settings(got.options), got.positional)

-----------------------------------------------------------------------------
(* The engine of a run.                                                      *)

\* The engine that was found in the build, if one was.
EngineAt(at) == IF at = 0 THEN Nil ELSE build[at]

\* find() and find_by_extension()
Find(engine) == EngineAt(SelectInSeq(build, LAMBDA name : engine = <<name>>))
FindByExtension(extension) ==
    EngineAt(SelectInSeq(build, LAMBDA name : extension \in Handles[name]))

\* default_engine()
DefaultEngine ==
    IF FindByExtension("lua") # Nil THEN FindByExtension("lua")
    ELSE EngineAt(SelectInSeq(build, LAMBDA name : name # "config"))

Chosen(engine) == [engine |-> engine, error |-> Nil]
Refused(error) == [engine |-> Nil, error |-> error]

\* select(), and the default of main for a run without a script.
Select(script, engine) ==
    LET forced == Find(engine)
        matching == FindByExtension(Extension[script])
    IN  IF engine # Nil /\ forced = Nil THEN Refused("not-compiled-in")
        ELSE IF script = Nil
        THEN IF engine # Nil THEN Refused("requires-script")
             ELSE IF DefaultEngine = Nil THEN Refused("no-engine")
             ELSE Chosen(DefaultEngine)
        ELSE IF engine # Nil THEN Chosen(forced)
        ELSE IF script \notin DOMAIN Extension THEN Refused("no-extension")
        ELSE IF matching = Nil THEN Refused("not-handled")
        ELSE Chosen(matching)

\* What main does: it starts a benchmark, lists the engines or exits with an error.
Main(outcome) ==
    IF outcome.asks # "run" THEN [does |-> outcome.asks, engine |-> Nil]
    ELSE LET choice == Select(outcome.config.script, outcome.config.engine)
         IN  [does |-> IF choice.error = Nil THEN "run" ELSE "exit", engine |-> choice.engine]

-----------------------------------------------------------------------------

LineInit == args = <<>> /\ build \in Builds

\* Another word on the command line.
AddWord ==
    /\ Len(args) < MaxWords
    /\ \E word \in Word : args' = Append(args, word)
    /\ UNCHANGED build

LineNext == AddWord

LineSpec == LineInit /\ [][LineNext]_lineVars

-----------------------------------------------------------------------------

\* Options and positional arguments spelled one by one: short options, each value in
\* a word of its own, and the positional arguments behind two dashes.
SpelledOption(option) ==
    <<<<"-", option.short>>>> \o (IF option.value = Nil THEN <<>> ELSE <<option.value>>)

Spelled(got) ==
    LET upTo[k \in 0 .. Len(got.options)] ==
          IF k = 0 THEN <<>> ELSE upTo[k - 1] \o SpelledOption(got.options[k])
    IN  upTo[Len(got.options)] \o <<DashDash>> \o got.positional

\* However a command line is spelled, in clusters, by the beginning of a name, with an
\* equals sign or with options behind the URL, it is read as the one that spells the
\* same options and arguments out: no value is taken for an option, a dash or a URL.
RereadsAsParsed ==
    \A got \in {GetOpt(args)} : got.error = Nil => GetOpt(Spelled(got)) = got

\* The last value that an option was given, or nothing.
LastValue(options, short) ==
    LET at == SelectLastInSeq(options, LAMBDA option : option.short = short)
    IN  IF at = 0 THEN Nil ELSE options[at].value

\* A benchmark that starts is the one that was asked for and one that can run: the last
\* setting counts, a thread has a connection, the time is not zero, the address is the
\* first argument, and the engine is one of the build that takes the script: the one of
\* -e, else one for its extension, and never the data file engine without a file.
RunsAsAsked ==
    \A got \in {GetOpt(args)} : \A outcome \in {Parse(got)} : \A main \in {Main(outcome)} :
        main.does = "run"
          => LET c == outcome.config
                 last(short) == LastValue(got.options, short)
             IN  /\ c.threads = IF last("t") = Nil THEN 2 ELSE ScanMetric(last("t"))
                 /\ c.connections = IF last("c") = Nil THEN 10 ELSE ScanMetric(last("c"))
                 /\ c.duration = IF last("d") = Nil THEN 10 ELSE ScanTime(last("d"))
                 /\ c.threads > 0 /\ c.connections \div c.threads > 0 /\ c.duration > 0
                 /\ got.positional[1] \in Addresses
                 /\ Contains(build, main.engine)
                 /\ c.engine # Nil => c.script # Nil /\ c.engine = <<main.engine>>
                 /\ c.engine = Nil /\ c.script # Nil
                      => Extension[c.script] \in Handles[main.engine]
                 /\ c.script = Nil => main.engine # "config"
=============================================================================
