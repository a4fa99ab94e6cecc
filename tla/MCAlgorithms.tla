---------------------------- MODULE MCAlgorithms ----------------------------
(***************************************************************************)
(* The pure algorithms, for TLC: every initial state is one input, and the *)
(* invariants compare what the code computes from it with a reference.     *)
(***************************************************************************)
EXTENDS Schedule, Logs, Definition

\* November 2023, a Wednesday, to March 2025: a leap February and a plain one.
CalendarMonths == <<30, 31, 31, 29, 31, 30, 31, 30, 31, 31, 30, 31, 30, 31, 31, 28, 31>>

-----------------------------------------------------------------------------
(* Source files: a minimal definition with any two keys changed.           *)

Minimal == [schema_version |-> Num(2), name |-> Str("task"), description |-> Str({}),
            command |-> List(<<{}>>)]

Chars          == {"quote", "newline", "control", "delete"}
TransportNames == {NoName, <<"ops", {}>>, <<"ops", {"blank"}>>, <<"ops", {"delete"}>>}
RawKinds       == {"string", "strings", "integer", "table", "tables", "empty", "float", "floats"}
RawValues      == {[kind |-> k, marks |-> {}] : k \in RawKinds}
                  \cup {[kind |-> "table", marks |-> {m}] : m \in {"control", "delete"}}
                  \cup {[kind |-> "string", marks |-> {"delete"}]}

Missing == [type |-> "missing"]

Paths      == {List(<<>>), List(<<{}>>), List(<<{}, {"relative"}>>), List(<<{}, {"nul"}>>),
               List(<<{"delete"}>>), Str({})}
Variables  == {[k \in {name} |-> value] :
                  name \in {{}, {"equals"}, {"nul"}, {"delete"}, PathKey, {"AUTOMATIONCTL_TASK"}},
                  value \in {{}, {"nul"}, {"delete"}}}
Durations  == {Str(<< >>), Str(<< <<0, "s">> >>), Str(<< <<90, "m">> >>), Num(5),
               Str(<< <<1, "h">>, <<30, "m">> >>), Str(<< <<3, "w">> >>)}
Refs       == {List(<<>>), Str({})} \cup
              {List(<<[prefix |-> p, name |-> n]>>) :
                  p \in {"notify:", "mail:"}, n \in TransportNames \cup {<<"nobody", {}>>}}
Transports == {[url_env |-> Str({})], [type |-> Str("ntfy"), url_env |-> Str({"empty"})],
               [command |-> List(<<{}>>), title |-> Str({})],
               [type |-> Str("command"), command |-> List(<<>>)],
               [type |-> Str("ntfy"), url_env |-> Str({}), command |-> List(<<{}>>)],
               [type |-> Str("mail")], [type |-> Str(""), command |-> Str({})],
               [type |-> Str(""), command |-> List(<<{}>>)], [url_env |-> Str({}), token |-> Str({})],
               [url_env |-> Str({}), title |-> Str({"delete"})], [command |-> List(<<{}, {"delete"}>>)]}
ScheduleTexts ==
    {<<>>, <<"daily", <<3, 0>>>>, <<"daily", <<24, 0>>>>, <<"daily">>, <<"hourly">>}
    \cup {<<"weekly", w, <<3, 0>>>> : w \in DOMAIN WEEKDAY_NAMES \cup {"someday"}}
    \cup {<<"monthly", day, <<3, 0>>>> : day \in {0, 1, 31, 32}}
    \cup {<<"every", part>> : part \in {0, 15} \X {"m", "h", "s"}}
RawSchedules ==
    UNION {[names -> RawValues] : names \in (SUBSET {"systemd", "launchd"}) \cup {{"cron"}}}

Samples(k) ==
    CASE k = "schema_version"            -> {Num(1), Bool(TRUE), Missing}
      [] k = "name"                      -> {Str("catchup"), Str("../task"), Num(1), Missing}
      [] k = "description"               -> {Str(Chars \ {"delete"}), Str(Chars), Bool(TRUE), Missing}
      [] k = "command"                   -> {List(<<>>), List(<<{"known"}, {"unknown"}>>), Missing,
                                             List(<<{}, {"known", "forbidden"}>>), Str({}),
                                             List(<<{}, {"nul"}>>), List(<<{"empty"}>>),
                                             List(<<{}, {"delete"}>>)}
      [] k = "stdin"                     -> {Str(x) : x \in SUBSET Chars} \cup {List(<<>>)}
      [] k = "stdin_file"                -> {Str({}), Str({"delete"}), Str({"unreadable"}), Num(1)}
      [] k = "cwd"                       -> {Str({}), Str({"relative"}), Str({"nul"}), Str({"delete"}),
                                             Num(1)}
      [] k = "env"                       -> {Table(x) : x \in Variables} \cup {Table(<<>>), List(<<>>)}
      [] k \in {"env_files", "path_prepend"}           -> Paths
      [] k = "schedule"                  -> {Str(w) : w \in ScheduleTexts} \cup {Num(1)}
                                            \cup {Table(r) : r \in RawSchedules}
      [] k \in {"timeout", "jitter"}     -> Durations
      [] k = "lock"                      -> {Str("shared"), Str("../lock"), Num(1)}
      [] k = "summary_cmd"               -> {List(<<>>), List(<<{}>>), List(<<{}, {"nul"}>>),
                                             List(<<{"delete"}>>), Str({})}
      [] k \in {"on_failure", "on_success"}            -> Refs
      [] k = "notify"                    -> {Table([n \in names |-> t]) :
                                                names \in SUBSET TransportNames, t \in Transports}
      [] k = "owner"                     -> {Str("me")}
      [] OTHER                           -> {Bool(TRUE), Bool(FALSE), Str("yes")}

Changed(d, k, x) ==
    IF x.type = "missing" THEN [j \in DOMAIN d \ {k} |-> d[j]]
    ELSE [j \in DOMAIN d \cup {k} |-> IF j = k THEN x ELSE d[j]]

SourceInputs(i) ==
    \E k, l \in TASK_KEYS \cup {"owner"} : \E x \in Samples(k), y \in Samples(l) :
    \E forbidden \in BOOLEAN, backend \in Backends :
        i = [source |-> Changed(Changed(Minimal, k, x), l, y),
             forbidden |-> forbidden, backend |-> backend]

-----------------------------------------------------------------------------
VARIABLES kind, input
vars == <<kind, input>>

Init ==
    \/ kind = "occurrence" /\ input \in [schedule : Schedules, now : Moments]
    \/ kind = "tail" /\ input \in TailInputs
    \/ kind = "source" /\ SourceInputs(input)

Next == UNCHANGED vars

Spec == Init /\ [][Next]_vars

\* previous_occurrence is the moment at which systemd's and launchd's timers
\* for the same schedule last fired, so that catch-up neither invents nor
\* misses an occurrence: weekly on its own day, leap years, months without
\* the day.
OccurrenceIsFiring == kind = "occurrence" => Agrees(input.schedule, input.now)

\* tail_lines, which reads a log backwards in chunks, shows exactly the last
\* lines of the part of the file it may read, wherever a chunk or the byte
\* limit cuts a line or a CR LF pair.
TailIsTail == kind = "tail" => TailOfWhole(input)

\* A source file that install accepts (parse_task, materialize, lint_task) is
\* written so that load_installed reads back the same task and the wrapper runs
\* it, with exactly the exceptions that Faithful names.
AcceptedIsFaithful ==
    kind = "source" => Faithful(input.source, input.forbidden, input.backend)
=============================================================================
