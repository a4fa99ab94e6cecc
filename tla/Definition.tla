----------------------------- MODULE Definition -----------------------------
(***************************************************************************)
(* The way of a task definition from its source file to the wrapper:       *)
(* parse_task, materialize, lint_task, dump_task, load_installed, and what *)
(* exec_task then takes from it.  A TOML table is a function from the keys *)
(* it has to typed values; a TaskSpec is a record whose optional fields    *)
(* are sequences of at most one element.  A text is the set of its marks,  *)
(* what it contains that some step looks at: "quote", "newline", "control" *)
(* (characters JSON escapes), "nul", "delete", "equals" (a sign), "known", *)
(* "unknown" (placeholders), "forbidden" (by the policy), or that it is    *)
(* "empty", "relative" or "unreadable" (a path).  A [notify] name is a     *)
(* pair of a word and of marks, "blank" for outer blanks.                  *)
(***************************************************************************)
EXTENDS Integers, Sequences, FiniteSetsExt, SequencesExt

Str(v)   == [type |-> "str", v |-> v]
Num(v)   == [type |-> "int", v |-> v]
Bool(v)  == [type |-> "bool", v |-> v]
List(v)  == [type |-> "list", v |-> v]
Table(v) == [type |-> "table", v |-> v]

Has(t, k)      == k \in DOMAIN t
Get(t, k, def) == IF Has(t, k) THEN t[k].v ELSE def
Opt(t, k)      == IF Has(t, k) THEN <<t[k].v>> ELSE <<>>
Typed(t, k, type) == Has(t, k) => t[k].type = type

-----------------------------------------------------------------------------
(* Durations and schedules.  A duration is a sequence of amounts and units *)
(* and a schedule the sequence of its words; both are compared as written. *)

UnitSeconds == [s |-> 1, m |-> 60, h |-> 3600, d |-> 86400]

DurationOk(x) == x # <<>> /\ \A i \in DOMAIN x : x[i][2] \in DOMAIN UnitSeconds
ParseDuration(x) ==
    LET sum[i \in 0..Len(x)] == IF i = 0 THEN 0 ELSE sum[i - 1] + x[i][1] * UnitSeconds[x[i][2]]
    IN  sum[Len(x)]
DumpDuration(n)  == << <<n, "s">> >>

WEEKDAY_NAMES ==
    [sun |-> 0, mon |-> 1, tue |-> 2, wed |-> 3, thu |-> 4, fri |-> 5, sat |-> 6, sunday |-> 0,
     monday |-> 1, tuesday |-> 2, wednesday |-> 3, thursday |-> 4, friday |-> 5, saturday |-> 6]
ShortNamesMondayFirst == <<"mon", "tue", "wed", "thu", "fri", "sat", "sun">>
ShortNames == <<"sun", "mon", "tue", "wed", "thu", "fri", "sat">>

TimeOk(x) == x[1] \in 0..23 /\ x[2] \in 0..59

TextOk(w) ==
    CASE w = <<>>          -> FALSE
      [] w[1] = "daily"    -> Len(w) = 2 /\ TimeOk(w[2])
      [] w[1] = "weekly"   -> Len(w) = 3 /\ w[2] \in DOMAIN WEEKDAY_NAMES /\ TimeOk(w[3])
      [] w[1] = "monthly"  -> Len(w) = 3 /\ w[2] \in 1..31 /\ TimeOk(w[3])
      [] w[1] = "every"    -> Len(w) = 2 /\ w[2][1] > 0 /\ w[2][2] \in {"m", "h"}
      [] OTHER             -> FALSE

\* Schedule.text is not what was written: weekdays are abbreviated.
CanonicalText(w) ==
    IF w[1] = "weekly" THEN [w EXCEPT ![2] = ShortNames[WEEKDAY_NAMES[w[2]] + 1]] ELSE w

\* The neutral form; fields a kind lacks are <<>>.
ParseText(w) ==
    [text    |-> CanonicalText(w), kind |-> IF w[1] = "every" THEN "interval" ELSE w[1],
     time    |-> IF w[1] = "every" THEN <<>> ELSE Last(w),
     weekday |-> IF w[1] = "weekly" THEN <<WEEKDAY_NAMES[w[2]]>> ELSE <<>>,
     day     |-> IF w[1] = "monthly" THEN <<w[2]>> ELSE <<>>,
     seconds |-> IF w[1] = "every" THEN <<ParseDuration(<<w[2]>>)>> ELSE <<>>,
     raw     |-> <<>>]

RawOk(r) == DOMAIN r # {} /\ DOMAIN r \subseteq {"systemd", "launchd"}

ParseRaw(r) == [text |-> <<"custom">>, kind |-> "raw", time |-> <<>>, weekday |-> <<>>,
                day |-> <<>>, seconds |-> <<>>, raw |-> r]

ScheduleOk(x) == \/ x.type = "str" /\ TextOk(x.v)
                 \/ x.type = "table" /\ RawOk(x.v)
ParseSchedule(x) == IF x.type = "str" THEN ParseText(x.v) ELSE ParseRaw(x.v)

DumpSchedule(s) == IF s.kind = "raw" THEN Table(s.raw) ELSE Str(s.text)

\* to_systemd and to_launchd raise for an escape-hatch table without an entry
\* for the backend, or with one of the wrong type.  "floats" is a list of tables
\* with a float or a date in them: to_launchd truncates it, to_systemd quotes it.
RawTypes == [systemd |-> {"string", "strings", "tables", "floats"},
             launchd |-> {"integer", "table", "tables", "floats"}]

Expressible(s, backend) ==
    s.kind = "raw" => Has(s.raw, backend) /\ s.raw[backend].kind \in RawTypes[backend]

\* plistlib raises for a control character in a key of the launchd entry.
Renders(s, backend) ==
    s.kind = "raw" /\ backend = "launchd" => s.raw[backend].marks \cap {"control", "nul"} = {}

-----------------------------------------------------------------------------
(* parse_task.                                                             *)

TASK_KEYS ==
    {"schema_version", "name", "description", "command", "stdin", "stdin_file", "cwd", "env",
     "env_files", "path_prepend", "schedule", "timeout", "jitter", "persistent", "lock",
     "summary_cmd", "on_failure", "on_success", "allow_full_access", "disabled", "notify"}

Strings   == {"name", "description", "stdin", "stdin_file", "cwd", "timeout", "jitter", "lock"}
Lists     == {"command", "env_files", "path_prepend", "summary_cmd", "on_failure", "on_success"}
Booleans  == {"persistent", "allow_full_access", "disabled"}
Tables    == {"env", "notify"}

TypesOk(d) ==
    /\ \A k \in Strings : Typed(d, k, "str")
    /\ \A k \in Lists : Typed(d, k, "list")
    /\ \A k \in Booleans : Typed(d, k, "bool")
    /\ \A k \in Tables : Typed(d, k, "table")

\* _notify: without a type it follows from the presence of a command.
TransportKind(t) ==
    IF Get(t, "type", "") # "" THEN t["type"].v
    ELSE IF Get(t, "command", <<>>) # <<>> THEN "command" ELSE "ntfy"

NOTIFY_KEYS == {"type", "url_env", "command", "title"}

TransportOk(t) ==
    /\ DOMAIN t \subseteq NOTIFY_KEYS
    /\ Typed(t, "command", "list") /\ \A k \in {"type", "url_env", "title"} : Typed(t, k, "str")
    /\ \/ /\ TransportKind(t) = "ntfy"
          /\ Has(t, "url_env") /\ "empty" \notin t["url_env"].v /\ ~Has(t, "command")
       \/ /\ TransportKind(t) = "command"
          /\ Get(t, "command", <<>>) # <<>> /\ ~Has(t, "url_env")

Transport(t) == [kind |-> TransportKind(t), url_env |-> Opt(t, "url_env"),
                 command |-> Get(t, "command", <<>>), title |-> Opt(t, "title")]

NameOk(n) == n \notin {"catchup", "../task"}

Parses(d) ==
    /\ DOMAIN d \subseteq TASK_KEYS
    /\ Typed(d, "schema_version", "int") /\ Get(d, "schema_version", 0) = 2
    /\ TypesOk(d)
    /\ Has(d, "name") /\ NameOk(d["name"].v) /\ Has(d, "description")
    /\ Get(d, "command", <<>>) # <<>>
    /\ ~(Has(d, "stdin") /\ Has(d, "stdin_file"))
    /\ Has(d, "schedule") => ScheduleOk(d["schedule"])
    /\ \A k \in {"timeout", "jitter"} : Has(d, k) => DurationOk(d[k].v)
    /\ Has(d, "summary_cmd") => d["summary_cmd"].v # <<>>
    /\ \A n \in DOMAIN Get(d, "notify", <<>>) : TransportOk(d["notify"].v[n])

Task(d) ==
    [name |-> d["name"].v, description |-> d["description"].v, command |-> d["command"].v,
     stdin |-> Opt(d, "stdin"), stdin_file |-> Opt(d, "stdin_file"), cwd |-> Opt(d, "cwd"),
     env |-> Get(d, "env", <<>>), env_files |-> Get(d, "env_files", <<>>),
     path_prepend |-> Get(d, "path_prepend", <<>>),
     schedule |-> IF Has(d, "schedule") THEN <<ParseSchedule(d["schedule"])>> ELSE <<>>,
     timeout |-> IF Has(d, "timeout") THEN <<ParseDuration(d["timeout"].v)>> ELSE <<>>,
     jitter |-> ParseDuration(Get(d, "jitter", <<>>)),
     persistent |-> Opt(d, "persistent"), lock |-> Opt(d, "lock"),
     summary_cmd |-> Opt(d, "summary_cmd"), on_failure |-> Get(d, "on_failure", <<>>),
     on_success |-> Get(d, "on_success", <<>>),
     allow_full_access |-> Get(d, "allow_full_access", FALSE),
     disabled |-> Get(d, "disabled", FALSE),
     notify |-> LET raw == Get(d, "notify", <<>>)
                IN  [n \in DOMAIN raw |-> Transport(raw[n])]]

\* materialize: the content of a readable stdin_file becomes stdin.
Materializes(t) == \A f \in Range(t.stdin_file) : "unreadable" \notin f
Materialize(t)  == IF t.stdin_file = <<>> THEN t
                   ELSE [t EXCEPT !.stdin = t.stdin_file, !.stdin_file = <<>>]

-----------------------------------------------------------------------------
(* lint_task and what install writes.                                      *)

\* build_invocation.
Expands(t) == \A a \in Range(t.command) : "unknown" \notin a

LockNameOk(l) == l # "../lock"

\* lint looks the reference up as it is written after the prefix.
Defined(t, r) == r.prefix = "notify:" /\ r.name \in DOMAIN t.notify

References(t) == Range(t.on_failure) \cup Range(t.on_success)

LintOk(t, forbidden, backend) ==
    /\ t.stdin_file = <<>>
    /\ \A s \in Range(t.schedule) : Expressible(s, backend)
    /\ \A p \in Range(t.env_files \o t.path_prepend \o t.cwd) : "relative" \notin p
    /\ \A l \in Range(t.lock) : LockNameOk(l)
    /\ \A r \in References(t) : Defined(t, r)
    /\ Expands(t)
    /\ forbidden /\ ~t.allow_full_access => \A a \in Range(t.command) : "forbidden" \notin a

\* _install_task gets as far as the files it writes.
Accepted(d, forbidden, backend) ==
    /\ Parses(d)
    /\ Materializes(Task(d))
    /\ LintOk(Materialize(Task(d)), forbidden, backend)
    /\ \A s \in Range(Task(d).schedule) : Renders(s, backend)

DumpTransport(t) ==
    [k \in {"type"} \cup {o \in {"url_env", "title", "command"} : t[o] # <<>>} |->
        CASE k = "type"    -> Str(t.kind)
          [] k = "command" -> List(t.command)
          [] OTHER         -> Str(t[k][1])]

\* The keys dump_task writes: options that are not None, containers that are
\* not empty, flags that are set.
Written(t) ==
    {"schema_version", "name", "description", "command"}
    \cup {k \in {"stdin", "cwd", "schedule", "timeout", "persistent", "lock", "summary_cmd",
                 "env_files", "path_prepend", "on_failure", "on_success"} : t[k] # <<>>}
    \cup {k \in {"env", "notify"} : DOMAIN t[k] # {}}
    \cup {k \in {"allow_full_access", "disabled"} : t[k]}
    \cup (IF t.jitter # 0 THEN {"jitter"} ELSE {})

DumpTask(t) ==
    [k \in Written(t) |->
        CASE k = "schema_version"                      -> Num(2)
          [] k \in {"name", "description"}             -> Str(t[k])
          [] k \in {"stdin", "cwd", "lock"}            -> Str(t[k][1])
          [] k = "timeout"                             -> Str(DumpDuration(t.timeout[1]))
          [] k = "jitter"                              -> Str(DumpDuration(t.jitter))
          [] k = "schedule"                            -> DumpSchedule(t.schedule[1])
          [] k = "persistent"                          -> Bool(t.persistent[1])
          [] k \in {"allow_full_access", "disabled"}   -> Bool(TRUE)
          [] k = "summary_cmd"                         -> List(t.summary_cmd[1])
          [] k = "env"                                 -> Table(t.env)
          [] k = "notify" -> Table([n \in DOMAIN t.notify |-> DumpTransport(t.notify[n])])
          [] OTHER                                     -> List(t[k])]

\* _toml_value raises a TypeError for a float or a date.
Dumps(t) == \A s \in Range(t.schedule) : \A b \in DOMAIN s.raw :
               s.raw[b].kind \notin {"float", "floats"}

-----------------------------------------------------------------------------
(* The installed file.                                                     *)

\* _toml_string is json.dumps: what JSON escapes, and what TOML wants escaped.
JsonEscapes == {"quote", "newline", "control", "nul"}
TomlForbids == {"quote", "newline", "control", "nul", "delete"}

\* The texts written for a task.
Texts(t) ==
    {t.description} \cup DOMAIN t.env \cup Range(t.env)
    \cup Range(t.command) \cup Range(t.env_files) \cup Range(t.path_prepend)
    \cup Range(t.stdin) \cup Range(t.cwd) \cup (UNION {Range(c) : c \in Range(t.summary_cmd)})
    \cup (UNION {{s.raw[b].marks : b \in DOMAIN s.raw} : s \in Range(t.schedule)})
    \cup {r.name[2] : r \in References(t)} \cup {n[2] : n \in DOMAIN t.notify}
    \cup (UNION {Range(t.notify[n].url_env) \cup Range(t.notify[n].title)
                  \cup Range(t.notify[n].command) : n \in DOMAIN t.notify})

\* tomllib reads the file back.
Readable(f) == \A x \in Texts(Task(f)) : x \cap TomlForbids \subseteq JsonEscapes

\* load_installed.
Loads(f, name) ==
    /\ Readable(f) /\ Parses(f)
    /\ Task(f).name = name /\ Task(f).stdin_file = <<>>

-----------------------------------------------------------------------------
(* The wrapper, where programs, directories and env files exist, and the   *)
(* env files set none of the task's variables.                             *)

PathKey == {"PATH"}
OwnKeys == {{"AUTOMATIONCTL_TASK"}, {"AUTOMATIONCTL_RUN_DIR"}}

\* build_env: PATH joins path_prepend, env overrides it, and the wrapper env.
BuildEnv(t) ==
    [k \in {PathKey} \cup DOMAIN t.env \cup OwnKeys |->
        IF k \in OwnKeys THEN {}
        ELSE IF k \in DOMAIN t.env THEN t.env[k]
        ELSE UNION Range(t.path_prepend)]

\* subprocess raises a ValueError for a NUL, and for "=" in a variable's name.
Popen(argv, env) ==
    /\ \A a \in Range(argv) : "nul" \notin a
    /\ \A k \in DOMAIN env : k \cap {"nul", "equals"} = {} /\ "nul" \notin env[k]

Strip(n) == <<n[1], n[2] \ {"blank"}>>
NoName   == <<"", {}>>

\* dispatch finds the transport that the reference names.
Resolves(t, r) ==
    /\ r.prefix = "notify:"
    /\ Strip(r.name) # NoName /\ Strip(r.name) \in DOMAIN t.notify /\ Strip(r.name) = r.name

\* exec_task neither raises nor gives the run up for what the definition says:
\* env files, PATH lookup, cwd, Popen, timeout, summary_cmd, notifications.  A
\* disabled task is only recorded as skipped.
Executes(t) ==
    /\ Expands(t) /\ \A l \in Range(t.lock) : LockNameOk(l)
    /\ \A f \in Range(t.env_files) \cup Range(t.cwd) : "nul" \notin f
    /\ "empty" \notin t.command[1]
    /\ Popen(t.command, BuildEnv(t))
    /\ t.timeout # <<0>>
    /\ \A c \in Range(t.summary_cmd) : Popen(c, BuildEnv(t))
    /\ \A r \in References(t) : Resolves(t, r)

Runs(t, backend) ==
    /\ t.disabled \/ Executes(t)
    /\ \A s \in Range(t.schedule) : Expressible(s, backend)

-----------------------------------------------------------------------------
(* What validation lets through, field by field.                           *)

\* What becomes an argument, a variable or a path: path_prepend unless env has
\* a PATH, and a value unless the wrapper sets its variable.
Passed(t) ==
    Range(t.command) \cup Range(t.env_files) \cup Range(t.cwd) \cup DOMAIN t.env
    \cup (UNION {Range(c) : c \in Range(t.summary_cmd)})
    \cup {t.env[k] : k \in DOMAIN t.env \ OwnKeys}
    \cup (IF PathKey \in DOMAIN t.env THEN {} ELSE Range(t.path_prepend))

Unwritable(t) ==
    \/ \E s \in Range(t.schedule) : \E b \in DOMAIN s.raw : s.raw[b].kind \in {"float", "floats"}
    \/ \E x \in Texts(t) : "delete" \in x

Unrunnable(t) ==
    ~t.disabled /\ \/ \E x \in Passed(t) : "nul" \in x
                   \/ \E k \in DOMAIN t.env : "equals" \in k
                   \/ "empty" \in t.command[1]
                   \/ t.timeout = <<0>>
                   \/ \E r \in References(t) : r.name = NoName \/ Strip(r.name) # r.name

\* What install accepts it can load again, with the same meaning in every
\* field, and the wrapper can run it, exactly if it is free of the flaws that
\* validation does not look for: a float in a schedule table, a DEL anywhere, a
\* NUL in what becomes an argument, a variable or a path, "=" in a variable's
\* name, an empty program, a zero timeout, a blank or empty transport name
\* (dump_task against parse_task, and lint_task against the wrapper).
Faithful(d, forbidden, backend) ==
    Accepted(d, forbidden, backend) =>
        LET task == Materialize(Task(d))
            file == DumpTask(task)
        IN  Dumps(task) /\ Loads(file, task.name) /\ Task(file) = task /\ Runs(Task(file), backend)
            <=> ~Unwritable(task) /\ ~Unrunnable(task)
=============================================================================
