-------------------------- MODULE DefinitionProofs --------------------------
(***************************************************************************)
(* Which source files that install accepts can be loaded and run: all those *)
(* without the flaws that validation does not look for, and no others.     *)
(***************************************************************************)
EXTENDS ScheduleProofs, SequenceTheorems

-----------------------------------------------------------------------------
(* Source files.                                                           *)

\* The value of a key, if it has the type that parse_task wants: durations
\* are parts with a number and a unit, schedules sequences of words.
Value(k, x) ==
    /\ k \in {"timeout", "jitter"} /\ x.type = "str" => \E U : x.v \in Seq(Int \X U)
    /\ k \in {"allow_full_access", "disabled"} /\ x.type = "bool" => x.v \in BOOLEAN
    /\ k = "env" /\ x.type = "table" => x.v = [n \in DOMAIN x.v |-> x.v[n]]
    /\ k = "schedule" /\ x.type = "str" => \E W : x.v \in Seq(W)

\* A source file: a table of such values, under any keys and of any types.
SourceFile(d) == \A k \in DOMAIN d : Value(k, d[k])

\* The same of a file whose types have been checked.
Sourced(d) ==
    /\ \A k \in {"timeout", "jitter"} : Has(d, k) => \E U : d[k].v \in Seq(Int \X U)
    /\ \A k \in {"allow_full_access", "disabled"} : Has(d, k) => d[k].v \in BOOLEAN
    /\ Has(d, "env") => d["env"].v = [x \in DOMAIN d["env"].v |-> d["env"].v[x]]
    /\ Has(d, "schedule") => (d["schedule"].type = "str" => \E W : d["schedule"].v \in Seq(W))

\* parse_task has checked the types.
LEMMA TypesChecked == ASSUME NEW d, SourceFile(d), Parses(d) PROVE Sourced(d)
<1>1. TypesOk(d)
  BY DEF Parses
<1>2. \A k : Has(d, k) => Value(k, d[k])
  BY DEF SourceFile, Has
<1>3. \A k \in {"timeout", "jitter"} : Has(d, k) => \E U : d[k].v \in Seq(Int \X U)
  BY <1>1, <1>2 DEF TypesOk, Typed, Strings, Value
<1>4. \A k \in {"allow_full_access", "disabled"} : Has(d, k) => d[k].v \in BOOLEAN
  BY <1>1, <1>2 DEF TypesOk, Typed, Booleans, Value
<1>5. Has(d, "env") => d["env"].v = [x \in DOMAIN d["env"].v |-> d["env"].v[x]]
  BY <1>1, <1>2 DEF TypesOk, Typed, Tables, Value
<1>6. Has(d, "schedule") => (d["schedule"].type = "str" => \E W : d["schedule"].v \in Seq(W))
  BY <1>2 DEF Value
<1> QED
  BY <1>3, <1>4, <1>5, <1>6 DEF Sourced

\* What a typed value holds.
LEMMA Values ==
    \A x : /\ Str(x).v = x /\ Str(x).type = "str" /\ Num(x).v = x /\ Num(x).type = "int"
          /\ Bool(x).v = x /\ Bool(x).type = "bool" /\ List(x).v = x /\ List(x).type = "list"
          /\ Table(x).v = x /\ Table(x).type = "table"
BY DEF Str, Num, Bool, List, Table

-----------------------------------------------------------------------------
(* Transports.                                                             *)

\* A transport is read back from the table that dump_task writes for it.
LEMMA TransportBack ==
    ASSUME NEW r, TransportOk(r)
    PROVE  /\ TransportOk(DumpTransport(Transport(r)))
           /\ Transport(DumpTransport(Transport(r))) = Transport(r)
<1> DEFINE t == Transport(r)
           f == DumpTransport(t)
<1>1. t.kind = TransportKind(r) /\ t.kind \in {"ntfy", "command"}
      /\ t.url_env = Opt(r, "url_env") /\ t.title = Opt(r, "title")
      /\ t.command = Get(r, "command", <<>>)
  BY DEF Transport, TransportOk
<1>2. t["url_env"] = t.url_env /\ t["title"] = t.title /\ t["command"] = t.command
  OBVIOUS
<1> HIDE DEF t
<1>3. /\ DOMAIN f \subseteq NOTIFY_KEYS /\ "type" \in DOMAIN f
      /\ "url_env" \in DOMAIN f <=> t.url_env # <<>>
      /\ "title" \in DOMAIN f <=> t.title # <<>>
      /\ "command" \in DOMAIN f <=> t.command # <<>>
  BY <1>2 DEF DumpTransport, NOTIFY_KEYS
<1>4. /\ f["type"] = Str(t.kind)
      /\ t.url_env # <<>> => f["url_env"] = Str(t.url_env[1])
      /\ t.title # <<>> => f["title"] = Str(t.title[1])
      /\ t.command # <<>> => f["command"] = List(t.command)
  BY <1>2 DEF DumpTransport
<1> HIDE DEF f
<1>5. Get(f, "type", "") = t.kind /\ TransportKind(f) = t.kind
  BY <1>1, <1>3, <1>4, Values DEF Get, Has, TransportKind
<1>6. Opt(f, "url_env") = t.url_env /\ Opt(f, "title") = t.title
  BY <1>1, <1>3, <1>4, Values DEF Opt, Has
<1>7. Get(f, "command", <<>>) = t.command
  BY <1>3, <1>4, Values DEF Get, Has
<1>8. Transport(f) = [kind |-> t.kind, url_env |-> t.url_env, command |-> t.command,
                      title |-> t.title]
  BY <1>5, <1>6, <1>7 DEF Transport
<1>9. t = [kind |-> t.kind, url_env |-> t.url_env, command |-> t.command, title |-> t.title]
  BY DEF t, Transport
<1>10. TransportOk(f)
  <2>1. Typed(f, "command", "list") /\ \A k \in {"type", "url_env", "title"} : Typed(f, k, "str")
    BY <1>3, <1>4, Values DEF Typed, Has
  <2>2. CASE t.kind = "ntfy"
    <3>1. ~ Has(r, "command")
      BY <1>1, <2>2 DEF TransportOk
    <3>2. Has(r, "url_env") /\ "empty" \notin r["url_env"].v
      BY <1>1, <2>2 DEF TransportOk
    <3>3. t.url_env = <<r["url_env"].v>> /\ t.command = <<>>
      BY <1>1, <3>1, <3>2 DEF Opt, Get
    <3>4. Has(f, "url_env") /\ f["url_env"] = Str(r["url_env"].v) /\ ~ Has(f, "command")
      BY <1>3, <1>4, <3>3 DEF Has
    <3>5. f["url_env"].v = r["url_env"].v
      BY <3>4, Values
    <3> QED
      BY <1>3, <1>5, <2>1, <2>2, <3>2, <3>4, <3>5 DEF TransportOk
  <2>3. CASE t.kind = "command"
    <3>1. t.command # <<>> /\ ~ Has(r, "url_env")
      BY <1>1, <2>3 DEF TransportOk
    <3>2. t.url_env = <<>>
      BY <1>1, <3>1 DEF Opt
    <3> QED
      BY <1>3, <1>5, <1>7, <2>1, <2>3, <3>1, <3>2 DEF TransportOk, Has
  <2> QED
    BY <1>1, <2>2, <2>3
<1> QED
  BY <1>8, <1>9, <1>10 DEF f, t

-----------------------------------------------------------------------------
(* Schedules.                                                              *)

\* Abbreviating a weekday twice changes nothing more, and keeps the day.
LEMMA Weekdays ==
    ASSUME NEW w \in DOMAIN WEEKDAY_NAMES
    PROVE  LET short == ShortNames[WEEKDAY_NAMES[w] + 1]
           IN  short \in DOMAIN WEEKDAY_NAMES /\ WEEKDAY_NAMES[short] = WEEKDAY_NAMES[w]
BY DEF WEEKDAY_NAMES, ShortNames

\* The text of a schedule is parsed as the schedule.
LEMMA TextBack ==
    ASSUME NEW W, NEW w \in Seq(W), TextOk(w)
    PROVE  TextOk(CanonicalText(w)) /\ ParseText(CanonicalText(w)) = ParseText(w)
<1> DEFINE c == CanonicalText(w)
<1>1. CASE w[1] # "weekly"
  BY <1>1 DEF CanonicalText
<1>2. CASE w[1] = "weekly"
  <2> DEFINE x == ShortNames[WEEKDAY_NAMES[w[2]] + 1]
             V == W \cup {x}
  <2>1. w # <<>> /\ Len(w) = 3 /\ w[2] \in DOMAIN WEEKDAY_NAMES /\ TimeOk(w[3])
    BY <1>2 DEF TextOk
  <2>2. x \in DOMAIN WEEKDAY_NAMES /\ WEEKDAY_NAMES[x] = WEEKDAY_NAMES[w[2]]
    BY <2>1, Weekdays
  <2>3. c = [w EXCEPT ![2] = x]
    BY <1>2 DEF CanonicalText
  <2>4. c \in Seq(V) /\ Len(c) = 3 /\ c[1] = "weekly" /\ c[2] = x /\ c[3] = w[3]
    <3>1. W \subseteq V /\ x \in V
      OBVIOUS
    <3>2. w \in Seq(V)
      <4> HIDE DEF V
      <4> QED
        BY <3>1, SeqMonotonic
    <3> HIDE DEF x, V, c
    <3> QED
      BY <1>2, <2>1, <2>3, <3>1, <3>2, ExceptSeq
  <2>5. CanonicalText(c) = c
    <3>1. CanonicalText(c) = [c EXCEPT ![2] = x]
      <4> HIDE DEF c
      <4> QED
        BY <2>2, <2>4 DEF CanonicalText
    <3>2. c \in [1..3 -> V]
      BY <2>4, LenProperties
    <3> HIDE DEF c, x, V
    <3> QED
      BY <2>4, <3>1, <3>2
  <2> HIDE DEF c, x
  <2>6. TextOk(c)
    BY <2>1, <2>2, <2>4 DEF TextOk
  <2>7. Last(c) = Last(w)
    BY <2>1, <2>4 DEF Last
  <2>8. ParseText(c) = ParseText(w)
    BY <1>2, <2>2, <2>4, <2>5, <2>7 DEF ParseText, c
  <2> QED
    BY <2>6, <2>8 DEF c
<1> QED
  BY <1>1, <1>2

\* A schedule is read back from the value that dump_task writes for it.
LEMMA ScheduleBack ==
    ASSUME NEW x, ScheduleOk(x), x.type = "str" => \E W : x.v \in Seq(W)
    PROVE  /\ ScheduleOk(DumpSchedule(ParseSchedule(x)))
           /\ ParseSchedule(DumpSchedule(ParseSchedule(x))) = ParseSchedule(x)
<1>1. CASE x.type = "str"
  <2> DEFINE w == x.v
  <2>1. TextOk(w) /\ ParseSchedule(x) = ParseText(w)
    BY <1>1 DEF ScheduleOk, ParseSchedule
  <2>2. PICK W : w \in Seq(W)
    BY <1>1
  <2>3. TextOk(CanonicalText(w)) /\ ParseText(CanonicalText(w)) = ParseText(w)
    BY <2>1, <2>2, TextBack
  <2>4. w[1] \in {"daily", "weekly", "monthly", "every"}
    BY <2>1 DEF TextOk
  <2>5. ParseText(w).kind # "raw" /\ ParseText(w).text = CanonicalText(w)
    BY <2>4 DEF ParseText
  <2>6. DumpSchedule(ParseSchedule(x)) = Str(CanonicalText(w))
    BY <2>1, <2>5 DEF DumpSchedule
  <2> QED
    BY <2>1, <2>3, <2>6, Values DEF ScheduleOk, ParseSchedule
<1>2. CASE x.type # "str"
  <2>1. x.type = "table" /\ RawOk(x.v) /\ ParseSchedule(x) = ParseRaw(x.v)
    BY <1>2 DEF ScheduleOk, ParseSchedule
  <2>2. ParseRaw(x.v).kind = "raw" /\ ParseRaw(x.v).raw = x.v
    BY DEF ParseRaw
  <2>3. DumpSchedule(ParseSchedule(x)) = Table(x.v)
    BY <2>1, <2>2 DEF DumpSchedule
  <2> QED
    BY <2>1, <2>3, Values DEF ScheduleOk, ParseSchedule
<1> QED
  BY <1>1, <1>2

-----------------------------------------------------------------------------
(* Durations.                                                              *)

\* What a part of a duration amounts to, and what f must be to be the sums of
\* the first parts.
Amount(x, i) == x[i][1] * UnitSeconds[x[i][2]]
Sums(f, x, n) == f = [i \in 0..n |-> IF i = 0 THEN 0 ELSE f[i - 1] + Amount(x, i)]

\* There is such a function.
LEMMA SumsExist == ASSUME NEW x, NEW n \in Nat PROVE \E f : Sums(f, x, n)
<1> DEFINE T == {k \in Nat : \E f : Sums(f, x, k)}
<1>1. 0 \in T
  <2>1. Sums([i \in 0..0 |-> 0], x, 0)
    BY DEF Sums
  <2> QED
    BY <2>1
<1>2. ASSUME NEW k \in T PROVE k + 1 \in T
  <2>1. k \in Nat
    OBVIOUS
  <2>2. PICK f : Sums(f, x, k)
    BY <1>2
  <2> DEFINE g == [i \in 0..(k + 1) |-> IF i = 0 THEN 0 ELSE f[i - 1] + Amount(x, i)]
  <2>3. \A i \in 0..k : g[i] = f[i]
    BY <2>1, <2>2 DEF Sums
  <2>4. ASSUME NEW i \in 0..(k + 1) PROVE g[i] = IF i = 0 THEN 0 ELSE g[i - 1] + Amount(x, i)
    <3>1. CASE i = 0
      BY <3>1
    <3>2. CASE i # 0
      <4>1. i - 1 \in 0..k
        BY <2>1, <3>2
      <4>2. g[i] = f[i - 1] + Amount(x, i)
        BY <3>2
      <4> QED
        BY <2>3, <3>2, <4>1, <4>2
    <3> QED
      BY <3>1, <3>2
  <2>5. g = [i \in 0..(k + 1) |-> g[i]]
    OBVIOUS
  <2> HIDE DEF g
  <2>6. g = [i \in 0..(k + 1) |-> IF i = 0 THEN 0 ELSE g[i - 1] + Amount(x, i)]
    BY <2>4, <2>5
  <2>7. Sums(g, x, k + 1)
    BY <2>6 DEF Sums
  <2> QED
    BY <2>1, <2>7
<1> HIDE DEF T
<1>3. n \in T
  <2>1. T \in SUBSET Nat
    BY DEF T
  <2> QED
    BY <1>1, <1>2, <2>1, Induction
<1> QED
  BY <1>3 DEF T

\* parse_duration is the last of these sums.
LEMMA DurationSum ==
    ASSUME NEW x, Len(x) \in Nat PROVE \E f : Sums(f, x, Len(x)) /\ ParseDuration(x) = f[Len(x)]
<1> DEFINE f == CHOOSE g : Sums(g, x, Len(x))
<1>1. Sums(f, x, Len(x))
  BY SumsExist
<1>2. ParseDuration(x) = f[Len(x)]
  BY DEF ParseDuration, Sums, Amount
<1> QED
  BY <1>1, <1>2

\* It is a number of seconds.
LEMMA DurationType ==
    ASSUME NEW U, NEW x \in Seq(Int \X U), x # <<>> => DurationOk(x) PROVE ParseDuration(x) \in Int
<1> DEFINE n == Len(x)
<1>1. n \in Nat /\ DOMAIN x = 1..n
  BY LenProperties
<1>2. PICK f : Sums(f, x, n) /\ ParseDuration(x) = f[n]
  BY <1>1, DurationSum
<1>3. \A i \in 1..n : Amount(x, i) \in Int
  <2> TAKE i \in 1..n
  <2>1. x # <<>>
    BY <1>1
  <2>2. x[i] \in Int \X U /\ x[i][2] \in DOMAIN UnitSeconds
    BY <1>1, <2>1, ElementOfSeq DEF DurationOk
  <2>3. x[i][1] \in Int /\ UnitSeconds[x[i][2]] \in Int
    BY <2>2 DEF UnitSeconds
  <2> QED
    BY <2>3 DEF Amount
<1> DEFINE T == {k \in Nat : k <= n => f[k] \in Int}
<1>4. 0 \in T
  BY <1>1, <1>2 DEF Sums
<1>5. ASSUME NEW k \in T PROVE k + 1 \in T
  <2>0. k \in Nat
    OBVIOUS
  <2> SUFFICES ASSUME k + 1 <= n PROVE f[k + 1] \in Int
    BY <2>0
  <2>1. k + 1 \in 0..n /\ k + 1 \in 1..n /\ (k + 1) - 1 = k /\ k + 1 # 0 /\ f[k] \in Int
    BY <1>1, <2>0
  <2>2. f[k + 1] = f[(k + 1) - 1] + Amount(x, k + 1)
    BY <1>2, <2>1 DEF Sums
  <2> QED
    BY <1>3, <2>1, <2>2
<1> HIDE DEF T
<1>6. n \in T
  <2>1. T \in SUBSET Nat
    BY DEF T
  <2> QED
    BY <1>1, <1>4, <1>5, <2>1, Induction
<1> QED
  BY <1>1, <1>2, <1>6 DEF T

\* No parts are no time, and seconds are read as they are written.
LEMMA DurationBack ==
    /\ ParseDuration(<<>>) = 0
    /\ \A n \in Int : DurationOk(DumpDuration(n)) /\ ParseDuration(DumpDuration(n)) = n
<1>1. ParseDuration(<<>>) = 0
  <2>1. PICK f : Sums(f, <<>>, 0) /\ ParseDuration(<<>>) = f[0]
    BY DurationSum
  <2> QED
    BY <2>1 DEF Sums
<1>2. ASSUME NEW n \in Int PROVE DurationOk(DumpDuration(n)) /\ ParseDuration(DumpDuration(n)) = n
  <2> DEFINE x == << <<n, "s">> >>
  <2>1. /\ DumpDuration(n) = x /\ Len(x) = 1 /\ x[1][1] = n /\ x[1][2] = "s"
        /\ x # <<>> /\ DOMAIN x = {1}
    BY DEF DumpDuration
  <2> HIDE DEF x
  <2>0. Len(x) \in Nat
    BY <2>1
  <2>2. PICK f : Sums(f, x, Len(x)) /\ ParseDuration(x) = f[Len(x)]
    BY ONLY <2>0, DurationSum
  <2>3. f[0] = 0 /\ f[1] = f[0] + Amount(x, 1) /\ ParseDuration(x) = f[1]
    BY <2>1, <2>2 DEF Sums
  <2>4. Amount(x, 1) = n * 1
    BY <2>1 DEF Amount, UnitSeconds
  <2>5. ParseDuration(x) = n
    BY <2>3, <2>4
  <2>6. DurationOk(x)
    BY <2>1 DEF DurationOk, UnitSeconds
  <2> QED
    BY <2>1, <2>5, <2>6
<1> QED
  BY <1>1, <1>2

-----------------------------------------------------------------------------
(* Tasks.                                                                  *)

\* The keys of one kind of value.
OptionKeys    == {"stdin", "cwd", "schedule", "timeout", "persistent", "lock", "summary_cmd"}
ContainerKeys == {"env_files", "path_prepend", "on_failure", "on_success"}

\* f has under each key what dump_task writes there for t.
Image(f, t) ==
    /\ DOMAIN f \subseteq TASK_KEYS \ {"stdin_file"}
    /\ Has(f, "schema_version") /\ f["schema_version"] = Num(2)
    /\ \A k \in {"name", "description"} : Has(f, k) /\ f[k] = Str(t[k])
    /\ Has(f, "command") /\ f["command"] = List(t["command"])
    /\ \A k \in OptionKeys \cup ContainerKeys : Has(f, k) <=> t[k] # <<>>
    /\ \A k \in {"stdin", "cwd", "lock"} : Has(f, k) => f[k] = Str(t[k][1])
    /\ Has(f, "timeout") => f["timeout"] = Str(DumpDuration(t.timeout[1]))
    /\ Has(f, "schedule") => f["schedule"] = DumpSchedule(t.schedule[1])
    /\ Has(f, "persistent") => f["persistent"] = Bool(t.persistent[1])
    /\ Has(f, "summary_cmd") => f["summary_cmd"] = List(t.summary_cmd[1])
    /\ \A k \in ContainerKeys : Has(f, k) => f[k] = List(t[k])
    /\ \A k \in {"env", "notify"} : Has(f, k) <=> DOMAIN t[k] # {}
    /\ Has(f, "env") => f["env"] = Table(t.env)
    /\ Has(f, "notify") =>
          f["notify"] = Table([n \in DOMAIN t.notify |-> DumpTransport(t.notify[n])])
    /\ \A k \in {"allow_full_access", "disabled"} :
          (Has(f, k) <=> t[k]) /\ (Has(f, k) => f[k] = Bool(TRUE))
    /\ Has(f, "jitter") <=> t.jitter # 0
    /\ Has(f, "jitter") => f["jitter"] = Str(DumpDuration(t.jitter))

\* The file has under each key what DumpTask says.
LEMMA Dumped == ASSUME NEW t PROVE Image(DumpTask(t), t)
<1> DEFINE f == DumpTask(t)
<1>1. DOMAIN f = Written(t)
  BY DEF DumpTask
<1>2. Written(t) \subseteq TASK_KEYS \ {"stdin_file"}
  BY DEF Written, TASK_KEYS
<1>3. \A k \in {"schema_version", "name", "description", "command"} : k \in Written(t)
  BY DEF Written
<1>4. \A k \in OptionKeys \cup ContainerKeys : k \in Written(t) <=> t[k] # <<>>
  BY DEF Written, OptionKeys, ContainerKeys
<1>5. \A k \in {"env", "notify"} : k \in Written(t) <=> DOMAIN t[k] # {}
  BY DEF Written
<1>6. \A k \in {"allow_full_access", "disabled"} : k \in Written(t) <=> t[k]
  BY DEF Written
<1>7. "jitter" \in Written(t) <=> t.jitter # 0
  BY DEF Written
<1>8. f["schema_version"] = Num(2)
  BY <1>3 DEF DumpTask
<1>9. \A k \in {"name", "description"} : f[k] = Str(t[k])
  BY <1>3 DEF DumpTask
<1>10. f["command"] = List(t["command"])
  BY <1>3 DEF DumpTask
<1>11. \A k \in {"stdin", "cwd", "lock"} : k \in Written(t) => f[k] = Str(t[k][1])
  BY DEF DumpTask
<1>12. "timeout" \in Written(t) => f["timeout"] = Str(DumpDuration(t.timeout[1]))
  BY DEF DumpTask
<1>13. "schedule" \in Written(t) => f["schedule"] = DumpSchedule(t.schedule[1])
  BY DEF DumpTask
<1>14. "persistent" \in Written(t) => f["persistent"] = Bool(t.persistent[1])
  BY DEF DumpTask
<1>15. "summary_cmd" \in Written(t) => f["summary_cmd"] = List(t.summary_cmd[1])
  BY DEF DumpTask
<1>16. \A k \in ContainerKeys : k \in Written(t) => f[k] = List(t[k])
  BY DEF DumpTask, ContainerKeys
<1>17. "env" \in Written(t) => f["env"] = Table(t.env)
  BY DEF DumpTask
<1>18. "notify" \in Written(t) =>
          f["notify"] = Table([n \in DOMAIN t.notify |-> DumpTransport(t.notify[n])])
  BY DEF DumpTask
<1>19. \A k \in {"allow_full_access", "disabled"} : k \in Written(t) => f[k] = Bool(TRUE)
  BY DEF DumpTask
<1>20. "jitter" \in Written(t) => f["jitter"] = Str(DumpDuration(t.jitter))
  BY DEF DumpTask
<1> HIDE DEF f
<1> QED
  BY <1>1, <1>2, <1>3, <1>4, <1>5, <1>6, <1>7, <1>8, <1>9, <1>10, <1>11, <1>12, <1>13, <1>14, <1>15,
     <1>16, <1>17, <1>18, <1>19, <1>20 DEF Image, Has, f

\* The task with its fields one by one.
Fields(t) ==
    [name |-> t.name, description |-> t.description, command |-> t.command,
     stdin |-> t.stdin, stdin_file |-> t.stdin_file, cwd |-> t.cwd, env |-> t.env,
     env_files |-> t.env_files, path_prepend |-> t.path_prepend,
     schedule |-> t.schedule, timeout |-> t.timeout, jitter |-> t.jitter,
     persistent |-> t.persistent, lock |-> t.lock, summary_cmd |-> t.summary_cmd,
     on_failure |-> t.on_failure, on_success |-> t.on_success,
     allow_full_access |-> t.allow_full_access, disabled |-> t.disabled,
     notify |-> t.notify]

\* A TaskSpec has all its fields.
LEMMA TaskFields == ASSUME NEW d PROVE Task(d) = Fields(Task(d))
BY Zenon DEF Task, Fields

\* So has one whose stdin_file was read.
LEMMA ReadFields ==
    ASSUME NEW p, p = Fields(p), NEW x, NEW t, t = [p EXCEPT !.stdin = x, !.stdin_file = <<>>]
    PROVE  t = Fields(t) /\ t.stdin_file = <<>>
<1>1. t = Fields(t)
  BY Zenon DEF Fields
<1>2. t.stdin_file = <<>>
  BY SMT DEF Fields
<1> QED
  BY <1>1, <1>2

\* A TaskSpec: options are sequences of at most one value, and every part of
\* it survives being written.
WellFormed(t) ==
    /\ t = Fields(t) /\ t.stdin_file = <<>>
    /\ NameOk(t.name) /\ t.command # <<>>
    /\ \A k \in OptionKeys : t[k] # <<>> => t[k] = <<t[k][1]>>
    /\ t.summary_cmd # <<>> => t.summary_cmd[1] # <<>>
    /\ t.timeout # <<>> => t.timeout[1] \in Int
    /\ t.jitter \in Int /\ t.allow_full_access \in BOOLEAN /\ t.disabled \in BOOLEAN
    /\ t.schedule # <<>> =>
          /\ ScheduleOk(DumpSchedule(t.schedule[1]))
          /\ ParseSchedule(DumpSchedule(t.schedule[1])) = t.schedule[1]
    /\ t.env = [x \in DOMAIN t.env |-> t.env[x]]
    /\ t.notify = [n \in DOMAIN t.notify |-> t.notify[n]]
    /\ \A n \in DOMAIN t.notify : /\ TransportOk(DumpTransport(t.notify[n]))
                                 /\ Transport(DumpTransport(t.notify[n])) = t.notify[n]

\* A function without arguments is the empty sequence.
LEMMA EmptyFunction == ASSUME NEW f, f = [x \in DOMAIN f |-> f[x]], DOMAIN f = {} PROVE f = <<>>
OBVIOUS

\* parse_task reads the task that dump_task has written.
LEMMA TaskBack ==
    ASSUME NEW t, WellFormed(t), NEW f, Image(f, t)
    PROVE  Task(f) = t
<1>1. f["name"].v = t.name /\ f["description"].v = t.description /\ f["command"].v = t.command
  BY Values DEF Image
<1>2. ASSUME NEW k \in OptionKeys, Has(f, k) => f[k].v = t[k][1]
      PROVE  Opt(f, k) = t[k]
  <2>1. Has(f, k) <=> t[k] # <<>>
    BY DEF Image
  <2>2. t[k] # <<>> => t[k] = <<t[k][1]>>
    BY DEF WellFormed
  <2> QED
    BY <1>2, <2>1, <2>2 DEF Opt
<1>3. Opt(f, "stdin") = t.stdin /\ Opt(f, "cwd") = t.cwd /\ Opt(f, "lock") = t.lock
  <2>1. \A k \in {"stdin", "cwd", "lock"} : Has(f, k) => f[k].v = t[k][1]
    BY Values DEF Image
  <2> QED
    BY <1>2, <2>1 DEF OptionKeys
<1>4. Opt(f, "persistent") = t.persistent /\ Opt(f, "summary_cmd") = t.summary_cmd
  <2>1. /\ Has(f, "persistent") => f["persistent"].v = t.persistent[1]
        /\ Has(f, "summary_cmd") => f["summary_cmd"].v = t.summary_cmd[1]
    BY Values DEF Image
  <2> QED
    BY <1>2, <2>1 DEF OptionKeys
<1>5. Opt(f, "stdin_file") = <<>>
  BY DEF Image, Opt, Has
<1>6. ASSUME NEW k \in ContainerKeys PROVE Get(f, k, <<>>) = t[k]
  <2>1. Has(f, k) <=> t[k] # <<>>
    BY DEF Image
  <2>2. Has(f, k) => f[k].v = t[k]
    BY Values DEF Image
  <2> QED
    BY <2>1, <2>2 DEF Get
<1>7. /\ Get(f, "env_files", <<>>) = t.env_files /\ Get(f, "path_prepend", <<>>) = t.path_prepend
      /\ Get(f, "on_failure", <<>>) = t.on_failure /\ Get(f, "on_success", <<>>) = t.on_success
  BY <1>6 DEF ContainerKeys
<1>8. Get(f, "env", <<>>) = t.env
  <2>1. CASE Has(f, "env")
    BY <2>1, Values DEF Image, Get
  <2>2. CASE ~ Has(f, "env")
    <3>1. DOMAIN t.env = {}
      BY <2>2 DEF Image
    <3>2. t.env = <<>>
      BY <3>1, EmptyFunction DEF WellFormed
    <3> QED
      BY <2>2, <3>2 DEF Get
  <2> QED
    BY <2>1, <2>2
<1>9. [n \in DOMAIN Get(f, "notify", <<>>) |-> Transport(Get(f, "notify", <<>>)[n])] = t.notify
  <2> DEFINE raw == [n \in DOMAIN t.notify |-> DumpTransport(t.notify[n])]
  <2>1. DOMAIN Get(f, "notify", <<>>) = DOMAIN t.notify
    <3>1. CASE Has(f, "notify")
      <4>1. Get(f, "notify", <<>>) = raw
        BY <3>1, Values DEF Image, Get
      <4> QED
        BY <4>1
    <3>2. CASE ~ Has(f, "notify")
      <4>1. DOMAIN t.notify = {}
        BY <3>2 DEF Image
      <4>2. DOMAIN <<>> = {}
        OBVIOUS
      <4> QED
        BY <3>2, <4>1, <4>2 DEF Get
    <3> QED
      BY <3>1, <3>2
  <2>2. ASSUME NEW n \in DOMAIN t.notify PROVE Transport(Get(f, "notify", <<>>)[n]) = t.notify[n]
    <3>1. Has(f, "notify")
      BY DEF Image
    <3>2. Get(f, "notify", <<>>) = raw
      BY <3>1, Values DEF Image, Get
    <3>3. Get(f, "notify", <<>>)[n] = DumpTransport(t.notify[n])
      BY <3>2
    <3> QED
      BY <3>3 DEF WellFormed
  <2>3. t.notify = [n \in DOMAIN t.notify |-> t.notify[n]]
    BY DEF WellFormed
  <2> QED
    BY <2>1, <2>2, <2>3
<1>10. /\ Get(f, "allow_full_access", FALSE) = t.allow_full_access
       /\ Get(f, "disabled", FALSE) = t.disabled
  <2>1. t.allow_full_access \in BOOLEAN /\ t.disabled \in BOOLEAN
    BY DEF WellFormed
  <2>2. ASSUME NEW k \in {"allow_full_access", "disabled"}, t[k] \in BOOLEAN
        PROVE  Get(f, k, FALSE) = t[k]
    <3>1. (Has(f, k) <=> t[k]) /\ (Has(f, k) => f[k] = Bool(TRUE))
      BY DEF Image
    <3>2. CASE Has(f, k)
      <4>1. f[k].v = TRUE /\ t[k] = TRUE
        BY <2>2, <3>1, <3>2, Values
      <4> QED
        BY <3>2, <4>1 DEF Get
    <3>3. CASE ~ Has(f, k)
      <4>1. t[k] = FALSE
        BY <2>2, <3>1, <3>3
      <4> QED
        BY <3>3, <4>1 DEF Get
    <3> QED
      BY <3>2, <3>3
  <2> QED
    BY <2>1, <2>2
<1>11. (IF Has(f, "timeout") THEN <<ParseDuration(f["timeout"].v)>> ELSE <<>>) = t.timeout
  <2>1. Has(f, "timeout") <=> t["timeout"] # <<>>
    BY DEF Image, OptionKeys
  <2>2. CASE Has(f, "timeout")
    <3>1. f["timeout"].v = DumpDuration(t.timeout[1])
      BY <2>2, Values DEF Image
    <3>2. t.timeout[1] \in Int /\ t.timeout = <<t.timeout[1]>>
      BY <2>1, <2>2 DEF WellFormed, OptionKeys
    <3>3. ParseDuration(f["timeout"].v) = t.timeout[1]
      BY <3>1, <3>2, DurationBack
    <3> QED
      BY <2>2, <3>2, <3>3
  <2> QED
    BY <2>1, <2>2
<1>12. ParseDuration(Get(f, "jitter", <<>>)) = t.jitter
  <2>1. t.jitter \in Int
    BY DEF WellFormed
  <2>2. CASE Has(f, "jitter")
    <3>1. Get(f, "jitter", <<>>) = DumpDuration(t.jitter)
      BY <2>2, Values DEF Image, Get
    <3> QED
      BY <2>1, <3>1, DurationBack
  <2>3. CASE ~ Has(f, "jitter")
    <3>1. Get(f, "jitter", <<>>) = <<>> /\ t.jitter = 0
      BY <2>3 DEF Image, Get
    <3> QED
      BY <3>1, DurationBack
  <2> QED
    BY <2>2, <2>3
<1>13. (IF Has(f, "schedule") THEN <<ParseSchedule(f["schedule"])>> ELSE <<>>) = t.schedule
  <2>1. Has(f, "schedule") <=> t["schedule"] # <<>>
    BY DEF Image, OptionKeys
  <2>2. CASE Has(f, "schedule")
    <3>1. f["schedule"] = DumpSchedule(t.schedule[1])
      BY <2>2 DEF Image
    <3>2. ParseSchedule(DumpSchedule(t.schedule[1])) = t.schedule[1]
      BY <2>1, <2>2 DEF WellFormed
    <3>3. t.schedule = <<t.schedule[1]>>
      BY <2>1, <2>2 DEF WellFormed, OptionKeys
    <3> QED
      BY <2>2, <3>1, <3>2, <3>3
  <2> QED
    BY <2>1, <2>2
<1>14. t.stdin_file = <<>>
  BY DEF WellFormed
<1>15. Task(f) = Fields(t)
  BY <1>1, <1>3, <1>4, <1>5, <1>7, <1>8, <1>9, <1>10, <1>11, <1>12, <1>13,
     <1>14 DEF Task, Fields
<1> QED
  BY <1>15 DEF WellFormed

\* parse_task accepts what dump_task has written.
LEMMA ParsesBack ==
    ASSUME NEW t, WellFormed(t), NEW f, Image(f, t)
    PROVE  Parses(f)
<1>1. DOMAIN f \subseteq TASK_KEYS
  BY DEF Image
<1>2. Typed(f, "schema_version", "int") /\ Get(f, "schema_version", 0) = 2
  BY Values DEF Image, Typed, Get
<1>3. TypesOk(f)
  <2>1. \A k \in {"name", "description", "stdin", "cwd", "timeout", "jitter", "lock"} :
           Typed(f, k, "str")
    BY Values DEF Image, Typed
  <2>2. Typed(f, "stdin_file", "str")
    BY DEF Image, Typed, Has
  <2>3. \A k \in Strings : Typed(f, k, "str")
    BY <2>1, <2>2 DEF Strings
  <2>4. \A k \in Lists : Typed(f, k, "list")
    <3>1. \A k \in {"command", "summary_cmd"} \cup ContainerKeys : Typed(f, k, "list")
      BY Values DEF Image, Typed
    <3> QED
      BY <3>1 DEF Lists, ContainerKeys
  <2>5. \A k \in Booleans : Typed(f, k, "bool")
    <3>1. /\ \A k \in {"allow_full_access", "disabled"} : Has(f, k) => f[k] = Bool(TRUE)
          /\ Has(f, "persistent") => f["persistent"] = Bool(t.persistent[1])
      BY DEF Image
    <3>2. Bool(TRUE).type = "bool" /\ Bool(t.persistent[1]).type = "bool"
      BY DEF Bool
    <3>3. \A k \in {"allow_full_access", "disabled", "persistent"} : Has(f, k) => f[k].type = "bool"
      BY <3>1, <3>2
    <3> QED
      BY <3>3 DEF Typed, Booleans
  <2>6. \A k \in Tables : Typed(f, k, "table")
    BY Values DEF Image, Typed, Tables
  <2> QED
    BY <2>3, <2>4, <2>5, <2>6 DEF TypesOk
<1>4. Has(f, "name") /\ NameOk(f["name"].v) /\ Has(f, "description")
  BY Values DEF Image, WellFormed
<1>5. Get(f, "command", <<>>) # <<>>
  BY Values DEF Image, WellFormed, Get
<1>6. ~ Has(f, "stdin_file")
  BY DEF Image, Has
<1>7. Has(f, "schedule") => ScheduleOk(f["schedule"])
  BY DEF Image, WellFormed, OptionKeys
<1>8. \A k \in {"timeout", "jitter"} : Has(f, k) => DurationOk(f[k].v)
  <2>1. Has(f, "timeout") => DurationOk(f["timeout"].v)
    <3> SUFFICES ASSUME Has(f, "timeout") PROVE DurationOk(f["timeout"].v)
      OBVIOUS
    <3>1. f["timeout"].v = DumpDuration(t.timeout[1]) /\ t["timeout"] # <<>>
      BY Values DEF Image, OptionKeys
    <3>2. t.timeout[1] \in Int
      BY <3>1 DEF WellFormed
    <3> QED
      BY <3>1, <3>2, DurationBack
  <2>2. Has(f, "jitter") => DurationOk(f["jitter"].v)
    <3> SUFFICES ASSUME Has(f, "jitter") PROVE DurationOk(f["jitter"].v)
      OBVIOUS
    <3>1. f["jitter"].v = DumpDuration(t.jitter) /\ t.jitter \in Int
      BY Values DEF Image, WellFormed
    <3> QED
      BY <3>1, DurationBack
  <2> QED
    BY <2>1, <2>2
<1>9. Has(f, "summary_cmd") => f["summary_cmd"].v # <<>>
  BY Values DEF Image, WellFormed, OptionKeys
<1>10. \A n \in DOMAIN Get(f, "notify", <<>>) : TransportOk(f["notify"].v[n])
  <2>1. CASE Has(f, "notify")
    <3>1. /\ f["notify"].v = [n \in DOMAIN t.notify |-> DumpTransport(t.notify[n])]
          /\ Get(f, "notify", <<>>) = f["notify"].v
      BY <2>1, Values DEF Image, Get
    <3> QED
      BY <3>1 DEF WellFormed
  <2>2. CASE ~ Has(f, "notify")
    <3>1. DOMAIN Get(f, "notify", <<>>) = {}
      BY <2>2 DEF Get
    <3> QED
      BY <3>1
  <2> QED
    BY <2>1, <2>2
<1> QED
  BY <1>1, <1>2, <1>3, <1>4, <1>5, <1>6, <1>7, <1>8, <1>9, <1>10 DEF Parses

\* dump_task can write the task and tomllib reads what it has written, exactly
\* if the task has no float in a schedule table and no DEL in a text.
LEMMA WritableBack ==
    ASSUME NEW t, NEW f, Task(f) = t
    PROVE  Dumps(t) /\ Readable(f) <=> ~ Unwritable(t)
<1>1. Dumps(t) <=> ~ \E s \in Range(t.schedule) : \E b \in DOMAIN s.raw :
                        s.raw[b].kind \in {"float", "floats"}
  BY DEF Dumps
<1>2. \A x : x \cap TomlForbids \subseteq JsonEscapes <=> "delete" \notin x
  BY DEF TomlForbids, JsonEscapes
<1>3. Readable(f) <=> \A x \in Texts(t) : "delete" \notin x
  BY <1>2 DEF Readable
<1> QED
  BY <1>1, <1>3 DEF Unwritable

\* The task of a source file that parse_task accepts.
LEMMA Parsed ==
    ASSUME NEW d, Sourced(d), Parses(d), Materializes(Task(d))
    PROVE  WellFormed(Materialize(Task(d)))
<1> DEFINE p == Task(d)
           t == Materialize(p)
<1>1. /\ p.name = d["name"].v /\ p.description = d["description"].v /\ p.command = d["command"].v
      /\ p.stdin = Opt(d, "stdin") /\ p.stdin_file = Opt(d, "stdin_file") /\ p.cwd = Opt(d, "cwd") /\ p.lock = Opt(d, "lock")
      /\ p.persistent = Opt(d, "persistent") /\ p.summary_cmd = Opt(d, "summary_cmd")
      /\ p.env = Get(d, "env", <<>>)
      /\ p.allow_full_access = Get(d, "allow_full_access", FALSE)
      /\ p.disabled = Get(d, "disabled", FALSE)
      /\ p.jitter = ParseDuration(Get(d, "jitter", <<>>))
      /\ p.timeout = IF Has(d, "timeout") THEN <<ParseDuration(d["timeout"].v)>> ELSE <<>>
      /\ p.schedule = IF Has(d, "schedule") THEN <<ParseSchedule(d["schedule"])>> ELSE <<>>
      /\ p.notify = [n \in DOMAIN Get(d, "notify", <<>>) |-> Transport(Get(d, "notify", <<>>)[n])]
  BY DEF Task
<1>2. /\ \A k \in {"name", "description", "command", "cwd", "lock", "persistent", "summary_cmd",
                   "env", "allow_full_access", "disabled", "jitter", "timeout", "schedule",
                   "notify"} : t[k] = p[k]
      /\ t.stdin = p.stdin \/ t.stdin = p.stdin_file
  BY DEF Materialize, Task
<1>3. t = Fields(t) /\ t.stdin_file = <<>>
  <2> HIDE DEF p, t
  <2>1. p = Fields(p)
    BY TaskFields DEF p
  <2>2. t = IF p.stdin_file = <<>> THEN p ELSE [p EXCEPT !.stdin = p.stdin_file, !.stdin_file = <<>>]
    BY DEF Materialize, t
  <2>3. CASE p.stdin_file # <<>>
    <3>1. t = [p EXCEPT !.stdin = p.stdin_file, !.stdin_file = <<>>]
      BY <2>2, <2>3
    <3> QED
      BY <2>1, <3>1, ReadFields, Zenon
  <2> QED
    BY <2>1, <2>2, <2>3
<1> HIDE DEF p, t
<1>4. NameOk(t.name) /\ t.command # <<>>
  BY <1>1, <1>2 DEF Parses, Get
<1>5. \A k \in OptionKeys : t[k] # <<>> => t[k] = <<t[k][1]>>
  <2>1. \A k \in {"stdin", "stdin_file", "cwd", "lock", "persistent", "summary_cmd"} :
           \E x : Opt(d, k) = <<>> \/ Opt(d, k) = <<x>>
    BY DEF Opt
  <2>2. \A k \in OptionKeys : \E x : t[k] = <<>> \/ t[k] = <<x>>
    BY <1>1, <1>2, <2>1 DEF OptionKeys
  <2> QED
    BY <2>2
<1>7. t.summary_cmd # <<>> => t.summary_cmd[1] # <<>>
  BY <1>1, <1>2 DEF Opt, Parses
<1>8. t.timeout # <<>> => t.timeout[1] \in Int
  <2> SUFFICES ASSUME t.timeout # <<>> PROVE t.timeout[1] \in Int
    OBVIOUS
  <2>1. Has(d, "timeout") /\ t.timeout[1] = ParseDuration(d["timeout"].v)
    BY <1>1, <1>2
  <2>2. DurationOk(d["timeout"].v) /\ \E U : d["timeout"].v \in Seq(Int \X U)
    BY <2>1 DEF Sourced, Parses
  <2> QED
    BY <2>1, <2>2, DurationType
<1>9. t.jitter \in Int
  <2>1. CASE Has(d, "jitter")
    <3>1. t.jitter = ParseDuration(d["jitter"].v)
      BY <1>1, <1>2, <2>1 DEF Get
    <3>2. DurationOk(d["jitter"].v) /\ \E U : d["jitter"].v \in Seq(Int \X U)
      BY <2>1 DEF Sourced, Parses
    <3> QED
      BY <3>1, <3>2, DurationType
  <2>2. CASE ~ Has(d, "jitter")
    BY <1>1, <1>2, <2>2, DurationBack DEF Get
  <2> QED
    BY <2>1, <2>2
<1>10. t.allow_full_access \in BOOLEAN /\ t.disabled \in BOOLEAN
  <2>1. \A k \in {"allow_full_access", "disabled"} : Get(d, k, FALSE) \in BOOLEAN
    BY DEF Get, Sourced
  <2> QED
    BY <1>1, <1>2, <2>1
<1>11. t.schedule # <<>> =>
          /\ ScheduleOk(DumpSchedule(t.schedule[1]))
          /\ ParseSchedule(DumpSchedule(t.schedule[1])) = t.schedule[1]
  <2> SUFFICES ASSUME t.schedule # <<>>
               PROVE  /\ ScheduleOk(DumpSchedule(t.schedule[1]))
                      /\ ParseSchedule(DumpSchedule(t.schedule[1])) = t.schedule[1]
    OBVIOUS
  <2>1. Has(d, "schedule") /\ t.schedule[1] = ParseSchedule(d["schedule"])
    BY <1>1, <1>2
  <2>2. ScheduleOk(d["schedule"])
    BY <2>1 DEF Parses
  <2>3. d["schedule"].type = "str" => \E W : d["schedule"].v \in Seq(W)
    BY <2>1 DEF Sourced
  <2> QED
    BY <2>1, <2>2, <2>3, ScheduleBack
<1>12. t.env = [x \in DOMAIN t.env |-> t.env[x]]
  <2>1. <<>> = [x \in DOMAIN <<>> |-> <<>>[x]]
    OBVIOUS
  <2> QED
    BY <1>1, <1>2, <2>1 DEF Get, Sourced
<1>13. t.notify = [n \in DOMAIN t.notify |-> t.notify[n]]
  BY <1>1, <1>2
<1>14. ASSUME NEW n \in DOMAIN t.notify
       PROVE  /\ TransportOk(DumpTransport(t.notify[n]))
              /\ Transport(DumpTransport(t.notify[n])) = t.notify[n]
  <2>1. n \in DOMAIN Get(d, "notify", <<>>) /\ t.notify[n] = Transport(Get(d, "notify", <<>>)[n])
    BY <1>1, <1>2
  <2>2. Has(d, "notify") /\ Get(d, "notify", <<>>) = d["notify"].v
    BY <2>1 DEF Get
  <2>3. TransportOk(d["notify"].v[n])
    BY <2>1 DEF Parses
  <2> QED
    BY <2>1, <2>2, <2>3, TransportBack
<1>15. WellFormed(t)
  BY <1>3, <1>4, <1>5, <1>7, <1>8, <1>9, <1>10, <1>11, <1>12, <1>13, <1>14 DEF WellFormed
<1> QED
  BY <1>15 DEF t, p

-----------------------------------------------------------------------------
(* The wrapper.                                                            *)

\* The environment of the processes is one that Popen takes, exactly if the
\* names and values that reach it are.
LEMMA EnvironmentOk ==
    ASSUME NEW t
    PROVE  (\A k \in DOMAIN BuildEnv(t) :
                k \cap {"nul", "equals"} = {} /\ "nul" \notin BuildEnv(t)[k])
           <=> /\ \A k \in DOMAIN t.env : "nul" \notin k /\ "equals" \notin k
               /\ \A k \in DOMAIN t.env \ OwnKeys : "nul" \notin t.env[k]
               /\ PathKey \notin DOMAIN t.env =>
                     \A x \in Range(t.path_prepend) : "nul" \notin x
<1> DEFINE e == BuildEnv(t)
           V(k) == k \cap {"nul", "equals"} = {} /\ "nul" \notin e[k]
<1>1. DOMAIN e = {PathKey} \cup DOMAIN t.env \cup OwnKeys
  BY DEF BuildEnv
<1>2. \A k \in OwnKeys : e[k] = {} /\ "nul" \notin k /\ "equals" \notin k
  BY DEF BuildEnv, OwnKeys
<1>3. PathKey \notin OwnKeys /\ "nul" \notin PathKey /\ "equals" \notin PathKey
  BY DEF PathKey, OwnKeys
<1>4. \A k \in DOMAIN t.env \ OwnKeys : e[k] = t.env[k]
  BY DEF BuildEnv
<1>5. PathKey \notin DOMAIN t.env => e[PathKey] = UNION Range(t.path_prepend)
  BY <1>3 DEF BuildEnv
<1> HIDE DEF e
<1>6. (\A k \in DOMAIN e : V(k)) <=>
         /\ \A k \in DOMAIN t.env : "nul" \notin k /\ "equals" \notin k
         /\ \A k \in DOMAIN t.env \ OwnKeys : "nul" \notin e[k]
         /\ PathKey \notin DOMAIN t.env => "nul" \notin e[PathKey]
  <2>1. ASSUME \A k \in DOMAIN e : V(k)
        PROVE  /\ \A k \in DOMAIN t.env : "nul" \notin k /\ "equals" \notin k
               /\ \A k \in DOMAIN t.env \ OwnKeys : "nul" \notin e[k]
               /\ PathKey \notin DOMAIN t.env => "nul" \notin e[PathKey]
    BY <1>1, <2>1
  <2>2. ASSUME \A k \in DOMAIN t.env : "nul" \notin k /\ "equals" \notin k,
               \A k \in DOMAIN t.env \ OwnKeys : "nul" \notin e[k],
               PathKey \notin DOMAIN t.env => "nul" \notin e[PathKey],
               NEW k \in DOMAIN e
        PROVE  V(k)
    <3>1. CASE k \in OwnKeys
      BY <1>2, <3>1
    <3>2. CASE k \in DOMAIN t.env \ OwnKeys
      BY <2>2, <3>2
    <3>3. CASE k = PathKey /\ k \notin DOMAIN t.env
      BY <1>3, <2>2, <3>3
    <3> QED
      BY <1>1, <3>1, <3>2, <3>3
  <2> QED
    BY <2>1, <2>2
<1>7. (\A k \in DOMAIN t.env \ OwnKeys : "nul" \notin e[k])
      <=> \A k \in DOMAIN t.env \ OwnKeys : "nul" \notin t.env[k]
  BY <1>4
<1>8. PathKey \notin DOMAIN t.env =>
         ("nul" \notin e[PathKey] <=> \A x \in Range(t.path_prepend) : "nul" \notin x)
  BY <1>5
<1> QED
  BY <1>6, <1>7, <1>8 DEF e

\* What the wrapper hands to the system is free of NUL and of "=" in names,
\* exactly if the texts that reach it are.
LEMMA SystemTakes ==
    ASSUME NEW t
    PROVE  (/\ \A f \in Range(t.env_files) \cup Range(t.cwd) : "nul" \notin f
            /\ Popen(t.command, BuildEnv(t))
            /\ \A c \in Range(t.summary_cmd) : Popen(c, BuildEnv(t)))
           <=> (\A x \in Passed(t) : "nul" \notin x) /\ ~ \E k \in DOMAIN t.env : "equals" \in k
<1> DEFINE Env == \A k \in DOMAIN BuildEnv(t) :
                     k \cap {"nul", "equals"} = {} /\ "nul" \notin BuildEnv(t)[k]
           Free(S) == \A x \in S : "nul" \notin x
           EnvValues == {t.env[k] : k \in DOMAIN t.env \ OwnKeys}
           Path == IF PathKey \in DOMAIN t.env THEN {} ELSE Range(t.path_prepend)
           Summary == UNION {Range(c) : c \in Range(t.summary_cmd)}
<1>1. \A a : Popen(a, BuildEnv(t)) <=> Free(Range(a)) /\ Env
  BY DEF Popen
<1>2. Env <=> /\ \A k \in DOMAIN t.env : "nul" \notin k /\ "equals" \notin k
              /\ \A k \in DOMAIN t.env \ OwnKeys : "nul" \notin t.env[k]
              /\ PathKey \notin DOMAIN t.env => Free(Range(t.path_prepend))
  BY EnvironmentOk
<1>3. Free(EnvValues) <=> \A k \in DOMAIN t.env \ OwnKeys : "nul" \notin t.env[k]
  OBVIOUS
<1>4. Free(Path) <=> (PathKey \notin DOMAIN t.env => Free(Range(t.path_prepend)))
  OBVIOUS
<1>5. Free(Summary) <=> \A c \in Range(t.summary_cmd) : Free(Range(c))
  OBVIOUS
<1> HIDE DEF Env
<1>6. \A x : x \in Passed(t) <=>
         \/ x \in Range(t.command) \/ x \in Range(t.env_files) \/ x \in Range(t.cwd)
         \/ x \in DOMAIN t.env \/ x \in Summary \/ x \in EnvValues \/ x \in Path
  BY DEF Passed
<1> HIDE DEF EnvValues, Path, Summary
<1> QED
  BY <1>1, <1>2, <1>3, <1>4, <1>5, <1>6

\* What lint has accepted the wrapper can run, exactly if it is free of the
\* flaws that lint does not look for.
LEMMA LintedRuns ==
    ASSUME NEW t, t.disabled \in BOOLEAN, NEW forbidden, NEW backend,
           LintOk(t, forbidden, backend)
    PROVE  Runs(t, backend) <=> ~ Unrunnable(t)
<1>1. /\ Expands(t) /\ \A l \in Range(t.lock) : LockNameOk(l)
      /\ \A s \in Range(t.schedule) : Expressible(s, backend)
      /\ \A r \in References(t) : r.prefix = "notify:" /\ r.name \in DOMAIN t.notify
  BY DEF LintOk, Defined
<1>2. (\A r \in References(t) : Resolves(t, r))
      <=> ~ \E r \in References(t) : r.name = NoName \/ Strip(r.name) # r.name
  <2>1. ASSUME NEW r \in References(t)
        PROVE  Resolves(t, r) <=> r.name # NoName /\ Strip(r.name) = r.name
    BY <1>1 DEF Resolves
  <2> QED
    BY <2>1
<1>3. Executes(t) <=>
         /\ (\A x \in Passed(t) : "nul" \notin x) /\ ~ \E k \in DOMAIN t.env : "equals" \in k
         /\ "empty" \notin t.command[1] /\ t.timeout # <<0>>
         /\ ~ \E r \in References(t) : r.name = NoName \/ Strip(r.name) # r.name
  BY <1>1, <1>2, SystemTakes DEF Executes
<1> QED
  BY <1>1, <1>3 DEF Runs, Unrunnable

-----------------------------------------------------------------------------
(* The result.                                                             *)

\* Of every source file that install accepts, load_installed reads the same
\* task from the installed file and the wrapper can run it, unless it has a
\* flaw that validation does not look for; if it has one, one of them fails.
THEOREM AcceptedRuns ==
    ASSUME NEW d, SourceFile(d), NEW forbidden, NEW backend
    PROVE  Faithful(d, forbidden, backend)
<1> DEFINE task == Materialize(Task(d))
           file == DumpTask(task)
<1> SUFFICES ASSUME Accepted(d, forbidden, backend)
             PROVE  /\ Dumps(task) /\ Loads(file, task.name)
                    /\ Task(file) = task /\ Runs(Task(file), backend)
                    <=> ~ Unwritable(task) /\ ~ Unrunnable(task)
  BY DEF Faithful
<1>1. Parses(d) /\ Materializes(Task(d)) /\ LintOk(task, forbidden, backend)
  BY DEF Accepted
<1>2. WellFormed(task) /\ Image(file, task)
  BY <1>1, TypesChecked, Parsed, Dumped
<1> HIDE DEF task, file
<1>3. Task(file) = task /\ Parses(file)
  BY <1>2, TaskBack, ParsesBack
<1>4. task.stdin_file = <<>> /\ task.disabled \in BOOLEAN
  BY <1>2 DEF WellFormed
<1>5. Dumps(task) /\ Readable(file) <=> ~ Unwritable(task)
  BY <1>3, WritableBack
<1>6. Runs(task, backend) <=> ~ Unrunnable(task)
  BY <1>1, <1>4, LintedRuns
<1>7. Loads(file, task.name) <=> Readable(file)
  BY <1>3, <1>4 DEF Loads
<1> QED
  BY <1>3, <1>5, <1>6, <1>7

\* Tuples are sequences, of whatever they hold.
LEMMA Tuples ==
    /\ \E W : <<>> \in Seq(W)
    /\ \A a : \E W : <<a>> \in Seq(W)
    /\ \A a, b : \E W : <<a, b>> \in Seq(W)
    /\ \A a, b, c : \E W : <<a, b, c>> \in Seq(W)
<1>1. <<>> \in Seq({})
  OBVIOUS
<1>2. ASSUME NEW a PROVE <<a>> \in Seq({a})
  OBVIOUS
<1>3. ASSUME NEW a, NEW b PROVE <<a, b>> \in Seq({a, b})
  OBVIOUS
<1>4. ASSUME NEW a, NEW b, NEW c PROVE <<a, b, c>> \in Seq({a, b, c})
  OBVIOUS
<1>5. \A a : \E W : <<a>> \in Seq(W)
  BY <1>2
<1>6. \A a, b : \E W : <<a, b>> \in Seq(W)
  BY <1>3
<1>7. \A a, b, c : \E W : <<a, b, c>> \in Seq(W)
  BY <1>4
<1> QED
  BY <1>1, <1>5, <1>6, <1>7

\* The samples of the run are values.
LEMMA SamplesAreValues ==
    ASSUME NEW k \in TASK_KEYS \cup {"owner"}, NEW x \in Samples(k), x.type # "missing"
    PROVE  Value(k, x)
<1>3. CASE k \in {"timeout", "jitter"}
  <2>1. Samples("timeout") = Durations /\ Samples("jitter") = Durations
    BY DEF Samples
  <2>2. x \in Durations
    BY <1>3, <2>1
  <2> DEFINE P == Int \X {"s", "m", "h", "w"}
  <2>3. /\ <<0, "s">> \in P /\ <<90, "m">> \in P /\ <<1, "h">> \in P /\ <<30, "m">> \in P
        /\ <<3, "w">> \in P
    OBVIOUS
  <2>4. x.type = "str" => x.v \in {<<>>, << <<0, "s">> >>, << <<90, "m">> >>,
                                 << <<1, "h">>, <<30, "m">> >>, << <<3, "w">> >>}
    BY <2>2, Values DEF Durations
  <2> HIDE DEF P
  <2>5. \A p, q \in P : <<>> \in Seq(P) /\ <<p>> \in Seq(P) /\ <<p, q>> \in Seq(P)
    OBVIOUS
  <2>6. \A y \in {<<>>, << <<0, "s">> >>, << <<90, "m">> >>, << <<1, "h">>, <<30, "m">> >>,
                << <<3, "w">> >>} : y \in Seq(P)
    BY <2>3, <2>5
  <2>7. x.type = "str" => \E U : x.v \in Seq(Int \X U)
    BY <2>4, <2>6 DEF P
  <2> QED
    BY <1>3, <2>7 DEF Value
<1>4. CASE k \in {"allow_full_access", "disabled"}
  <2>0. /\ Samples("allow_full_access") = {Bool(TRUE), Bool(FALSE), Str("yes")}
        /\ Samples("disabled") = {Bool(TRUE), Bool(FALSE), Str("yes")}
    BY DEF Samples
  <2>1. x \in {Bool(TRUE), Bool(FALSE), Str("yes")}
    BY <1>4, <2>0
  <2>2. Bool(TRUE).v \in BOOLEAN /\ Bool(FALSE).v \in BOOLEAN /\ Str("yes").type # "bool"
    BY DEF Bool, Str
  <2> QED
    BY <1>4, <2>1, <2>2 DEF Value
<1>5. CASE k = "env"
  <2>1. (\E y \in Variables : x = Table(y)) \/ x = Table(<<>>) \/ x = List(<<>>)
    BY <1>5 DEF Samples
  <2>2. <<>> = [n \in DOMAIN <<>> |-> <<>>[n]]
    OBVIOUS
  <2>3. \A y \in Variables : y = [n \in DOMAIN y |-> y[n]]
    BY DEF Variables
  <2>4. x.type = "table" => x.v = [n \in DOMAIN x.v |-> x.v[n]]
    BY <2>1, <2>2, <2>3, Values
  <2> QED
    BY <1>5, <2>4 DEF Value
<1>7. CASE k = "schedule"
  <2>1. CASE \E w \in ScheduleTexts : x = Str(w)
    <3>1. PICK w \in ScheduleTexts : x = Str(w)
      BY <2>1
    <3>2. \/ w \in {<<>>, <<"daily", <<3, 0>>>>, <<"daily", <<24, 0>>>>, <<"daily">>, <<"hourly">>}
          \/ \E day \in DOMAIN WEEKDAY_NAMES \cup {"someday"} : w = <<"weekly", day, <<3, 0>>>>
          \/ \E day \in {0, 1, 31, 32} : w = <<"monthly", day, <<3, 0>>>>
          \/ \E part \in {0, 15} \X {"m", "h", "s"} : w = <<"every", part>>
      BY DEF ScheduleTexts
    <3>3. \/ w = <<>> \/ (\E a : w = <<a>>) \/ (\E a, b : w = <<a, b>>)
          \/ \E a, b, c : w = <<a, b, c>>
      <4>1. ASSUME NEW a, NEW b, w = <<a, b>> PROVE \E p, q : w = <<p, q>>
        BY <4>1
      <4>2. ASSUME NEW a, NEW b, NEW c, w = <<a, b, c>> PROVE \E p, q, r : w = <<p, q, r>>
        BY <4>2
      <4>3. CASE w \in {<<>>, <<"daily", <<3, 0>>>>, <<"daily", <<24, 0>>>>, <<"daily">>,
                        <<"hourly">>}
        <5>1. CASE w = <<"daily", <<3, 0>>>>
          BY <4>1, <5>1, Zenon
        <5>2. CASE w = <<"daily", <<24, 0>>>>
          BY <4>1, <5>2, Zenon
        <5>3. CASE w \in {<<>>, <<"daily">>, <<"hourly">>}
          BY <5>3, Zenon
        <5> QED
          BY <4>3, <5>1, <5>2, <5>3, Zenon
      <4>4. CASE \E day \in DOMAIN WEEKDAY_NAMES \cup {"someday"} : w = <<"weekly", day, <<3, 0>>>>
        <5>1. PICK day : w = <<"weekly", day, <<3, 0>>>>
          BY <4>4, Zenon
        <5> QED
          BY <4>2, <5>1, Zenon
      <4>5. CASE \E day \in {0, 1, 31, 32} : w = <<"monthly", day, <<3, 0>>>>
        <5>1. PICK day : w = <<"monthly", day, <<3, 0>>>>
          BY <4>5, Zenon
        <5> QED
          BY <4>2, <5>1, Zenon
      <4>6. CASE \E part \in {0, 15} \X {"m", "h", "s"} : w = <<"every", part>>
        BY <4>1, <4>6, Zenon
      <4> QED
        BY <3>2, <4>3, <4>4, <4>5, <4>6, Zenon
    <3>4. \E W : w \in Seq(W)
      <4>1. CASE w = <<>>
        BY <4>1, Tuples
      <4>2. CASE \E a : w = <<a>>
        <5>1. PICK a : w = <<a>>
          BY <4>2
        <5> QED
          BY <5>1, Tuples
      <4>3. CASE \E a, b : w = <<a, b>>
        <5>1. PICK a, b : w = <<a, b>>
          BY <4>3
        <5> QED
          BY <5>1, Tuples
      <4>4. CASE \E a, b, c : w = <<a, b, c>>
        <5>1. PICK a, b, c : w = <<a, b, c>>
          BY <4>4
        <5> QED
          BY <5>1, Tuples
      <4> QED
        BY <3>3, <4>1, <4>2, <4>3, <4>4
    <3> QED
      BY <1>7, <3>1, <3>4, Values DEF Value
  <2>2. CASE x = Num(1)
    BY <1>7, <2>2, Values DEF Value
  <2>3. CASE \E r \in RawSchedules : x = Table(r)
    BY <1>7, <2>3, Values DEF Value
  <2> QED
    BY <1>7, <2>1, <2>2, <2>3 DEF Samples
<1>8. CASE k \notin {"timeout", "jitter", "allow_full_access", "disabled", "env", "schedule"}
  BY <1>8 DEF Value
<1> QED
  BY <1>3, <1>4, <1>5, <1>7, <1>8

\* Changing a key keeps a source file one.
LEMMA ChangedIsSource ==
    ASSUME NEW d, SourceFile(d), NEW k \in TASK_KEYS \cup {"owner"}, NEW x \in Samples(k)
    PROVE  SourceFile(Changed(d, k, x))
<1>1. CASE x.type = "missing"
  BY <1>1 DEF Changed, SourceFile
<1>2. CASE x.type # "missing"
  <2>1. Value(k, x)
    BY <1>2, SamplesAreValues
  <2> QED
    BY <1>2, <2>1 DEF Changed, SourceFile
<1> QED
  BY <1>1, <1>2

\* What install accepts is faithful, but for the named flaws.
THEOREM AcceptedAlways == Spec => []AcceptedIsFaithful
<1>1. SourceFile(Minimal)
  BY DEF Minimal, SourceFile, Value
<1>2. ASSUME SourceInputs(input) PROVE Faithful(input.source, input.forbidden, input.backend)
  <2>1. PICK k \in TASK_KEYS \cup {"owner"}, l \in TASK_KEYS \cup {"owner"} :
          \E x \in Samples(k), y \in Samples(l) : \E forbidden \in BOOLEAN, backend \in Backends :
             input = [source |-> Changed(Changed(Minimal, k, x), l, y),
                      forbidden |-> forbidden, backend |-> backend]
    BY <1>2 DEF SourceInputs
  <2>2. PICK x \in Samples(k), y \in Samples(l) :
             input.source = Changed(Changed(Minimal, k, x), l, y)
    BY <2>1
  <2>3. SourceFile(Changed(Minimal, k, x))
    BY <1>1, ChangedIsSource
  <2>4. SourceFile(input.source)
    BY <2>2, <2>3, ChangedIsSource
  <2> QED
    BY <2>4, AcceptedRuns
<1>3. Init => AcceptedIsFaithful
  BY <1>2 DEF Init, AcceptedIsFaithful
<1>4. AcceptedIsFaithful /\ [Next]_vars => AcceptedIsFaithful'
  BY DEF AcceptedIsFaithful, Next, vars
<1> QED
  BY <1>3, <1>4, PTL DEF Spec
=============================================================================
