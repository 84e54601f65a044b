------------------------------ MODULE TaskConfig ------------------------------
(***************************************************************************)
(* The task definitions (internal/tasks/tasks.go): how the main tasks file *)
(* and the files it includes are put together (Load), what a task's        *)
(* settings are (Resolve), and what a payload must be and which            *)
(* environment variables it becomes (Validate, GetEnvValue,                *)
(* ValidatePayload).  Everything here is an operator; nothing is stored.   *)
(*                                                                         *)
(* A text is abstract (equality is all that counts), except that a default *)
(* may read as a number or a truth value: texts and JSON values are        *)
(* records [kind, text, num].  Numbers are counted in halves, so that      *)
(* fractions exist: num |-> 5 is 2.5.                                      *)
(***************************************************************************)
EXTENDS Integers, Sequences, FiniteSets, SequencesExt

CONSTANTS
  IntMin, IntMax,  \* the smallest int64 and the largest float64 that is one
  BadDuration      \* a text that time.ParseDuration refuses

ASSUME IntAssumption ==
  IntMin \in Int /\ IntMax \in Int /\ IntMin < 0 /\ IntMax > 0

Text(t)    == [kind |-> "string", text |-> t, num |-> 0]
Number(h)  == [kind |-> "number", text |-> <<>>, num |-> h]
NoText     == Text(<<>>)
Null       == [kind |-> "null", text |-> <<>>, num |-> 0]

-----------------------------------------------------------------------------
\* Resolve.  A conf is [defaults, tasks]; "" is a setting that is not made,
\* and NoRetry a max_retry that is not there (nil), unlike one of 0.

NoRetry == -1

NoDefaults == [timeout |-> "", maxRetry |-> 0, retryDelay |-> "", queue |-> ""]

Setting(own, default, builtin) ==
  IF own # "" THEN own ELSE IF default # "" THEN default ELSE builtin

Timeout(conf, name) ==
  Setting(conf.tasks[name].timeout, conf.defaults.timeout, "5m")
RetryDelay(conf, name) ==
  Setting(conf.tasks[name].retryDelay, conf.defaults.retryDelay, "30s")
Queue(conf, name) ==
  Setting(conf.tasks[name].queue, conf.defaults.queue, "default")
MaxRetry(conf, name) ==
  IF conf.tasks[name].maxRetry # NoRetry THEN conf.tasks[name].maxRetry
                                         ELSE conf.defaults.maxRetry

\* Load does not look at the durations: a task may be loaded and yet have no
\* resolved form.
Resolves(conf, name) ==
  /\ name \in DOMAIN conf.tasks
  /\ Timeout(conf, name) # BadDuration
  /\ RetryDelay(conf, name) # BadDuration

-----------------------------------------------------------------------------
\* Load.  A directory is [main, files]; a file is [ok, include, defaults,
\* tasks] as the YAML parser leaves it, ok meaning that it can be read and
\* parsed.  An include pattern is [local, matches]: relative, well-formed and
\* not leading out of the directory, and the files that Glob finds, in order.

\* validateInputs: values_url excludes enum; values_cache needs values_url and
\* must be a duration.
ValidInputs(defs) ==
  \A name \in DOMAIN defs : \A i \in DOMAIN defs[name].input :
    LET x == defs[name].input[i]
    IN /\ ~(x.url /\ x.enum # {})
       /\ x.cache # "" => x.url /\ x.cache # BadDuration

\* Of what is there twice the last one counts.
Over(last, first) ==
  [n \in DOMAIN last \cup DOMAIN first |->
     IF n \in DOMAIN last THEN last[n] ELSE first[n]]

\* Mutation: a file that two patterns match is loaded twice.
IncludeAgain(dir, acc, f) ==
  LET file == dir.files[f]
  IN [acc EXCEPT !.tasks = Over(file.tasks, @),
                 !.ok = @ /\ file.ok /\ file.include = <<>>
                          /\ file.defaults = NoDefaults /\ ValidInputs(file.tasks)
                          /\ DOMAIN file.tasks \cap DOMAIN acc.tasks = {}]

\* One turn of Load's inner loop: a file is loaded once; it must not include
\* or set defaults, nor define a task that is there already.
Include(dir, acc, f) ==
  LET file == dir.files[f]
  IN IF f \in acc.loaded THEN acc
     ELSE [acc EXCEPT !.loaded = @ \cup {f},
                      !.tasks = Over(file.tasks, @),
                      !.ok = /\ @ /\ file.ok
                             /\ file.include = <<>>
                             /\ file.defaults = NoDefaults
                             /\ ValidInputs(file.tasks)
                             /\ DOMAIN file.tasks \cap DOMAIN acc.tasks = {}]

NoConf == [defaults |-> NoDefaults, tasks |-> <<>>]

Main(dir) == dir.files[dir.main]

\* The files that the patterns find, in the order of the patterns.
Matches(dir) ==
  FlattenSeq([p \in DOMAIN Main(dir).include |-> Main(dir).include[p].matches])

MainAlone(dir) ==
  [ok |-> /\ Main(dir).ok /\ ValidInputs(Main(dir).tasks)
          /\ \A p \in DOMAIN Main(dir).include : Main(dir).include[p].local,
   loaded |-> {}, tasks |-> Main(dir).tasks]

\* Load: [ok, conf]; not ok is an error, whatever its kind.
Load(dir) ==
  LET found == Matches(dir)
      turn[n \in 0 .. Len(found)] ==
        IF n = 0 THEN MainAlone(dir) ELSE Include(dir, turn[n - 1], found[n])
      last  == turn[Len(found)]
  IN [ok |-> last.ok, conf |-> [defaults |-> Main(dir).defaults, tasks |-> last.tasks]]

-----------------------------------------------------------------------------
\* Input.Validate and GetEnvValue, for a JSON value v of input i.

CheckedTypes == {"", "string", "int", "float", "bool"}

NoBound == [set |-> FALSE, num |-> 0]
Bound(h) == [set |-> TRUE, num |-> h]

\* Mutation: the upper bound is not looked at.
OnlyFromBelow(i, h) == i.min.set => h >= i.min.num

WithinBounds(i, h) ==
  /\ i.min.set => h >= i.min.num
  /\ i.max.set => h <= i.max.num

\* i.pattern is the set of texts that match, i.enum {} when there is none.
Valid(i, v) ==
  \/ v.kind = "null" /\ (i.required => i.default # NoText)
  \/ /\ v.kind = "string" /\ i.type \in {"", "string"}
     /\ v.text \in i.pattern
     /\ i.enum # {} => v.text \in i.enum
  \/ v.kind = "number" /\ i.type \in {"int", "float"} /\ WithinBounds(i, v.num)
  \/ v.kind = "bool" /\ i.type = "bool"
  \/ v.kind # "null" /\ i.type \notin CheckedTypes

\* int64(v): towards zero; a v that no int64 is near becomes what the
\* processor makes of it.
Int64(h) ==
  LET n == IF h >= 0 THEN h \div 2 ELSE -((-h) \div 2)
  IN IF n \in IntMin .. IntMax THEN {n} ELSE {IntMin, IntMax}

EnvValues(i, v) ==
  IF v.kind = "null" THEN {i.default}
  ELSE IF v.kind = "number" /\ i.type = "int" THEN {Number(2 * n) : n \in Int64(v.num)}
  ELSE {v}

-----------------------------------------------------------------------------
\* ValidatePayload.  A payload is a function from the submitted fields' names.

Field(payload, n) == IF n \in DOMAIN payload THEN payload[n] ELSE Null

Declared(inputs) == {inputs[k].name : k \in DOMAIN inputs}
EnvNames(inputs) == {inputs[k].env : k \in DOMAIN inputs} \ {""}

\* The input whose value a variable has: the last one that names it.
Supplier(inputs, e) ==
  inputs[Max({k \in DOMAIN inputs : inputs[k].env = e})]

Accepts(inputs, payload) ==
  /\ DOMAIN payload \subseteq Declared(inputs)
  /\ \A k \in DOMAIN inputs : Valid(inputs[k], Field(payload, inputs[k].name))

\* The environments that an accepted payload may become.
Envs(inputs, payload) ==
  LET values == [e \in EnvNames(inputs) |->
                   LET i == Supplier(inputs, e)
                   IN EnvValues(i, Field(payload, i.name))]
  IN {env \in [EnvNames(inputs) -> UNION {values[e] : e \in EnvNames(inputs)}] :
        \A e \in EnvNames(inputs) : env[e] \in values[e]}
===============================================================================
