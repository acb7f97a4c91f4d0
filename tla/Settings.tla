------------------------------ MODULE Settings ------------------------------
(***************************************************************************)
(* How the server program decides with which settings it runs: the scans   *)
(* of the command line and the life of the process (main.c) and the        *)
(* strict configuration file with its transactional load (config.c).  A    *)
(* file is the sequence of its lines, drawn as they are read; a text is a  *)
(* string, and the CONSTANTS say which texts are numerals, addresses and   *)
(* so on.                                                                  *)
(***************************************************************************)
EXTENDS Integers, Sequences, SequencesExt

CONSTANTS Tokens,       \* what a command line is made of
          Lines,        \* the lines a file is made of
          Numeral,      \* the number each text that is a decimal numeral means
          Addresses,    \* dotted decimal IPv4 addresses
          Names,        \* names of environment variables
          Long,         \* texts that do not fit where they are copied
          Split,        \* the trimmed parts of a comma-separated text
          Origins,      \* http, https or tauri origins without blanks
          OriginLimit,  \* NYA_CONFIG_ORIGIN_LIMIT
          MaxInput      \* tokens and lines together (bound)

VARIABLES
  pc, args, index,    \* where main is, its arguments, the next one
  explicit, verbose,  \* config_explicit, verbose
  file, result,       \* the lines read, and what nya_config_load returned
  section, seen,      \* in_server and server_seen, seen_keys
  staged, config,     \* the load's own copy, the configuration
  live, exit_code     \* what has been initialized, the exit status

load == <<file, result, section, seen, staged>>
vars == <<pc, args, index, explicit, verbose, file, result, section, seen,
          staged, config, live, exit_code>>

Defaults == [bind |-> "127.0.0.1", port |-> 0, allow_remote |-> FALSE,
             auth_token_env |-> "", request_timeout_ms |-> 5000,
             max_request_bytes |-> 1048576, max_output_bytes |-> 67108864,
             max_generation_tokens |-> 256, backlog |-> 64, worker_threads |-> 4,
             queue_capacity |-> 128, allowed_origins |-> <<>>]

\* The largest value the parser lets a numeric key have.
Largest == [port |-> 65535, request_timeout_ms |-> 300000,
            max_request_bytes |-> 16777216, max_output_bytes |-> 1073741824,
            max_generation_tokens |-> 4096, backlog |-> 512, worker_threads |-> 64,
            queue_capacity |-> 4096]

Init == /\ pc = "scan" /\ index = 1
        /\ args \in UNION {[1 .. n -> Tokens] : n \in 0 .. MaxInput}
        /\ explicit = FALSE /\ verbose = FALSE
        /\ file = <<>> /\ result = "none"
        /\ section = FALSE /\ seen = {}
        /\ staged = Defaults /\ config = Defaults
        /\ live = {} /\ exit_code = 1

Exit(code) == pc' = "exited" /\ exit_code' = code

-----------------------------------------------------------------------------
(* The first scan: --help and --config.                                    *)

ScanHelp == /\ pc = "scan" /\ index <= Len(args)
            /\ args[index] = "--help"
            /\ Exit(0)
            /\ UNCHANGED <<args, index, explicit, verbose, load, config, live>>

ScanPath == /\ pc = "scan" /\ index <= Len(args)
            /\ args[index] = "--config"
            /\ IF index < Len(args) /\ args[index + 1] \notin Long
               THEN index' = index + 2 /\ explicit' = TRUE /\ UNCHANGED <<pc, exit_code>>
               ELSE Exit(2) /\ UNCHANGED <<index, explicit>>
            /\ UNCHANGED <<args, verbose, load, config, live>>

ScanOther == /\ pc = "scan" /\ index <= Len(args)
             /\ args[index] \notin {"--help", "--config"}
             /\ index' = index + 1
             /\ UNCHANGED <<pc, args, explicit, verbose, load, config, live, exit_code>>

-----------------------------------------------------------------------------
(* nya_config_load.                                                        *)

Failed == [form |-> "failed"]

\* The file is opened and the configuration copied.
OpenFile == /\ pc = "scan" /\ index > Len(args)
            /\ pc' = "lines" /\ index' = 1
            /\ staged' = config
            /\ UNCHANGED <<args, explicit, verbose, file, result, section, seen,
                           config, live, exit_code>>

\* No such file: an error only when the file was asked for.
NotFound == /\ pc = "scan" /\ index > Len(args)
            /\ result' = "NOT_FOUND" /\ index' = 1
            /\ IF explicit THEN Exit(2) ELSE pc' = "options" /\ UNCHANGED exit_code
            /\ UNCHANGED <<args, explicit, verbose, file, section, seen, staged,
                           config, live>>

\* The file cannot be opened, or a read fails.
CannotRead == /\ \/ pc = "scan" /\ index > Len(args)
                 \/ pc = "lines"
              /\ file' = Append(file, Failed) /\ result' = "ERROR"
              /\ Exit(2)
              /\ UNCHANGED <<args, index, explicit, verbose, section, seen, staged,
                             config, live>>

\* nya_config_boolean, nya_config_unsigned, nya_config_origins, nya_config_copy.
Accepts(key, value) ==
  CASE key \in DOMAIN Largest -> value \in DOMAIN Numeral /\ Numeral[value] <= Largest[key]
    [] key = "allow_remote" -> value \in {"true", "false"}
    [] key = "allowed_origins" -> /\ Len(Split[value]) <= OriginLimit
                                  /\ \A i \in DOMAIN Split[value] : Split[value][i] \notin Long \union {""}
    [] key \in {"bind", "auth_token_env"} -> value \notin Long
    [] OTHER -> FALSE

Meaning(key, value) == CASE key \in DOMAIN Largest -> Numeral[value]
                         [] key = "allow_remote" -> value = "true"
                         [] key = "allowed_origins" -> Split[value]
                         [] OTHER -> value

\* Nothing left after the comment and the blanks.
Skips(line) == line.form = "blank"

\* The only line without indentation, once.
Opens(line) == line.form = "server" /\ ~section

\* Mutant: a key may be set again.
SetsAgain(line) == /\ line.form = "setting"
                   /\ section /\ line.indent = 2
                   /\ Accepts(line.key, line.value)

\* key: value, two blanks in, each key once.
Sets(line) == /\ line.form = "setting"
              /\ section /\ line.indent = 2
              /\ line.key \notin seen
              /\ Accepts(line.key, line.value)

\* A line is read: it is skipped, opens the section, sets a key of the copy,
\* or ends the load.
ReadLine(line) ==
  /\ pc = "lines"
  /\ Len(args) + Len(file) < MaxInput
  /\ file' = Append(file, line)
  /\ \/ Skips(line) /\ UNCHANGED <<pc, result, section, seen, staged, exit_code>>
     \/ /\ Opens(line)
        /\ section' = TRUE
        /\ UNCHANGED <<pc, result, seen, staged, exit_code>>
     \/ /\ Sets(line)
        /\ seen' = seen \union {line.key}
        /\ staged' = [staged EXCEPT ![line.key] = Meaning(line.key, line.value)]
        /\ UNCHANGED <<pc, result, section, exit_code>>
     \/ /\ ~(Skips(line) \/ Opens(line) \/ Sets(line))
        /\ result' = "ERROR" /\ Exit(2)
        /\ UNCHANGED <<section, seen, staged>>
  /\ UNCHANGED <<args, index, explicit, verbose, config, live>>

\* The end of the file commits the copy.
EndOfFile == /\ pc = "lines"
             /\ config' = staged /\ result' = "OK"
             /\ pc' = "options"
             /\ UNCHANGED <<args, index, explicit, verbose, file, section, seen,
                            staged, live, exit_code>>

-----------------------------------------------------------------------------
(* The second scan: options override the file.                             *)

NextArg(token) == /\ pc = "options" /\ index <= Len(args)
                  /\ args[index] = token

Value == args[index + 1]

\* The value after an option replaces the setting; a bad one ends the program.
Override(key, ok, meaning) ==
  /\ IF index < Len(args) /\ ok
     THEN /\ config' = [config EXCEPT ![key] = meaning]
          /\ index' = index + 2
          /\ UNCHANGED <<pc, exit_code>>
     ELSE Exit(2) /\ UNCHANGED <<config, index>>
  /\ UNCHANGED <<args, explicit, verbose, load, live>>

OptionBind == NextArg("--bind") /\ Override("bind", Value \notin Long, Value)

OptionPort == NextArg("--port") /\ Override("port", Accepts("port", Value), Meaning("port", Value))

OptionRemote == /\ NextArg("--allow-remote")
                /\ config' = [config EXCEPT !.allow_remote = TRUE]
                /\ index' = index + 1
                /\ UNCHANGED <<pc, args, explicit, verbose, load, live, exit_code>>

OptionVerbose == /\ NextArg("--verbose")
                 /\ verbose' = TRUE /\ index' = index + 1
                 /\ UNCHANGED <<pc, args, explicit, load, config, live, exit_code>>

\* Its path was taken in the first scan.
OptionConfig == /\ NextArg("--config")
                /\ index' = index + 2
                /\ UNCHANGED <<pc, args, explicit, verbose, load, config, live, exit_code>>

OptionUnknown(token) == /\ NextArg(token)
                        /\ token \notin {"--bind", "--port", "--allow-remote", "--verbose", "--config"}
                        /\ Exit(2)
                        /\ UNCHANGED <<args, index, explicit, verbose, load, config, live>>

-----------------------------------------------------------------------------
(* nya_config_validate, and the rest of main.                              *)

\* The lower limits, which are stricter than the parser's.
LargeEnough(c) == /\ c.request_timeout_ms >= 100
                  /\ c.max_request_bytes >= 4096 /\ c.max_output_bytes >= 4096
                  /\ c.max_generation_tokens > 0 /\ c.backlog > 0 /\ c.worker_threads > 0

\* What the parser cannot know, because it depends on other settings or is
\* stricter than its limits.
Valid(c) == /\ c.bind \in Addresses
            /\ c.bind = "127.0.0.1" \/ c.allow_remote
            /\ c.auth_token_env \in Names \union {""}
            /\ LargeEnough(c)
            /\ c.queue_capacity >= c.worker_threads
            /\ ToSet(c.allowed_origins) \subseteq Origins

Validate == /\ pc = "options" /\ index > Len(args)
            /\ IF Valid(config) THEN pc' = "runtime" /\ UNCHANGED exit_code ELSE Exit(2)
            /\ UNCHANGED <<args, index, explicit, verbose, load, config, live>>

Reach(parts, next) == /\ live' = live \union parts /\ pc' = next
                      /\ UNCHANGED <<args, index, explicit, verbose, load, config, exit_code>>

\* The registry of models is set up with the runtime and cannot fail.
InitRuntime  == pc = "runtime" /\ Reach({"runtime", "models"}, "token")
ChooseToken  == pc = "token" /\ Reach({"token"}, "server")
InitServer   == pc = "server" /\ Reach({"server"}, "run")

\* The runtime, the token of the environment or of the system, or the bind.
InitFails == /\ pc \in {"runtime", "token", "server"}
             /\ pc' = "cleanup"
             /\ UNCHANGED <<args, index, explicit, verbose, load, config, live, exit_code>>

RunServer(ok) == /\ pc = "run"
                 /\ pc' = "cleanup" /\ exit_code' = IF ok THEN 0 ELSE 1
                 /\ UNCHANGED <<args, index, explicit, verbose, load, config, live>>

\* The shared cleanup takes what there is apart in this order.
Release(part, next) == /\ live' = live \ {part} /\ pc' = next
                       /\ UNCHANGED <<args, index, explicit, verbose, load, config, exit_code>>

ShutServer  == pc = "cleanup" /\ Release("server", "registry")
ShutModels  == pc = "registry" /\ Release("models", "stop")
ShutRuntime == pc = "stop" /\ Release("runtime", "erase")
EraseToken  == pc = "erase" /\ Release("token", "exited")

Exited == pc = "exited" /\ UNCHANGED vars

Next == \/ ScanHelp \/ ScanPath \/ ScanOther
        \/ OpenFile \/ NotFound \/ CannotRead
        \/ \E line \in Lines : ReadLine(line)
        \/ EndOfFile
        \/ OptionBind \/ OptionPort \/ OptionRemote \/ OptionVerbose \/ OptionConfig
        \/ \E token \in Tokens : OptionUnknown(token)
        \/ Validate
        \/ InitRuntime \/ ChooseToken \/ InitServer \/ InitFails
        \/ \E ok \in BOOLEAN : RunServer(ok)
        \/ ShutServer \/ ShutModels \/ ShutRuntime \/ EraseToken
        \/ Exited

Spec == Init /\ [][Next]_vars

-----------------------------------------------------------------------------
(* Properties                                                              *)

LinesOf(form) == {i \in DOMAIN file : file[i].form = form}

\* What a configuration file may look like, as documented.
WellFormed ==
  /\ LinesOf("failed") = {} /\ LinesOf("broken") = {}
  /\ \A i, j \in LinesOf("server") : i = j
  /\ \A i \in LinesOf("setting") :
       /\ \E j \in LinesOf("server") : j < i
       /\ file[i].indent = 2 /\ Accepts(file[i].key, file[i].value)
       /\ \A j \in LinesOf("setting") : i # j => file[i].key # file[j].key

\* The arguments that are options, not the values of options.
Takes == {"--bind", "--port", "--config"}
IsOption[i \in 1 .. Len(args)] == i = 1 \/ ~(IsOption[i - 1] /\ args[i - 1] \in Takes)
Given(token) == {i \in 1 .. Len(args) : IsOption[i] /\ args[i] = token}
LastOf(S) == CHOOSE i \in S : \A j \in S : j <= i

\* The last option, else the file's setting, else the default.
FromFile(key) == LET at == {i \in LinesOf("setting") : file[i].key = key}
                 IN  IF at = {} THEN Defaults[key]
                     ELSE LET i == CHOOSE i \in at : TRUE IN Meaning(key, file[i].value)

Wanted(key) ==
  CASE key = "bind" /\ Given("--bind") # {} -> args[LastOf(Given("--bind")) + 1]
    [] key = "port" /\ Given("--port") # {} -> Numeral[args[LastOf(Given("--port")) + 1]]
    [] key = "allow_remote" /\ Given("--allow-remote") # {} -> TRUE
    [] OTHER -> FromFile(key)

(* A load is all or nothing: it succeeds exactly for a well-formed file,   *)
(* wherever the flaw is, and until it succeeds the caller's configuration  *)
(* is what it was.  A server that runs has for every setting the last      *)
(* option of its command line, else the file's value, else the default,    *)
(* and these fit together.  Wherever the start fails, what the server and  *)
(* the models use outlives them, and an exit leaves nothing initialized.   *)
StartsAsConfigured ==
  /\ result \in {"OK", "ERROR"} => (result = "OK" <=> WellFormed)
  /\ result # "OK" /\ pc \in {"scan", "lines"} => config = Defaults
  /\ result = "ERROR" => config = Defaults
  /\ pc = "run" => /\ \A key \in DOMAIN config : config[key] = Wanted(key)
                   /\ config.bind = "127.0.0.1" \/ config.allow_remote
                   /\ config.queue_capacity >= config.worker_threads
  /\ "server" \in live => {"models", "runtime", "token"} \subseteq live
  /\ "models" \in live => "runtime" \in live
  /\ pc = "exited" => live = {}
=============================================================================
