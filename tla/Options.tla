------------------------------ MODULE Options ------------------------------
(***************************************************************************)
(* opt::Option: which options of a command an argument list sets, and when  *)
(* parsing throws.                                                         *)
(*                                                                         *)
(* An argument is a record: a "word", "--name=value" ("assign"), "--name"   *)
(* ("long"), "-n..." ("short": the letter, what follows it, and the letters *)
(* it is made of), or a short one with a "=" ("short_assign").  The loop    *)
(* skips the word it takes as a value; a word is ignored anyway, so every   *)
(* argument can be looked at on its own, and the last one that sets an      *)
(* option wins.                                                            *)
(***************************************************************************)
EXTENDS Naturals, Sequences, FiniteSetsExt

Empty == ""

\* option_types is m_opt_map: the options of a command with their types.
get_type(option_types, name) ==
    IF name \in DOMAIN option_types THEN option_types[name] ELSE "OPT_UNKNOWN"

TakesNext(args, i) == i < Len(args) /\ args[i + 1].form = "word"

\* The arguments at which parse throws.
ThrowsAt(option_types, args, i) ==
    LET arg == args[i]
        type == get_type(option_types, arg.name)
    IN  \/ arg.form = "assign" /\ type \in {"OPT_UNKNOWN", "OPT_NO"}
        \/ arg.form = "long" /\ type = "OPT_REQUIRED" /\ ~TakesNext(args, i)
        \/ arg.form = "short_assign"
        \/ /\ arg.form = "short" /\ type = "OPT_REQUIRED"
           /\ arg.value = Empty /\ ~TakesNext(args, i)

\* The options an argument sets; a group of letters sets every flag in it, and
\* an unknown option is passed over in silence.
SetAt(option_types, args, i) ==
    LET arg == args[i]
        type == get_type(option_types, arg.name)
    IN  CASE arg.form = "word" -> {}
          [] type = "OPT_UNKNOWN" -> {}
          [] arg.form = "short" /\ type = "OPT_NO" ->
               {letter \in arg.letters : get_type(option_types, letter) = "OPT_NO"}
          [] OTHER -> {arg.name}

ValueAt(option_types, args, i) ==
    LET arg == args[i]
    IN  IF arg.form = "assign" THEN arg.value
        ELSE IF get_type(option_types, arg.name) = "OPT_NO" THEN Empty
        ELSE IF arg.form = "short" /\ arg.value # Empty THEN arg.value
        ELSE IF TakesNext(args, i) THEN args[i + 1].value
        ELSE Empty

\* The options that have a value after parse.
SetNames(option_types, args) ==
    UNION {SetAt(option_types, args, i) : i \in DOMAIN args}

\* m_args_map.
ArgsMap(option_types, args) ==
    [name \in SetNames(option_types, args) |->
        ValueAt(option_types, args,
                Max({i \in DOMAIN args : name \in SetAt(option_types, args, i)}))]

\* Mutant of ParseThrows: required options are not looked for at the end.
ParseThrows_NoFinalCheck(option_types, args) ==
    \E i \in DOMAIN args : ThrowsAt(option_types, args, i)

ParseThrows(option_types, args) ==
    \/ \E i \in DOMAIN args : ThrowsAt(option_types, args, i)
    \/ \E name \in DOMAIN option_types :
          option_types[name] = "OPT_REQUIRED" /\ name \notin SetNames(option_types, args)

\* get_int: stoll throws unless the value starts with a number.
GetIntThrows(args_map, name) == args_map[name] # "number"
=============================================================================
