------------------------------ MODULE Tokens ------------------------------
(***************************************************************************)
(* Token expressions in names and IDs (util/expand/mapping_func.go with    *)
(* os.Expand).  A string is a sequence of parts: texts, tokens ${x}, and   *)
(* tokens with a default ${x=default}.                                     *)
(***************************************************************************)
EXTENDS Sequences

Text(s) == <<"text", s>>
Token(x) == <<"token", x>>
TokenOr(x, default) == <<"token", x, default>>

IsString(s) == s \in Seq({s[i] : i \in DOMAIN s}) /\ \A i \in DOMAIN s : s[i][1] \in {"text", "token"}

HasTokens(s) == \E i \in DOMAIN s : s[i][1] = "token"

\* What becomes of one part: env is the environment, keep is
\* DoNotExpandIfNotFound.
MappingFunc(part, env, keep) ==
    CASE part[1] = "text" -> part
      [] part[1] = "token" /\ part[2] \in DOMAIN env -> Text(env[part[2]])
      [] part[1] = "token" /\ part[2] \notin DOMAIN env ->
            IF Len(part) = 3 THEN Text(part[3]) ELSE IF keep THEN part ELSE Text("")

Expand(s, env, keep) == [i \in DOMAIN s |-> MappingFunc(s[i], env, keep)]
=============================================================================
