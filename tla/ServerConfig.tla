---------------------------- MODULE ServerConfig ----------------------------
(***************************************************************************)
(* config.Load: the file, then the environment over it, then the checks.   *)
(*                                                                         *)
(* `whole' says that the file can be read and decoded and has a host, a    *)
(* positive timeout, a data file and an upload directory; the token "none" *)
(* is one that is not set; a PORT that is not a number counts as 0.        *)
(***************************************************************************)
EXTENDS Integers

File == [token : {"none", "file"}, port : {-1, 0, 1}, whole : BOOLEAN]

Env == [token : {"none", "env"}, portSet : BOOLEAN, port : {0, 2}]

\* Mutant: the environment only fills in what the file leaves out.
OverrideFillsIn(file, env) ==
  [file EXCEPT !.token = IF @ = "none" THEN env.token ELSE @,
               !.port = IF env.portSet THEN env.port ELSE @]

\* applyEnvOverrides, when it does not fail.
Override(file, env) ==
  [file EXCEPT !.token = IF env.token # "none" THEN env.token ELSE @,
               !.port = IF env.portSet THEN env.port ELSE @]

EnvRejected(env) == env.portSet /\ env.port <= 0

\* Validate asks of the port only that it is not 0.
Valid(cfg) == cfg.whole /\ cfg.port # 0

\* Mutant: the file is validated before the environment is applied.
LoadsEarly(file, env) == ~EnvRejected(env) /\ Valid(file)

Loads(file, env) == ~EnvRejected(env) /\ Valid(Override(file, env))
=============================================================================
