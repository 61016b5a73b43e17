------------------------------- MODULE MCSql -------------------------------
(* Sql with twelve atoms and the seeds that open each kind of token.       *)
EXTENDS Sql

MCAtoms == {"--", "/*", "*/", "quote", "dquote", "backtick", "backslash", "\n", " ", "$", "e", "a"}
MCSeeds == {<<>>, <<"e", "quote", "a", "quote">>, <<"$", "a", "$">>, <<"backtick", "a">>}
============================================================================
