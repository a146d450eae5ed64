---------------------------- MODULE MCBuildSched ----------------------------
(***************************************************************************)
(* Two objects, a library of both, a program of one and the library, a     *)
(* tool of one object, and a test of the program that must run here.       *)
(***************************************************************************)
EXTENDS BuildSched

MCNodes == {"a", "b", "lib", "prog", "tool", "test"}
MCDeps == [n \in MCNodes |->
    CASE n \in {"a", "b"} -> {} [] n = "lib" -> {"a", "b"} [] n = "tool" -> {"b"}
      [] n = "prog" -> {"b", "lib"} [] n = "test" -> {"prog"}]

=============================================================================
