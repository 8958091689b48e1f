---------------------------- MODULE MCTestClient ----------------------------
(* Lines of at most two arguments over options the commands have and have not. *)
EXTENDS TestClient

Argument(form, name, value) ==
    [form |-> form, name |-> name, value |-> value, letters |-> {}]

MCArguments ==
    {Argument("assign", name, "text") : name \in {"email", "password", "message", "userid", "bogus"}}
    \cup {Argument("assign", name, "number") : name \in {"userid", "groupid"}}
    \cup {Argument("long", "userid", Empty), Argument("word", Empty, "number")}

MCLines == {<<>>} \cup UNION {[1 .. n -> MCArguments] : n \in 1 .. 2}
=============================================================================
