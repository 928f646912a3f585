------------------------------ MODULE Routing -------------------------------
(***************************************************************************)
(* Which route of the running policy a request takes                       *)
(* (src/policy/matcher.rs, src/policy/mod.rs).                             *)
(*                                                                         *)
(* A path is the sequence of the segments after its leading slash: "/" is  *)
(* <<"">>.  A glob is the set of its alternatives, each a sequence of      *)
(* literal segments and stars.  Globs are compiled without                 *)
(* literal_separator, so a star - a single or a double one - crosses       *)
(* slashes: it covers one segment or more.                                 *)
(***************************************************************************)
EXTENDS Validation

Lit(text) == [kind |-> "lit", text |-> text]
Star == [kind |-> "star", text |-> ""]

\* Does one alternative of a glob match the whole path?
Covers(pattern, path) ==
    LET fits[i \in 1..(Len(pattern) + 1), j \in 1..(Len(path) + 1)] ==
            IF i > Len(pattern) \/ j > Len(path)
            THEN i > Len(pattern) /\ j > Len(path)
            ELSE \/ pattern[i].kind = "lit" /\ pattern[i].text = path[j] /\ fits[i + 1, j + 1]
                 \/ pattern[i].kind = "star" /\ (fits[i + 1, j + 1] \/ fits[i, j + 1])
    IN  fits[1, 1]

is_match(glob, path) == \E pattern \in glob : Covers(pattern, path)

KnownMethods ==
    {"GET", "HEAD", "POST", "PUT", "PATCH", "DELETE", "OPTIONS", "CONNECT", "TRACE"}

\* A matcher compiles unless it names a method that is only a well-formed token.
compiles(m) == \A allowed \in m.methods : allowed \subseteq KnownMethods

matches(m, request) ==
    /\ \A want \in m.host : request.host = want
    /\ \A allowed \in m.methods : request.method \in allowed
    /\ is_match(m.path, request.path)

\* config::load and PolicySnapshot::build: what a start, a check and a reload
\* all demand of the file.
load(file) == file # {} /\ validate(The(file))
build(c) == \A i \in DOMAIN c.routes : compiles(c.routes[i].matcher)

\* The first route of the file that matches, if any does.
resolve(c, request) ==
    LET found == {i \in DOMAIN c.routes : matches(c.routes[i].matcher, request)}
    IN  {c.routes[i] : i \in {j \in found : \A k \in found : j <= k}}

declared_class(c, request) == UNION {r.class : r \in resolve(c, request)}
=============================================================================
