------------------------------- MODULE Trace --------------------------------
(***************************************************************************)
(* Whose trace a request belongs to and whether it is sampled              *)
(* (src/telemetry/trace.rs).                                               *)
(*                                                                         *)
(* A traceparent header is known by what its parser looks at: whether its  *)
(* fields stand where they must and are lower-case hexadecimal, its        *)
(* version, whether anything follows the flags, the two ids and the flags. *)
(* An id is a number, its low bits included; the invalid all-zero id is 0. *)
(***************************************************************************)
EXTENDS Schema

parse_traceparent(raw) ==
    {[trace_id |-> h.trace, span_id |-> h.span, sampled |-> h.flags % 2 = 1] :
        h \in {x \in raw :
            /\ x.fields /\ x.version # 255
            /\ x.version = 0 => ~x.longer
            /\ x.trace # 0 /\ x.span # 0}}

\* What the generator drew; the invalid id is replaced.
random_id(drawn) == IF drawn = 0 THEN 1 ELSE drawn

ratio(one_in, trace_id) == one_in \in {0, 1} \/ trace_id % one_in = 0

decide(sample, trace_id, parent_sampled) ==
    CASE sample.mode = "always" -> TRUE
      [] sample.mode = "never" -> FALSE
      [] sample.mode = "ratio" -> ratio(sample.one_in, trace_id)
      [] sample.mode = "parent_or_ratio" ->
            IF parent_sampled # {} THEN The(parent_sampled) ELSE ratio(sample.one_in, trace_id)

believe_inbound(policy, peer_trusted) ==
    policy = "always" \/ (policy = "from_trusted_proxies" /\ peer_trusted)

\* The request joins the caller's trace, or starts one of its own.  A tracestate
\* rides along only with a context that was joined; one that is too long or not
\* printable is "?".
begin(inbound, tracestate, sample, drawn, span) ==
    LET parsed == parse_traceparent(inbound)
        continued == parsed # {}
        trace_id == IF continued THEN The(parsed).trace_id ELSE random_id(drawn)
    IN  [trace_id |-> trace_id, parent_span_id |-> {p.span_id : p \in parsed},
         span_id |-> random_id(span), origin_span_id |-> {},
         sampled |-> decide(sample, trace_id, {p.sampled : p \in parsed}),
         continued |-> continued,
         tracestate |-> IF continued THEN tracestate \ {"", "?"} ELSE {}]

outbound_traceparent(t) ==
    [fields |-> TRUE, version |-> 0, longer |-> FALSE, trace |-> t.trace_id,
     span |-> IF t.origin_span_id = {} THEN t.span_id ELSE The(t.origin_span_id),
     flags |-> IF t.sampled THEN 1 ELSE 0]
=============================================================================
