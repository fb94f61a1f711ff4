----------------------------- MODULE RouteStore -----------------------------
(***************************************************************************)
(* The upstream groups that a load from the database yields                *)
(* (server/src/db/route_store.rs): one per model and protocol that has     *)
(* rows, the protocol being the text that stands in them.  The rows are    *)
(* gathered in a HashMap, so the groups come in any order, a different one *)
(* for each load.  When which of the three tables is read is ConfigSync's  *)
(* concern; here all of them stand still.                                  *)
(*                                                                         *)
(* A database is [routes, models, aliases, capacity]: the joined rows      *)
(* [model, protocol, fallback, weight, provider, url], the models          *)
(* [limits, disabled] by name, pairs <<alias, model>>, and a function from *)
(* <<model, protocol>> to a capacity.                                      *)
(***************************************************************************)
EXTENDS Integers, Sequences, SequencesExt

CONSTANTS None,     \* NULL, or no row
          U32Max    \* the largest u32

\* u32::try_from(v).unwrap_or(u32::MAX): a negative number is the largest.
ToU32(v) == IF v = None \/ v \in 0..U32Max THEN v ELSE U32Max

Clamp(weight) == IF weight < 1 THEN 1 ELSE IF weight > 255 THEN 255 ELSE weight

\* ORDER BY is_fallback, weight DESC; equal rows come in any order.
Before(a, b) ==
    \/ ~a.fallback /\ b.fallback
    \/ a.fallback = b.fallback /\ a.weight > b.weight

RowOrders(rows) ==
    {s \in SetToSeqs(rows) : \A i, j \in DOMAIN s : i < j => ~Before(s[j], s[i])}

\* The query of the routes.
Live(db) == {row \in db.routes : ~db.models[row.model].disabled}

\* api_compatibility.parse(), in any case of its letters; what is unknown is
\* taken for OpenAI.
Parsed(protocol) ==
    CASE protocol \in {"anthropic", "Anthropic"} -> "anthropic"
      [] protocol \in {"native", "Native"} -> "native"
      [] OTHER -> "openai"

\* The iteration for one entry <<model, protocol>> of model_proto_rows.  In the
\* database a credential is called after its provider, whatever the node.
DbGroup(db, entry, rows) ==
    [model |-> entry[1],
     aliases |-> {pair[1] : pair \in {q \in db.aliases : q[2] = entry[1]}},
     protocol |-> Parsed(entry[2]),
     bindings |-> [i \in DOMAIN rows |->
                      [id |-> <<rows[i].provider>>,
                       url |-> rows[i].url,
                       weight |-> Clamp(rows[i].weight),
                       priority |-> IF rows[i].fallback THEN 1 ELSE 0]],
     limits |-> ToU32(db.models[entry[1]].limits),
     capacity |-> IF entry \in DOMAIN db.capacity
                  THEN ToU32(db.capacity[entry]) ELSE None]

\* load_all_upstream_groups(): all that it may return.
DbGroups(db) ==
    LET entries == {<<row.model, row.protocol>> : row \in Live(db)}
        rows(e) == {row \in Live(db) : <<row.model, row.protocol>> = e}
        sorted == {rs \in [entries -> UNION {RowOrders(rows(e)) : e \in entries}] :
                      \A e \in entries : rs[e] \in RowOrders(rows(e))}
    IN  {[i \in DOMAIN order |-> DbGroup(db, order[i], rs[order[i]])] :
            order \in SetToSeqs(entries), rs \in sorted}
=============================================================================
