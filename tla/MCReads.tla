------------------------------ MODULE MCReads ------------------------------
(* Bindings to read through, for TLC.                                        *)
EXTENDS Reads

Binding(door, kind, paged, ceiling, guarded, model) ==
  [door |-> door, kind |-> kind, paged |-> paged, ceiling |-> ceiling,
   guarded |-> guarded, model |-> model, provides |-> {}]

MCDoors ==
  {Binding("resource", "retrieve", FALSE, Unbounded, TRUE, m) : m \in BOOLEAN}
  \cup {[Binding("resource", "list", FALSE, Unbounded, TRUE, TRUE) EXCEPT !.provides = p] :
          p \in {{}, {"user"}}}
  \cup {Binding("prompt", "retrieve", FALSE, Unbounded, FALSE, FALSE),
        Binding("completion", "list", FALSE, Unbounded, FALSE, FALSE)}
  \cup {Binding("selector", "list", p, c, g, TRUE) :
          p \in BOOLEAN, c \in {2, Unbounded}, g \in BOOLEAN}
  \cup {Binding("selector", "retrieve", FALSE, 2, g, m) : g \in BOOLEAN, m \in BOOLEAN}
  \cup {Binding("direct", k, FALSE, 2, g, TRUE) : k \in {"retrieve", "list"}, g \in BOOLEAN}
=============================================================================
