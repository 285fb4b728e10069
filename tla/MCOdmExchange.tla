--------------------------- MODULE MCOdmExchange ---------------------------
(* OdmExchange for TLC: one packet of each kind that is treated alike, data  *)
(* of both pages and from the wrong node, and answers with more behind them. *)
EXTENDS OdmExchange

P(kk, r) == [k |-> kk, right |-> r, trail |-> "none"]
D(p, m, r, t) == [k |-> "DATA", right |-> r, trail |-> t, page |-> p, more |-> m]

MCPackets ==
  {P(kk, TRUE) : kk \in FromNode \cup {"PUSH", "GARBLED"}}
    \cup {P(kk, FALSE) : kk \in AnySource \cup {"DLMS_SUCCESS"}}
    \cup {D(p, m, TRUE, "none") : p \in 0..MaxPage, m \in BOOLEAN}
    \cup {[k |-> "OBJECT", right |-> TRUE, trail |-> "none", page |-> 0]}
    \cup {D(0, TRUE, FALSE, "none"), D(0, TRUE, TRUE, "push"),
          D(0, FALSE, TRUE, "other")}
=============================================================================
