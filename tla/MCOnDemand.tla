----------------------------- MODULE MCOnDemand -----------------------------
(* OnDemand for TLC: payloads that exercise every branch of the validation, *)
(* with three identifiers, so that the duplicate check forgets the oldest.  *)
EXTENDS OnDemand

Cmd(i, k, f) == [op |-> "CMD", id |-> i, class |-> k, form |-> f]
Cancel(s) == [op |-> "CANCEL", ids |-> s]

MCIds == 1..3
MCMessages ==
  { <<Cmd(1, "profile", "ok"), Cmd(2, "profile", "ok"), Cmd(3, "ping", "ok")>>,
    <<Cmd(2, "profile", "ok"), Cmd(3, "profile", "badfield")>>,
    <<Cancel({1}), Cmd(1, "profile", "short")>>,
    <<Cancel({2})>> }
=============================================================================
