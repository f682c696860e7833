----------------------------- MODULE MCSchemaDiff -----------------------------
(* Sources of three types: 1 has a property, 2 extends it, 3 is a TimeSeries. *)
EXTENDS SchemaDiff, TLC

CONSTANTS name, int, str, notnull, low, high, one, two, now, uuid, ix, ts1, ts2,
          shownOne, shownTwo, shownNow, shownUuid, none

Texts == one :> shownOne @@ two :> shownTwo @@ now :> shownNow @@ uuid :> shownUuid

P(type, flags, limit, default) ==
  [type |-> type, flags |-> flags, limit |-> limit, default |-> default]

Widget(q) == [kind |-> "document", supers |-> {}, props |-> name :> q,
            indexes |-> {}, spec |-> none]
Sub(supers, indexes) == [kind |-> "document", supers |-> supers, props |-> name :> P(int, {}, none, none),
            indexes |-> indexes, spec |-> none]
Series(s) == [kind |-> "timeseries", supers |-> {}, props |-> [p \in {} |-> none],
              indexes |-> {}, spec |-> s]

Five == {
  1 :> Widget(P(int, {}, low, one)),
  1 :> Widget(P(int, {notnull}, high, two)) @@ 2 :> Sub({1}, {ix}) @@ 3 :> Series(ts1),
  1 :> Widget(P(str, {}, none, now)) @@ 2 :> Sub({}, {}),
  1 :> Widget(P(int, {notnull}, low, uuid)) @@ 3 :> Series(ts2),
  2 :> Sub({}, {ix}) @@ 3 :> Sub({2}, {}) }
=============================================================================
