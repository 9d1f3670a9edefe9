----------------------------- MODULE MCDBServer -----------------------------
(* Tables for DBServer.                                                     *)
EXTENDS DBServer

In(table, name) == [call |-> "addInput", col |-> [table |-> table, name |-> name]]
Op(a, b) == [call |-> "addOp", wires |-> <<a, b>>]
Inverse1(a) == [call |-> "addOp", wires |-> <<a>>]
Output1(name, m) == [call |-> "addOutput", name |-> name, mem |-> m]
Query(calls) == Build([table |-> "left", name |-> "key"], [table |-> "right", name |-> "key"], calls)

(* The values of a query: 1 the left key, 2 the right one, then those of    *)
(* the calls.  A join of columns; one with gates; one for the flags alone.  *)
Columns == Query(<<Output1("key", 1), In("right", "data"), Output1("data", 3), In("left", "info"), Output1("info", 4)>>)
Gates == Query(<<In("left", "more"), In("right", "data"), In("right", "extra"), Op(3, 5), Op(4, 6), Inverse1(7),
                 Output1("sum", 8), Output1("data", 4), Output1("more", 3), In("right", "key"), Output1("key", 9)>>)
Keys == Query(<<Output1("key", 1)>>)
ASSUME QueriesAssumption == \A q \in {Columns, Gates, Keys} : WellFormed(q)

(* Hashes of the keys 0 to 3 to five bins, some with bins that coincide.    *)
Bins == 5
Hash(k0, k1, k2, k3) == [k \in 0 .. 3 |-> <<k0, k1, k2, k3>>[k + 1]]
Mixed == Hash(<<1, 2, 3>>, <<1, 2, 3>>, <<1, 4, 5>>, <<3, 2, 1>>)
Hashes == {Mixed, Hash(<<1, 2, 3>>, <<2, 2, 2>>, <<5, 5, 1>>, <<4, 5, 4>>),
           Hash(<<1, 2, 3>>, <<3, 4, 4>>, <<3, 4, 5>>, <<3, 3, 4>>)}
Placements(right, hash) ==
  {f \in [DOMAIN right -> 1 .. Bins] :
     /\ \A r \in DOMAIN right : f[r] \in ToSet(hash[right[r]])
     /\ \A r, s \in DOMAIN right : f[r] = f[s] => r = s}
One == << <<3, 5, 1, 2, 0, 4>>, <<0, 1, 0, 1, 1, 0>> >>
Other == << <<0, 0, 2, 7, 1, 0>>, <<0, 0, 1, 1, 0, 1>> >>

Dbs(ops, right, left, hashes, generators) ==
  UNION {{[op |-> q[1], query |-> q[2], right |-> right, left |-> left, hash |-> h, bins |-> Bins,
           place |-> f, draws |-> g[1], choice |-> g[2]] : f \in Placements(right, h), g \in generators} :
         q \in ops, h \in hashes}

(* Two or one rows on the right, three on the left; and six, more than bins.*)
Joins == {<<"join", Gates>>, <<"noReveal", Columns>>}
Unions == {<<"union", Keys>>, <<"join", Columns>>}
Samples ==
  Dbs(Joins, <<2, 1>>, <<1, 3, 2>>, Hashes, {One}) \cup Dbs(Joins, <<1, 3>>, <<3, 1, 1>>, Hashes, {Other})
    \cup Dbs(Unions, <<3>>, <<2, 3, 1>>, Hashes, {Other}) \cup Dbs(Joins, <<2>>, <<1, 2, 3, 3, 2, 1>>, {Mixed}, {One, Other})

(* The tables meet the hypothesis of the theorems of DBServerProofs.        *)
ASSUME ChunksAssumption == SameChunks
=============================================================================
